------------------------------- MODULE PoiProofs -------------------------------
(***************************************************************************)
(* Proofs about Poi, for every set of friends, networks, points and ids:   *)
(* what is known of somebody is known of his row although ids are used     *)
(* again, without a route the row that is deleted is the one selected,     *)
(* points are drawn in the section they were queried for, the lists fit,   *)
(* and what the user added to a file of waypoints stays there.             *)
(***************************************************************************)
EXTENDS Poi, SequenceTheorems, TLAPS

Keys == Friends \cup Networks \cup Waypoints \cup RoutePoints

-----------------------------------------------------------------------------
(* The tables.                                                             *)

\* Rows have ids, and are of those who write; what else is known is of friends and
\* networks, and of their own rows.
TablesInv ==
    /\ DOMAIN poi \subseteq Ids
    /\ \A i \in DOMAIN poi : poi[i] \in Keys
    /\ \A e \in extra : e[2] \in Friends \cup Networks
    /\ Store!ExtrasBelong

\* An insertion takes a number that no row has.
LEMMA InsertKeeps ==
  ASSUME TablesInv, NEW id, NEW key \in Keys, Store!Insert(id, key)
  PROVE  /\ id \in Ids \ DOMAIN poi /\ DOMAIN poi' = DOMAIN poi \cup {id}
         /\ poi'[id] = key /\ \A i \in DOMAIN poi : poi'[i] = poi[i]
         /\ \A i \in DOMAIN poi' : poi'[i] \in Keys
<1>1. id \in Ids /\ id \notin DOMAIN poi
  BY IdsAssumption DEF TablesInv, Store!Insert, Store!IsNext
<1>2. QED
  BY <1>1 DEF TablesInv, Store!Insert

\* The row that is updated is that of the one it is updated for.
LEMMA UpdateKeeps ==
  ASSUME TablesInv, NEW key, NEW id \in Store!Known(key), Store!Update(id, key)
  PROVE  poi' = [i \in DOMAIN poi |-> poi[i]]
<1>1. PICK e \in extra : e[1] = id /\ e[2] = key
  BY DEF Store!Known
<1>2. id \in DOMAIN poi => poi[id] = key
  BY <1>1, IdsAssumption DEF TablesInv, Store!ExtrasBelong, Store!Failed
<1>3. QED
  BY <1>2 DEF Store!Update

LEMMA InsertNewTables ==
  ASSUME TablesInv, NEW key \in Friends \cup Networks, Store!InsertNew(key)
  PROVE  TablesInv'
<1>1. CASE \E id \in Ids : Store!Insert(id, key) /\ extra' \in {extra, extra \cup {<<id, key>>}}
  <2>1. PICK id \in Ids : Store!Insert(id, key) /\ extra' \in {extra, extra \cup {<<id, key>>}}
    BY <1>1
  <2>2. key \in Keys
    BY DEF Keys
  <2>3. /\ id \in Ids \ DOMAIN poi /\ DOMAIN poi' = DOMAIN poi \cup {id}
        /\ poi'[id] = key /\ \A i \in DOMAIN poi : poi'[i] = poi[i]
        /\ \A i \in DOMAIN poi' : poi'[i] \in Keys
    BY <2>1, <2>2, InsertKeeps
  <2>4. DOMAIN poi' \subseteq Ids
    BY <2>3 DEF TablesInv
  <2>5. \A e \in extra' : e \in extra \/ e = <<id, key>>
    BY <2>1
  <2>6. \A e \in extra' : e[2] \in Friends \cup Networks
    BY <2>5 DEF TablesInv
  <2>7. Store!ExtrasBelong'
    <3>1. ASSUME NEW e \in extra', e[1] # Store!Failed PROVE e[1] \in DOMAIN poi' /\ poi'[e[1]] = e[2]
      <4>1. CASE e \in extra
        BY <2>3, <3>1, <4>1 DEF TablesInv, Store!ExtrasBelong
      <4>2. CASE e = <<id, key>>
        BY <2>3, <4>2
      <4>3. QED
        BY <2>5, <4>1, <4>2
    <3>2. QED
      BY <3>1 DEF Store!ExtrasBelong, Store!Failed
  <2>8. QED
    BY <2>3, <2>4, <2>6, <2>7 DEF TablesInv
<1>2. CASE extra' = extra \cup {<<Store!Failed, key>>} /\ poi' = poi
  BY <1>2 DEF TablesInv, Store!ExtrasBelong
<1>3. QED
  BY <1>1, <1>2 DEF Store!InsertNew

LEMMA UpdateTables ==
  ASSUME TablesInv, NEW key, NEW id \in Store!Known(key), Store!Update(id, key), UNCHANGED extra
  PROVE  TablesInv'
<1>1. DOMAIN poi' = DOMAIN poi /\ \A i \in DOMAIN poi : poi'[i] = poi[i]
  BY UpdateKeeps
<1>2. QED
  BY <1>1 DEF TablesInv, Store!ExtrasBelong, Store!Failed

LEMMA SightedTables ==
  ASSUME TablesInv, NEW n \in Networks, NEW fixed, NEW best, Store!Sighted(n, fixed, best)
  PROVE  TablesInv'
<1>1. CASE \E id \in Store!Known(n) : Store!UpdateKnown(id, n)
  BY <1>1, UpdateTables DEF Store!UpdateKnown
<1>2. CASE UNCHANGED Store!store
  BY <1>2 DEF TablesInv, Store!ExtrasBelong, Store!store
<1>3. CASE Store!InsertNew(n)
  BY <1>3, InsertNewTables
<1>4. QED
  BY <1>1, <1>2, <1>3 DEF Store!Sighted

-----------------------------------------------------------------------------
(* The lookup window.                                                      *)

\* Before there is a route no row is of one, what was found of the user's own rows is still
\* there, and only such an entry can be deleted, unless a point was selected unchecked.
WindowInv ==
    ~routed =>
        /\ ~routing
        /\ \A i \in DOMAIN poi : poi[i] \notin RoutePoints
        /\ ~unchecked =>
              /\ \A r \in results : r = [id |-> r.id, key |-> r.key]
              /\ \A r \in results : r.key # Store!Osm => r.id \in DOMAIN poi /\ poi[r.id] = r.key
              /\ selected \in results \cup {Store!Nothing}
              /\ selected # Store!Nothing /\ button_delete => selected.key # Store!Osm

StoreInv == TablesInv /\ WindowInv

\* Rows that are added or left alone do not disturb the window.
LEMMA RowsKept ==
  ASSUME WindowInv, UNCHANGED <<results, selected, button_delete, unchecked, routing, routed>>,
         \A i \in DOMAIN poi : i \in DOMAIN poi' /\ poi'[i] = poi[i],
         \A i \in DOMAIN poi' \ DOMAIN poi : poi'[i] \notin RoutePoints
  PROVE  WindowInv'
  BY DEF WindowInv, Store!Nothing, Store!Osm

LEMMA WritersRows ==
  ASSUME TablesInv, NEW key \in Friends \cup Networks \cup Waypoints,
         \/ \E id \in Ids : Store!Insert(id, key)
         \/ \E id \in Store!Known(key) : Store!Update(id, key)
         \/ UNCHANGED poi
  PROVE  /\ \A i \in DOMAIN poi : i \in DOMAIN poi' /\ poi'[i] = poi[i]
         /\ \A i \in DOMAIN poi' \ DOMAIN poi : poi'[i] \notin RoutePoints
<1>1. key \in Keys \ RoutePoints
  BY WritersAssumption DEF Keys
<1>2. CASE \E id \in Ids : Store!Insert(id, key)
  BY <1>1, <1>2, InsertKeeps
<1>3. CASE \E id \in Store!Known(key) : Store!Update(id, key)
  BY <1>3, UpdateKeeps
<1>4. QED
  BY <1>2, <1>3

LEMMA SightedStore ==
  ASSUME StoreInv, NEW n \in Networks, NEW fixed, NEW best, Store!Sighted(n, fixed, best),
         UNCHANGED lookup
  PROVE  StoreInv'
<1>1. TablesInv'
  BY SightedTables DEF StoreInv
<1>2. \/ \E id \in Ids : Store!Insert(id, n)
      \/ \E id \in Store!Known(n) : Store!Update(id, n)
      \/ UNCHANGED poi
  BY DEF Store!Sighted, Store!InsertNew, Store!UpdateKnown, Store!store
<1>3. QED
  BY <1>1, <1>2, WritersRows, RowsKept DEF StoreInv, lookup

LEMMA FriendStore ==
  ASSUME StoreInv, NEW f \in Friends, Store!UpdateFriendsData(f)
  PROVE  StoreInv'
<1>1. TablesInv'
  BY InsertNewTables, UpdateTables DEF StoreInv, Store!UpdateFriendsData, Store!UpdateKnown
<1>2. \/ \E id \in Ids : Store!Insert(id, f)
      \/ \E id \in Store!Known(f) : Store!Update(id, f)
      \/ UNCHANGED poi
  BY DEF Store!UpdateFriendsData, Store!InsertNew, Store!UpdateKnown
<1>3. UNCHANGED <<results, selected, button_delete, unchecked, routing, routed>>
  BY DEF Store!UpdateFriendsData, Store!window, Store!route
<1>4. QED
  BY <1>1, <1>2, <1>3, WritersRows, RowsKept DEF StoreInv

LEMMA AddedStore ==
  ASSUME StoreInv,
         (\E w \in Waypoints : Store!AddWaypoint(w)) \/ \E r \in RoutePoints : Store!AddRoutePoint(r)
  PROVE  StoreInv'
<1>1. TablesInv'
  <2>1. PICK key \in Keys, id \in Ids : Store!Insert(id, key) /\ UNCHANGED extra
    BY DEF Keys, Store!AddWaypoint, Store!AddRoutePoint
  <2>2. /\ id \in Ids \ DOMAIN poi /\ DOMAIN poi' = DOMAIN poi \cup {id}
        /\ \A i \in DOMAIN poi : poi'[i] = poi[i]
        /\ \A i \in DOMAIN poi' : poi'[i] \in Keys
    BY <2>1, InsertKeeps DEF StoreInv
  <2>3. QED
    BY <2>1, <2>2 DEF StoreInv, TablesInv, Store!ExtrasBelong, Store!Failed
<1>2. WindowInv'
  <2>1. CASE \E w \in Waypoints : Store!AddWaypoint(w)
    <3>1. PICK w \in Waypoints : Store!AddWaypoint(w)
      BY <2>1
    <3>2. UNCHANGED <<results, selected, button_delete, unchecked, routing, routed>>
      BY <3>1 DEF Store!AddWaypoint, Store!window, Store!route
    <3>3. \E id \in Ids : Store!Insert(id, w)
      BY <3>1 DEF Store!AddWaypoint
    <3>4. QED
      BY <3>2, <3>3, WritersRows, RowsKept DEF StoreInv
  <2>2. CASE \E r \in RoutePoints : Store!AddRoutePoint(r)
    BY <2>2 DEF WindowInv, Store!AddRoutePoint
  <2>3. QED
    BY <2>1, <2>2
<1>3. QED
  BY <1>1, <1>2 DEF StoreInv

LEMMA RouteStore ==
  ASSUME StoreInv, Store!EditRoute \/ Store!LeaveRoute \/ Store!CleanupRoute
  PROVE  StoreInv'
<1>1. CASE Store!EditRoute \/ Store!LeaveRoute
  BY <1>1 DEF StoreInv, TablesInv, WindowInv, Store!ExtrasBelong, Store!EditRoute, Store!LeaveRoute,
              Store!store, Store!window, Store!Nothing, Store!Osm
<1>2. CASE Store!CleanupRoute
  <2>1. /\ DOMAIN poi' = {i \in DOMAIN poi : poi[i] \notin RoutePoints}
        /\ \A i \in DOMAIN poi' : poi'[i] = poi[i]
        /\ UNCHANGED <<extra, results, selected, button_delete, unchecked, routed>>
        /\ routing' = routing \/ routing' = FALSE
    BY <1>2 DEF Store!CleanupRoute, Store!RowsWithout, Store!Restrict, Store!window
  <2>2. TablesInv'
    BY <2>1, WritersAssumption DEF StoreInv, TablesInv, Store!ExtrasBelong, Store!Failed
  <2>3. WindowInv'
    BY <2>1 DEF StoreInv, WindowInv, Store!Nothing, Store!Osm
  <2>4. QED
    BY <2>2, <2>3 DEF StoreInv
<1>3. QED
  BY <1>1, <1>2

LEMMA LookupStore ==
  ASSUME StoreInv, Store!Search \/ Store!Delete \/ \E r \in results : Store!Select(importactive, r)
  PROVE  StoreInv'
<1>1. CASE Store!Search
  <2>1. UNCHANGED <<poi, extra, routing, routed>> /\ results' \subseteq Store!Found
        /\ selected' = Store!Nothing
    BY <1>1 DEF Store!Search, Store!store, Store!route
  <2>2. \A r \in Store!Found : /\ r = [id |-> r.id, key |-> r.key]
                               /\ r.key # Store!Osm => r.id \in DOMAIN poi /\ poi[r.id] = r.key
    BY DEF Store!Found
  <2>3. QED
    BY <2>1, <2>2 DEF StoreInv, TablesInv, WindowInv, Store!ExtrasBelong, Store!Nothing
<1>2. CASE Store!Delete
  <2>1. /\ DOMAIN poi' = DOMAIN poi \ {selected.id} /\ \A i \in DOMAIN poi' : poi'[i] = poi[i]
        /\ extra' = {e \in extra : e[1] # selected.id}
        /\ results' = results \ {selected} /\ selected' = Store!Nothing
        /\ UNCHANGED <<unchecked, routing, routed>> /\ selected # Store!Nothing /\ button_delete
    BY <1>2 DEF Store!Delete, Store!DeleteRow, Store!Restrict, Store!route
  <2>2. TablesInv'
    BY <2>1 DEF StoreInv, TablesInv, Store!ExtrasBelong, Store!Failed
  <2>3. ASSUME ~routed, ~unchecked, NEW r \in results', r.key # Store!Osm PROVE r.id # selected.id
    BY <2>1, <2>3 DEF StoreInv, WindowInv
  <2>4. WindowInv'
    BY <2>1, <2>3 DEF StoreInv, WindowInv, Store!Nothing, Store!Osm
  <2>5. QED
    BY <2>2, <2>4 DEF StoreInv
<1>3. CASE \E r \in results : Store!Select(importactive, r)
  <2>1. UNCHANGED <<poi, extra, results, routing, routed>>
    BY <1>3 DEF Store!Select, Store!store, Store!route
  <2>2. TablesInv'
    BY <2>1 DEF StoreInv, TablesInv, Store!ExtrasBelong
  <2>3. WindowInv'
    BY <1>3, <2>1 DEF StoreInv, WindowInv, Store!Select, Store!IsOsm, Store!Nothing, Store!Osm
  <2>4. QED
    BY <2>2, <2>3 DEF StoreInv
<1>4. QED
  BY <1>1, <1>2, <1>3

\* Rows go, and what is known of those that stay.
LEMMA RemovedTables ==
  ASSUME TablesInv, \A i \in DOMAIN poi' : i \in DOMAIN poi /\ poi'[i] = poi[i],
         \A e \in extra' : e \in extra /\ (e[1] # Store!Failed => e[1] \in DOMAIN poi')
  PROVE  TablesInv'
  BY DEF TablesInv, Store!ExtrasBelong, Store!Failed

\* The clean-ups at the end take rows away together with what is known of them.
LEMMA RestartStore ==
  ASSUME StoreInv, Store!Close \/ Store!Crash
  PROVE  StoreInv'
<1>1. /\ results' = {} /\ selected' = Store!Nothing /\ routing' = FALSE
      /\ \A i \in DOMAIN poi' : i \in DOMAIN poi /\ poi'[i] = poi[i] /\ poi[i] \notin RoutePoints
  BY DEF Store!Close, Store!Crash, Store!Reopened, Store!RowsWithout, Store!Restrict
<1>2. WindowInv'
  BY <1>1 DEF WindowInv, Store!Nothing, Store!Osm
<1>3. ASSUME NEW e \in extra', e[1] # Store!Failed PROVE e \in extra /\ e[1] \in DOMAIN poi'
  <2>1. e \in extra /\ e[1] \in DOMAIN poi /\ poi[e[1]] = e[2] /\ poi[e[1]] \notin RoutePoints
    BY <1>3, WritersAssumption
       DEF StoreInv, TablesInv, Store!ExtrasBelong, Store!Close, Store!Crash, Store!CleanupExtras
  <2>2. CASE Store!Crash
    BY <2>1, <2>2 DEF Store!Crash, Store!RowsWithout, Store!Restrict
  <2>3. CASE Store!Close
    BY <1>3, <2>1, <2>3 DEF Store!Close, Store!CleanupExtras, Store!RowsWithout, Store!Restrict
  <2>4. QED
    BY <2>1, <2>2, <2>3
<1>4. \A e \in extra' : e \in extra
  BY DEF Store!Close, Store!Crash, Store!CleanupExtras
<1>5. TablesInv'
  BY <1>1, <1>3, <1>4, RemovedTables DEF StoreInv
<1>6. QED
  BY <1>2, <1>5 DEF StoreInv

LEMMA StoreInductive == StoreInv /\ [Next]_vars => StoreInv'
<1> SUFFICES ASSUME StoreInv, [Next]_vars PROVE StoreInv'
  OBVIOUS
<1>1. CASE Writers
  BY <1>1, FriendStore, SightedStore, AddedStore, RouteStore DEF Writers, lookup
<1>2. CASE Lookup \/ Restart
  BY <1>2, LookupStore, RestartStore DEF Lookup, Restart
<1>3. CASE ReadKismet
  <2>1. PICK line : Received(line) /\ (line # NoLine => line \in Networks) /\ UNCHANGED lookup
    BY <1>3 DEF ReadKismet, Kismet!Understood
  <2>2. CASE UNCHANGED tables
    BY <2>1, <2>2 DEF StoreInv, TablesInv, WindowInv, Store!ExtrasBelong, Store!Nothing, Store!Osm,
                      tables, lookup
  <2>3. CASE line \in Networks /\ Store!Sighted(line, TRUE, TRUE)
    BY <2>1, <2>3, SightedStore
  <2>4. QED
    BY <2>1, <2>2, <2>3 DEF Received
<1>4. CASE UNCHANGED storeVars
  BY <1>4 DEF StoreInv, TablesInv, WindowInv, Store!ExtrasBelong, Store!Nothing, Store!Osm, storeVars,
              tables, lookup
<1>5. QED
  BY <1>1, <1>2, <1>3, <1>4 DEF Next, Import, Show, Elapse, Server, WayTxt, vars

LEMMA StoreStarts == Init => StoreInv
  BY DEF Init, Store!StoreInit, StoreInv, TablesInv, WindowInv, Store!ExtrasBelong

\* What is known of a friend or a network is known of its own row, whichever rows were
\* deleted, by whom, and whatever numbers were given again (database.c, db_poi_edit).
THEOREM KnownOfItsOwn == FairSpec => []ExtrasBelong
<1>1. StoreInv => ExtrasBelong
  BY DEF StoreInv, TablesInv, ExtrasBelong
<1>2. QED
  BY <1>1, StoreStarts, StoreInductive, PTL DEF FairSpec, Spec

\* As long as there was no route, "Delete" deletes the row that is selected, whoever else
\* adds rows meanwhile, unless a point of OpenStreetMap was selected during an import
\* (poi_gui.c, select_poi_cb and delete_poi_cb).
THEOREM SelectedIsDeleted == FairSpec => DeletesChosen
<1>1. StoreInv => Store!DeletesChosen
  <2> SUFFICES ASSUME StoreInv, ~routed, ~unchecked, Store!Delete,
                      NEW i \in DOMAIN poi \ DOMAIN poi'
               PROVE  poi[i] = selected.key
    BY DEF Store!DeletesChosen, Store!DeletesSelected
  <2>1. i = selected.id
    BY DEF Store!Delete, Store!DeleteRow, Store!Restrict
  <2>2. selected \in results /\ selected.key # Store!Osm
    BY DEF StoreInv, WindowInv, Store!Delete
  <2>3. QED
    BY <2>1, <2>2 DEF StoreInv, WindowInv
<1>2. QED
  BY <1>1, StoreStarts, StoreInductive, PTL DEF FairSpec, Spec, DeletesChosen

-----------------------------------------------------------------------------
(* The points on the map.                                                  *)

\* The query for the list stays below the limit, which searches can only raise.
ViewInv ==
    /\ DOMAIN drawn = {"on", "of", "sources", "queried", "user"}
    /\ View!DrawnBelongs
    /\ list.count \in Nat /\ list.count <= ViewMax
    /\ poi_limit \in Nat /\ poi_limit >= Limit
    /\ poi_list_size = Limit

LEMMA NewLimitGrows ==
  ASSUME poi_limit \in Nat, NEW n \in Nat
  PROVE  View!NewLimit(n) \in Nat /\ View!NewLimit(n) >= poi_limit
<1>1. CASE n > poi_limit
  <2> DEFINE times == (n - poi_limit + Grow) \div (1 + Grow)
  <2>1. times \in Nat
    BY <1>1, LimitsAssumption
  <2> HIDE DEF times
  <2>2. (1 + Grow) * times \in Nat
    BY <2>1, LimitsAssumption
  <2>3. View!NewLimit(n) = poi_limit + (1 + Grow) * times
    BY <1>1 DEF View!NewLimit, times
  <2>4. QED
    BY <2>2, <2>3
<1>2. CASE ~(n > poi_limit)
  BY <1>2 DEF View!NewLimit
<1>3. QED
  BY <1>1, <1>2

\* poi_rebuild_list: the list is of the section shown, and fits.
LEMMA RebuildView ==
  ASSUME ViewInv, NEW show, View!RebuildList(show, importactive)
  PROVE  /\ list'.count \in Nat /\ list'.count <= ViewMax
         /\ poi_limit' \in Nat /\ poi_limit' >= Limit /\ poi_list_size' = Limit
         /\ ~View!Quiet(show, importactive) /\ View!Queried(show) # View!None => list'.of = view
         /\ View!Quiet(show, importactive) \/ View!Queried(show) = View!None => list' = list
<1>1. CASE UNCHANGED <<list, poi_limit, poi_list_size>>
          /\ (View!Quiet(show, importactive) \/ View!Queried(show) = View!None)
  BY <1>1 DEF ViewInv
<1>2. CASE /\ ~View!Quiet(show, importactive) /\ View!Queried(show) # View!None
           /\ \E n \in View!InView :
                 /\ list' = [of |-> view, sources |-> View!Queried(show), count |-> n]
                 /\ poi_limit' = View!NewLimit(n)
                 /\ poi_list_size' = View!Filled(n, poi_list_size)
  <2>1. PICK n \in 0 .. ViewMax :
           /\ list' = [of |-> view, sources |-> View!Queried(show), count |-> n]
           /\ poi_limit' = View!NewLimit(n)
           /\ poi_list_size' = View!Filled(n, poi_list_size)
    BY <1>2 DEF View!InView
  <2>2. n \in Nat /\ n < poi_limit
    BY LimitsAssumption DEF ViewInv
  <2>3. poi_limit' = poi_limit /\ poi_list_size' = poi_list_size
    BY <2>1, <2>2 DEF View!NewLimit, View!Filled, ViewInv
  <2>4. QED
    BY <1>2, <2>1, <2>3 DEF ViewInv
<1>3. QED
  BY <1>1, <1>2 DEF View!RebuildList

LEMMA DrawView ==
  ASSUME ViewInv, NEW show, NEW second, NEW old, old \in {drawn, View!NothingDrawn},
         View!DrawList(show, importactive, second, old)
  PROVE  ViewInv'
<1>1. View!NothingDrawn.queried = FALSE
      /\ DOMAIN View!NothingDrawn = {"on", "of", "sources", "queried", "user"}
  BY DEF View!NothingDrawn
<1>2. CASE View!Quiet(show, importactive)
  <2>1. drawn' = old /\ UNCHANGED <<list, poi_limit, poi_list_size>>
    BY <1>2 DEF View!DrawList
  <2>2. QED
    BY <1>1, <2>1 DEF ViewInv, View!DrawnBelongs
<1>3. CASE ~View!Quiet(show, importactive)
  <2>1. /\ \/ View!RebuildList(show, importactive)
           \/ list.of = view /\ UNCHANGED <<list, poi_limit, poi_list_size>>
        /\ drawn' = [on |-> view, of |-> list'.of, sources |-> list'.sources,
                     queried |-> View!Queried(show) # View!None, user |-> "user" \in pressed']
    BY <1>3 DEF View!DrawList, View!Moved
  <2>2. /\ list'.count \in Nat /\ list'.count <= ViewMax
        /\ poi_limit' \in Nat /\ poi_limit' >= Limit /\ poi_list_size' = Limit
        /\ View!Queried(show) # View!None => list'.of = view
    BY <1>3, <2>1, RebuildView DEF ViewInv
  <2>3. drawn'.on = view /\ drawn'.of = list'.of /\ (drawn'.queried <=> View!Queried(show) # View!None)
        /\ DOMAIN drawn' = {"on", "of", "sources", "queried", "user"}
    BY <2>1
  <2>4. QED
    BY <2>2, <2>3 DEF ViewInv, View!DrawnBelongs
<1>4. QED
  BY <1>2, <1>3

LEMMA ShownView ==
  ASSUME ViewInv, Show
  PROVE  ViewInv'
<1>1. CASE View!Timer(importactive)
  <2>1. View!RebuildList(showpoi, importactive) /\ UNCHANGED drawn
    BY <1>1 DEF View!Timer
  <2>2. QED
    BY <2>1, RebuildView DEF ViewInv, View!DrawnBelongs
<1>2. CASE View!Draw(importactive)
  BY <1>2, DrawView DEF View!Draw
<1>3. CASE \E s \in View!Sources : View!PoiButton(importactive, s)
  <2>1. View!DrawList(showpoi', importactive, TRUE, drawn)
    BY <1>3 DEF View!PoiButton
  <2>2. QED
    BY <2>1, DrawView
<1>4. CASE \E v \in Views : View!Move(v)
  BY <1>4 DEF View!Move, View!buffers, ViewInv, View!DrawnBelongs
<1>5. CASE \E n \in 0 .. MaxPoints : View!GetResults(n)
  <2>1. PICK n \in Nat : View!GetResults(n)
    BY <1>5, LimitsAssumption
  <2>2. poi_limit' \in Nat /\ poi_limit' >= poi_limit
    BY <2>1, NewLimitGrows DEF View!GetResults, ViewInv
  <2>3. QED
    BY <2>1, <2>2, LimitsAssumption DEF View!GetResults, ViewInv, View!DrawnBelongs
<1>6. CASE (\E c \in Categories : View!TogglePoitype(c)) \/ View!GetPoitypeTree
  BY <1>6 DEF View!TogglePoitype, View!GetPoitypeTree, View!buffers, ViewInv, View!DrawnBelongs
<1>7. QED
  BY <1>1, <1>2, <1>3, <1>4, <1>5, <1>6 DEF Show

LEMMA ViewInductive == ViewInv /\ [Next]_vars => ViewInv'
<1> SUFFICES ASSUME ViewInv, [Next]_vars PROVE ViewInv'
  OBVIOUS
<1>1. CASE Show
  BY <1>1, ShownView
<1>2. CASE UNCHANGED viewVars
  BY <1>2 DEF ViewInv, View!DrawnBelongs, viewVars
<1>3. QED
  BY <1>1, <1>2 DEF Next, Import, Writers, Lookup, Restart, ReadKismet, Elapse, Server, WayTxt, vars

LEMMA ViewStarts == Init => ViewInv
  BY LimitsAssumption DEF Init, View!ViewInit, ViewInv, View!DrawnBelongs, View!NothingDrawn

\* Points are drawn in the section they were queried for, however the map is moved and
\* the list rebuilt in between (poi.c).
THEOREM DrawnInSection == FairSpec => []DrawnBelongs
<1>1. ViewInv => DrawnBelongs
  BY DEF ViewInv, DrawnBelongs
<1>2. QED
  BY <1>1, ViewStarts, ViewInductive, PTL DEF FairSpec, Spec

-----------------------------------------------------------------------------
(* The waypoints in files.                                                 *)

\* What an entry of the list, or a line of a file, may be.
Entry == (Names \cup {Garbage}) \X {NoComment, Comment, Garbage}

\* The list is allocated in whole pieces of Room entries.
Sizes == {Room * q : q \in Nat \ {0}}

FilesInv ==
    /\ now \in Nat \ {0}
    /\ wp_file \in Files
    /\ DOMAIN files = Files
    /\ \A f \in Files : /\ files[f].lines \in Seq(Entry)
                        /\ Len(files[f].lines) <= MaxLines

\* There is no list before the first load; then its last entry is not in use.
ListInv ==
    /\ wayp \in Seq(Entry)
    /\ maxwp \in 0 .. MaxLines
    /\ wayp = <<>> => maxwp = 0 /\ waytxtstamp = 0
    /\ wayp # <<>> => /\ maxwp < Len(wayp)
                      /\ Len(wayp) \in Sizes
                      /\ Len(wayp) <= Way!Grown(MaxLines)

WayInv == FilesInv /\ ListInv

LEMMA WaySizes == Room \in Nat /\ Room > 0 /\ MaxLines \in Nat
  BY WayAssumption

\* What is allocated for n entries is a whole number of pieces, and leaves one free.
LEMMA GrownFits ==
  ASSUME NEW n \in Nat
  PROVE  /\ Way!Grown(n) \in Nat /\ n < Way!Grown(n) /\ Way!Grown(n) \in Sizes
         /\ Room <= Way!Grown(n)
<1> DEFINE q == n \div Room
<1>1. q \in Nat /\ n < Room * q + Room /\ Room * q >= 0
  BY WaySizes
<1>2. Room * (q + 1) = Room * q + Room /\ Room * (q + 1) \in Nat
  BY <1>1, WaySizes
<1>3. Way!Grown(n) = Room * (q + 1) /\ q + 1 \in Nat \ {0}
  BY <1>1 DEF Way!Grown
<1> HIDE DEF q
<1>4. QED
  BY <1>1, <1>2, <1>3, WaySizes DEF Sizes

\* Another piece still fits when the pieces there are hold no more than n.
LEMMA NextPiece ==
  ASSUME NEW n \in Nat, NEW size \in Sizes, size <= n
  PROVE  size + Room \in Sizes /\ size + Room <= Way!Grown(n)
<1>1. PICK p \in Nat \ {0} : size = Room * p
  BY DEF Sizes
<1> DEFINE q == n \div Room
<1>2. q \in Nat /\ p <= q
  <2>1. q \in Nat /\ n < Room * (q + 1)
    BY WaySizes
  <2>2. ~(p >= q + 1)
    <3>1. p >= q + 1 => Room * p >= Room * (q + 1)
      BY <2>1, WaySizes
    <3>2. QED
      BY <1>1, <2>1, <3>1, WaySizes
  <2>3. QED
    BY <2>1, <2>2
<1>3. size + Room = Room * (p + 1) /\ p + 1 \in Nat \ {0}
  BY <1>1, WaySizes
<1> HIDE DEF q
<1>4. Room * (p + 1) <= Room * (q + 1)
  BY <1>2, WaySizes
<1>5. Way!Grown(n) = Room * (q + 1)
  BY DEF Way!Grown, q
<1>6. QED
  BY <1>3, <1>4, <1>5 DEF Sizes

LEMMA GrownMonotonic ==
  ASSUME NEW n \in Nat, NEW m \in Nat, n <= m
  PROVE  Way!Grown(n) <= Way!Grown(m)
<1> DEFINE p == n \div Room
           q == m \div Room
<1>1. p \in Nat /\ q \in Nat /\ Room * p <= n /\ m < Room * (q + 1)
  BY WaySizes
<1>2. p <= q
  <2>1. p >= q + 1 => Room * p >= Room * (q + 1)
    BY <1>1, WaySizes
  <2> HIDE DEF p, q
  <2>2. QED
    BY <1>1, <2>1, WaySizes
<1> HIDE DEF p, q
<1>3. Room * (p + 1) <= Room * (q + 1)
  BY <1>1, <1>2, WaySizes
<1>4. QED
  BY <1>3 DEF Way!Grown, p, q

LEMMA FreshEntries ==
  ASSUME NEW n \in Nat, NEW new \in Way!Fresh(n)
  PROVE  new \in Seq(Entry) /\ Len(new) = n
<1>1. PICK c \in {NoComment, Garbage} : new \in [1 .. n -> {<<Garbage, c>>}]
  BY DEF Way!Fresh
<1>2. <<Garbage, c>> \in Entry
  BY DEF Entry
<1> HIDE DEF Entry
<1>3. new \in [1 .. n -> Entry]
  BY <1>1, <1>2
<1>4. QED
  BY <1>3

LEMMA PrefixEntries ==
  ASSUME NEW s \in Seq(Entry), NEW n \in Nat, n <= Len(s)
  PROVE  SubSeq(s, 1, n) \in Seq(Entry) /\ Len(SubSeq(s, 1, n)) = n
<1>1. \A i \in 1 .. n : s[i] \in Entry
  BY ElementOfSeq
<1>2. QED
  BY <1>1, SubSeqProperties

\* What a load makes of the memory: the lines of the file, and an entry more.
LEMMA LoadFromList ==
  ASSUME FilesInv, NEW f \in Files, NEW memory0 \in Seq(Entry), NEW new \in Seq(Entry),
         Len(memory0) \in Sizes, Len(memory0) <= Way!Grown(MaxLines),
         Len(new) = Way!Grown(MaxLines), Way!LoadFrom(f, memory0, new)
  PROVE  /\ wayp' \in Seq(Entry) /\ maxwp' \in 0 .. MaxLines /\ maxwp' < Len(wayp')
         /\ Len(wayp') \in Sizes /\ Len(wayp') <= Way!Grown(MaxLines)
         /\ maxwp' = Len(files[f].lines)
         /\ \A i \in 1 .. maxwp' : wayp'[i][1] = files[f].lines[i][1]
<1> DEFINE lines == files[f].lines
           n == Len(lines)
           more == Way!Grown(n) - Len(memory0)
           added == SubSeq(new, 1, more)
           old == memory0 \o added
           Line(i) == IF i > n THEN old[i]
                      ELSE IF lines[i][2] = NoComment THEN <<lines[i][1], old[i][2]>>
                      ELSE lines[i]
<1>1. lines \in Seq(Entry) /\ n \in Nat /\ n <= MaxLines /\ MaxLines \in Nat
  BY WaySizes DEF FilesInv
<1>2. maxwp' = n /\ wayp' = [i \in DOMAIN old |-> Line(i)]
  BY DEF Way!LoadFrom
<1> DEFINE size == Len(memory0) + Len(added)
<1>3. /\ Way!Grown(n) \in Nat /\ n < Way!Grown(n) /\ Way!Grown(n) \in Sizes
      /\ Way!Grown(n) <= Way!Grown(MaxLines) /\ Way!Grown(MaxLines) \in Nat
  BY <1>1, GrownFits, GrownMonotonic
<1>4. /\ added \in Seq(Entry) /\ Len(added) \in Nat
      /\ size \in {Len(memory0), Way!Grown(n)} /\ Way!Grown(n) <= size
  <2>1. Len(memory0) \in Nat
    OBVIOUS
  <2>2. CASE more \in Nat
    <3>1. more <= Len(new)
      BY <1>3, <2>1, <2>2
    <3>2. added \in Seq(Entry) /\ Len(added) = more
      BY <2>2, <3>1, PrefixEntries
    <3>3. size = Way!Grown(n)
      BY <1>3, <2>1, <3>2
    <3> HIDE DEF added, size
    <3>4. QED
      BY <1>3, <2>2, <3>2, <3>3
  <2>3. CASE more \notin Nat
    <3>1. more \in Int /\ more < 0
      BY <1>3, <2>1, <2>3
    <3>2. added = <<>>
      BY <3>1, SubSeqEmpty
    <3>3. Len(added) = 0 /\ size = Len(memory0) /\ Way!Grown(n) < Len(memory0)
      BY <1>3, <2>1, <3>1, <3>2
    <3> HIDE DEF added, size, n
    <3>4. added \in Seq(Entry)
      BY <3>2
    <3>5. QED
      BY <1>3, <2>1, <3>3, <3>4
  <2>4. QED
    BY <2>2, <2>3
<1> HIDE DEF added
<1>5. old \in Seq(Entry) /\ DOMAIN old = 1 .. size /\ size \in Nat
  BY <1>4
<1> HIDE DEF old, n, lines
<1>6. \A i \in 1 .. size : Line(i) \in Entry /\ (i <= n => Line(i)[1] = lines[i][1])
  <2>1. TAKE i \in 1 .. size
  <2>2. old[i] \in Entry
    BY <1>5
  <2>3. CASE i > n
    BY <1>1, <2>2, <2>3
  <2>4. CASE i <= n
    <3>1. i \in 1 .. Len(lines) /\ ~(i > n)
      BY <1>1, <1>5, <2>4 DEF n
    <3>2. lines[i] \in Entry
      BY <1>1, <3>1, ElementOfSeq
    <3>3. \A a, b \in Entry : <<a[1], b[2]>> \in Entry /\ <<a[1], b[2]>>[1] = a[1]
      BY DEF Entry
    <3>4. QED
      BY <2>2, <3>1, <3>2, <3>3
  <2>5. QED
    BY <1>1, <1>5, <2>3, <2>4
<1>7. wayp' = [i \in 1 .. size |-> Line(i)]
  BY <1>2, <1>5
<1> HIDE DEF Line
<1>8. wayp' \in [1 .. size -> Entry]
  BY <1>6, <1>7
<1>9. wayp' \in Seq(Entry) /\ Len(wayp') = size
  BY <1>5, <1>8
<1>10. n < size /\ size \in Sizes /\ size <= Way!Grown(MaxLines)
  BY <1>1, <1>3, <1>4, <1>5
<1>11. \A i \in 1 .. n : wayp'[i][1] = lines[i][1]
  BY <1>1, <1>5, <1>6, <1>7, <1>10
<1>12. maxwp' = n /\ maxwp' \in 0 .. MaxLines
  BY <1>1, <1>2
<1>13. n = Len(files[f].lines) /\ lines = files[f].lines
  BY DEF n, lines
<1>14. QED
  BY <1>9, <1>10, <1>11, <1>12, <1>13

\* loadwaypoints, whether the file is read or not: if it is, the list is what it says.
LEMMA LoadList ==
  ASSUME WayInv, NEW f \in Files, Way!LoadWaypoints(f)
  PROVE  /\ ListInv'
         /\ \/ /\ maxwp' = Len(files[f].lines)
               /\ \A i \in 1 .. maxwp' : wayp'[i][1] = files[f].lines[i][1]
            \/ /\ waytxtstamp = 0 /\ files[f].mtime = 0
            \/ /\ waytxtstamp # 0 /\ files[f].mtime \in {0, waytxtstamp}
               /\ UNCHANGED <<wayp, maxwp>>
<1> DEFINE Memory(new) ==
              IF waytxtstamp = 0
              THEN SubSeq(new, 1, IF wayp = <<>> THEN Room ELSE Len(wayp))
              ELSE wayp
<1>1. PICK new \in Way!Fresh(Way!Grown(MaxLines)), stamp \in Way!Stamps(f) :
         /\ waytxtstamp' = stamp
         /\ IF stamp = waytxtstamp THEN wayp' = Memory(new) /\ maxwp' = maxwp
            ELSE Way!LoadFrom(f, Memory(new), new)
  BY DEF Way!LoadWaypoints
<1> DEFINE memory0 == Memory(new)
           size == IF wayp = <<>> THEN Room ELSE Len(wayp)
<1>2. /\ Way!Grown(MaxLines) \in Nat /\ Room <= Way!Grown(MaxLines)
      /\ Room \in Sizes
  <2>1. Room = Room * 1 /\ 1 \in Nat \ {0}
    BY WaySizes
  <2>2. Room \in Sizes
    BY <2>1 DEF Sizes
  <2>3. QED
    BY <2>2, WaySizes, GrownFits
<1>3. new \in Seq(Entry) /\ Len(new) = Way!Grown(MaxLines)
  BY <1>2, FreshEntries
<1>4. size \in Nat /\ size \in Sizes /\ size <= Way!Grown(MaxLines) /\ maxwp < size
  <2>1. CASE wayp = <<>>
    BY <1>2, <2>1, WaySizes DEF WayInv, ListInv
  <2>2. CASE wayp # <<>>
    BY <2>2 DEF WayInv, ListInv
  <2>3. QED
    BY <2>1, <2>2
<1>5. memory0 \in Seq(Entry) /\ Len(memory0) = size
  <2>1. CASE waytxtstamp = 0
    <3>1. memory0 = SubSeq(new, 1, size)
      BY <2>1
    <3> HIDE DEF memory0, size
    <3>2. QED
      BY <1>3, <1>4, <3>1, PrefixEntries
  <2>2. CASE waytxtstamp # 0
    BY <2>2 DEF WayInv, ListInv
  <2>3. QED
    BY <2>1, <2>2
<1>6. maxwp \in 0 .. MaxLines
  BY DEF WayInv, ListInv
<1>7. CASE stamp = waytxtstamp
  <2>1. wayp' = memory0 /\ maxwp' = maxwp
    BY <1>1, <1>7
  <2>2. waytxtstamp # 0 => memory0 = wayp
    OBVIOUS
  <2>3. IF waytxtstamp = 0 THEN files[f].mtime = 0 ELSE files[f].mtime \in {0, waytxtstamp}
    BY <1>1, <1>7 DEF Way!Stamps
  <2> HIDE DEF memory0
  <2>4. wayp' # <<>>
    BY <1>4, <1>5, <1>6, <2>1
  <2>5. ListInv'
    BY <1>4, <1>5, <1>6, <2>1, <2>4 DEF ListInv
  <2>6. QED
    BY <2>1, <2>2, <2>3, <2>5
<1>8. CASE stamp # waytxtstamp
  <2>1. Way!LoadFrom(f, memory0, new)
    BY <1>1, <1>8
  <2> HIDE DEF memory0, size
  <2>2. /\ wayp' \in Seq(Entry) /\ maxwp' \in 0 .. MaxLines /\ maxwp' < Len(wayp')
        /\ Len(wayp') \in Sizes /\ Len(wayp') <= Way!Grown(MaxLines)
        /\ maxwp' = Len(files[f].lines)
        /\ \A i \in 1 .. maxwp' : wayp'[i][1] = files[f].lines[i][1]
    BY <1>3, <1>4, <1>5, <2>1, LoadFromList DEF WayInv
  <2>3. wayp' # <<>>
    BY <2>2
  <2>4. QED
    BY <2>2, <2>3 DEF ListInv
<1>9. QED
  BY <1>7, <1>8

\* addwaypoint keeps the entries there are, and one free behind the new one.
LEMMA AddList ==
  ASSUME WayInv, NEW w \in Names, NEW comment \in {NoComment, Comment},
         Way!AddToFile(w, comment)
  PROVE  /\ ListInv'
         /\ maxwp' = maxwp + 1 /\ wayp # <<>> /\ wayp' # <<>>
         /\ \A i \in 1 .. maxwp : wayp'[i] = wayp[i]
         /\ wayp'[maxwp'] = <<w, comment>>
<1> DEFINE m == maxwp + 1
           e == <<w, comment>>
           changed == [wayp EXCEPT ![m] = e]
<1>1. PICK new \in Way!Fresh(Room) :
         wayp' = changed \o (IF m >= Len(wayp) THEN new ELSE <<>>)
  BY DEF Way!AddToFile
<1>2. /\ wayp # <<>> /\ maxwp < MaxLines /\ maxwp' = m /\ waytxtstamp' = waytxtstamp
  BY DEF Way!AddToFile
<1>3. /\ wayp \in Seq(Entry) /\ Len(wayp) \in Nat /\ maxwp \in Nat /\ maxwp < Len(wayp)
      /\ Len(wayp) \in Sizes /\ Len(wayp) <= Way!Grown(MaxLines) /\ m \in 1 .. Len(wayp)
  BY <1>2, WaySizes DEF WayInv, ListInv
<1>4. e \in Entry
  BY DEF Entry
<1> HIDE DEF e
<1>5. /\ changed \in Seq(Entry) /\ Len(changed) = Len(wayp)
      /\ \A i \in 1 .. Len(wayp) : changed[i] = IF i = m THEN e ELSE wayp[i]
  BY <1>3, <1>4
<1> HIDE DEF changed
<1>6. new \in Seq(Entry) /\ Len(new) = Room /\ Room \in Nat /\ Room > 0
  BY WaySizes, FreshEntries
<1>7. \A i \in 1 .. Len(wayp) : wayp'[i] = changed[i]
  <2>1. CASE m >= Len(wayp)
    BY <1>1, <1>3, <1>5, <1>6, <2>1, ConcatProperties
  <2>2. CASE ~(m >= Len(wayp))
    BY <1>1, <1>3, <1>5, <2>2
  <2>3. QED
    BY <2>1, <2>2
<1>8. /\ wayp' \in Seq(Entry) /\ m < Len(wayp') /\ Len(wayp') \in Sizes
      /\ Len(wayp') <= Way!Grown(MaxLines)
  <2>1. CASE m >= Len(wayp)
    <3>1. wayp' \in Seq(Entry) /\ Len(wayp') = Len(wayp) + Room
      <4>1. wayp' = changed \o new
        BY <1>1, <2>1
      <4>2. changed \in Seq(Entry) /\ new \in Seq(Entry)
        BY <1>5, <1>6
      <4>3. /\ changed \o new \in Seq(Entry)
            /\ Len(changed \o new) = Len(changed) + Len(new)
        BY <4>2, ConcatProperties
      <4>4. QED
        BY <1>5, <1>6, <4>1, <4>3
    <3>2. Len(wayp) <= MaxLines
      BY <1>2, <1>3, <2>1, WaySizes
    <3>3. Len(wayp) + Room \in Sizes /\ Len(wayp) + Room <= Way!Grown(MaxLines)
      BY <1>3, <3>2, NextPiece, WaySizes
    <3>4. QED
      BY <1>3, <1>6, <3>1, <3>3
  <2>2. CASE ~(m >= Len(wayp))
    <3>1. wayp' \in Seq(Entry) /\ Len(wayp') = Len(wayp)
      BY <1>1, <1>3, <1>5, <2>2
    <3>2. QED
      BY <1>3, <2>2, <3>1
  <2>3. QED
    BY <2>1, <2>2
<1>9. wayp' # <<>>
  BY <1>3, <1>8
<1>10. m \in 0 .. MaxLines
  BY <1>2, <1>3, WaySizes
<1>11. ListInv'
  BY <1>2, <1>8, <1>9, <1>10 DEF ListInv
<1>12. \A i \in 1 .. maxwp : i \in 1 .. Len(wayp) /\ i # m
  BY <1>3
<1>13. QED
  BY <1>2, <1>3, <1>5, <1>7, <1>9, <1>11, <1>12 DEF e

\* The waypoint is in the file as well when that could be written.
LEMMA AddFiles ==
  ASSUME WayInv, NEW w \in Names, NEW comment \in {NoComment, Comment},
         Way!AddToFile(w, comment), UNCHANGED <<now, wp_file>>
  PROVE  FilesInv'
<1>1. CASE UNCHANGED files
  BY <1>1 DEF WayInv, FilesInv
<1>2. CASE Way!Save(SubSeq(wayp', 1, maxwp'))
  <2> DEFINE saved == SubSeq(wayp', 1, maxwp')
  <2>1. wayp' \in Seq(Entry) /\ maxwp' \in 0 .. MaxLines /\ maxwp' < Len(wayp')
    BY AddList DEF ListInv
  <2>2. maxwp' \in Nat /\ maxwp' <= Len(wayp') /\ maxwp' <= MaxLines
    BY <2>1, WaySizes
  <2>3. saved \in Seq(Entry) /\ Len(saved) <= MaxLines
    BY <2>1, <2>2, PrefixEntries
  <2>4. files' = [files EXCEPT ![wp_file] = [lines |-> saved, mtime |-> now]]
    BY <1>2 DEF Way!Save
  <2> HIDE DEF saved
  <2>5. QED
    BY <2>3, <2>4 DEF WayInv, FilesInv
<1>3. QED
  BY <1>1, <1>2 DEF Way!AddToFile

LEMMA AddedWay ==
  ASSUME WayInv, NEW w \in Names, NEW comment \in {NoComment, Comment}, NEW in_db,
         Way!Added(w, comment, in_db)
  PROVE  WayInv'
<1>1. UNCHANGED <<now, wp_file>>
  BY DEF Way!Added
<1>2. CASE Way!AddToFile(w, comment)
  BY <1>1, <1>2, AddList, AddFiles DEF WayInv
<1>3. CASE UNCHANGED <<files, owned, waytxtstamp, wayp, maxwp>>
  BY <1>1, <1>3 DEF WayInv, FilesInv, ListInv
<1>4. QED
  BY <1>2, <1>3 DEF Way!Added, Way!memory

\* Another program takes a line out of a file, or adds one.
LEMMA EditedFiles ==
  ASSUME FilesInv, NEW f \in Files, Way!OthersEdit(f)
  PROVE  FilesInv'
<1>1. /\ files[f].lines \in Seq(Entry) /\ Len(files[f].lines) \in Nat
      /\ Len(files[f].lines) <= MaxLines /\ MaxLines \in Nat
  BY WaySizes DEF FilesInv
<1>2. ASSUME NEW lines \in Seq(Entry), Len(lines) <= MaxLines, Way!OthersWrite(f, lines)
      PROVE  FilesInv'
  BY <1>2 DEF Way!OthersWrite, FilesInv
<1>3. CASE files[f].lines # <<>> /\ Way!OthersWrite(f, Tail(files[f].lines))
  <2>1. /\ Tail(files[f].lines) \in Seq(Entry)
        /\ Len(Tail(files[f].lines)) = Len(files[f].lines) - 1
    BY <1>1, <1>3, HeadTailProperties
  <2>2. Len(Tail(files[f].lines)) <= MaxLines
    BY <1>1, <2>1
  <2>3. QED
    BY <1>2, <1>3, <2>1, <2>2
<1>4. ASSUME NEW w \in Names, Len(files[f].lines) < MaxLines,
             Way!OthersWrite(f, Append(files[f].lines, <<w, NoComment>>))
      PROVE  FilesInv'
  <2> DEFINE e == <<w, NoComment>>
  <2>1. e \in Entry
    BY DEF Entry
  <2> HIDE DEF e
  <2>2. /\ Append(files[f].lines, e) \in Seq(Entry)
        /\ Len(Append(files[f].lines, e)) = Len(files[f].lines) + 1
    BY <1>1, <2>1, AppendProperties
  <2>3. Len(Append(files[f].lines, e)) <= MaxLines
    BY <1>1, <1>4, <2>2
  <2>4. Way!OthersWrite(f, Append(files[f].lines, e))
    BY <1>4 DEF e
  <2>5. QED
    BY <1>2, <2>2, <2>3, <2>4
<1>5. QED
  BY <1>3, <1>4 DEF Way!OthersEdit

LEMMA WayInductive == WayInv /\ [Next]_vars => WayInv'
<1> SUFFICES ASSUME WayInv, [Next]_vars PROVE WayInv'
  OBVIOUS
<1>1. CASE Way!CheckAndReload
  <2>1. Way!LoadWaypoints(wp_file) /\ wp_file \in Files /\ UNCHANGED <<now, files, wp_file>>
    BY <1>1 DEF Way!CheckAndReload, WayInv, FilesInv
  <2>2. QED
    BY <2>1, LoadList DEF WayInv, FilesInv
<1>2. ASSUME NEW f \in Files, Way!SetWpFile(f) PROVE WayInv'
  <2>1. Way!LoadWaypoints(f) /\ wp_file' = f /\ UNCHANGED <<now, files>>
    BY <1>2 DEF Way!SetWpFile
  <2>2. QED
    BY <2>1, LoadList DEF WayInv, FilesInv
<1>3. CASE Way!RestartWay
  BY <1>3, WaySizes DEF Way!RestartWay, Way!Started, WayInv, FilesInv, ListInv
<1>4. ASSUME NEW f \in Files, Way!OthersEdit(f) PROVE WayInv'
  <2>1. UNCHANGED <<waytxtstamp, wayp, maxwp>>
    BY <1>4 DEF Way!OthersEdit, Way!OthersWrite, Way!memory
  <2>2. QED
    BY <1>4, <2>1, EditedFiles DEF WayInv, ListInv
<1>5. ASSUME NEW w \in Names, Way!QuickAdd(w) PROVE WayInv'
  <2>1. Way!Added(w, Comment, use_database)
    BY <1>5 DEF Way!QuickAdd
  <2>2. QED
    BY <2>1, AddedWay
<1>6. ASSUME NEW w \in Names, NEW c \in {NoComment, Comment}, Way!ConfirmAdd(w, c) PROVE WayInv'
  <2>1. Way!Added(w, c, save_in_db)
    BY <1>6 DEF Way!ConfirmAdd
  <2>2. QED
    BY <2>1, AddedWay
<1>7. CASE Way!Second
  BY <1>7 DEF Way!Second, Way!memory, WayInv, FilesInv, ListInv
<1>8. CASE UNCHANGED <<now, files, wp_file, waytxtstamp, wayp, maxwp>>
  BY <1>8 DEF WayInv, FilesInv, ListInv
<1>9. CASE Way!OpenAdd \/ Way!SaveIn \/ Way!CancelAdd
  BY <1>8, <1>9 DEF Way!OpenAdd, Way!SaveIn, Way!CancelAdd, Way!memory
<1>10. CASE UNCHANGED wayVars
  BY <1>8, <1>10 DEF wayVars
<1>11. CASE WayTxt
  BY <1>1, <1>2, <1>3, <1>4, <1>5, <1>6, <1>7, <1>9, <1>11 DEF WayTxt
<1>12. QED
  BY <1>10, <1>11 DEF Next, Import, Writers, Lookup, Restart, Show, ReadKismet, Elapse, Server, vars

LEMMA WayStarts == Init => WayInv
<1> SUFFICES ASSUME Init PROVE WayInv
  OBVIOUS
<1>1. /\ now = 1 /\ wp_file \in Files /\ waytxtstamp = 0 /\ wayp = <<>> /\ maxwp = 0
      /\ files \in [Files -> {[lines |-> <<>>, mtime |-> 0], [lines |-> <<>>, mtime |-> 1]}]
  BY DEF Init, Way!WayInit
<1>2. \A f \in Files : files[f].lines = <<>>
  BY <1>1
<1>3. <<>> \in Seq(Entry) /\ Len(<<>>) = 0 /\ Len(<<>>) <= MaxLines
  BY WaySizes
<1>4. FilesInv
  <2>1. DOMAIN files = Files
    BY <1>1
  <2>2. \A f \in Files : files[f].lines \in Seq(Entry) /\ Len(files[f].lines) <= MaxLines
    BY <1>2, <1>3, Zenon
  <2>3. QED
    BY <1>1, <2>1, <2>2 DEF FilesInv
<1>5. QED
  BY <1>1, <1>3, <1>4, WaySizes DEF WayInv, ListInv

\* The list of points fits its buffer although searches raise the limit that it shares with
\* theirs (poi.c), and the list of waypoints has an entry for the next one although it is
\* enlarged by the load, of a file of any length, and by what the user adds
\* (waypoint.c:323, 760).
THEOREM ListsFit == FairSpec => []ListFits
<1>1. ViewInv => View!ListFits
  BY LimitsAssumption DEF ViewInv, View!ListFits
<1>2. WayInv => Way!RoomForNext
  BY DEF WayInv, ListInv, Way!RoomForNext
<1>3. ViewInv /\ WayInv => ListFits
  BY <1>1, <1>2 DEF ListFits
<1>4. QED
  BY <1>3, ViewStarts, ViewInductive, WayStarts, WayInductive, PTL DEF FairSpec, Spec

-----------------------------------------------------------------------------
(* What the user added.                                                    *)

\* What is in the file is in memory too, so that writing the list over the file takes
\* nothing from it; a file without a time stamp has nothing of the user.
OwnInv ==
    /\ Way!OwnKept
    /\ DOMAIN owned = Files
    /\ \A f \in Files : files[f].mtime = 0 => owned[f] = {}
    /\ wayp # <<>> => \A w \in owned[wp_file] : \E i \in 1 .. maxwp : wayp[i][1] = w

LEMMA SameOwn ==
  ASSUME OwnInv, UNCHANGED <<files, wp_file, owned, wayp, maxwp>>
  PROVE  OwnInv'
  BY DEF OwnInv, Way!OwnKept, Way!NamesIn

\* A file that was read is in memory.
LEMMA LoadedOwn ==
  ASSUME FilesInv, OwnInv, NEW f \in Files, wp_file' = f, UNCHANGED <<files, owned>>,
         maxwp' = Len(files[f].lines),
         \A i \in 1 .. maxwp' : wayp'[i][1] = files[f].lines[i][1]
  PROVE  OwnInv'
<1>1. DOMAIN files[f].lines = 1 .. maxwp'
  BY DEF FilesInv
<1>2. ASSUME NEW w \in owned[f] PROVE \E i \in 1 .. maxwp' : wayp'[i][1] = w
  <2>1. w \in Way!NamesIn(files[f].lines)
    BY DEF OwnInv, Way!OwnKept
  <2>2. PICK i \in DOMAIN files[f].lines : files[f].lines[i][1] = w
    BY <2>1 DEF Way!NamesIn
  <2>3. QED
    BY <1>1, <2>2
<1>3. QED
  BY <1>2 DEF OwnInv, Way!OwnKept, Way!NamesIn

LEMMA AddedOwn ==
  ASSUME WayInv, OwnInv, NEW w \in Names, NEW comment \in {NoComment, Comment}, NEW in_db,
         Way!Added(w, comment, in_db)
  PROVE  OwnInv'
<1>1. UNCHANGED <<now, wp_file>>
  BY DEF Way!Added
<1>2. CASE UNCHANGED <<files, owned, waytxtstamp, wayp, maxwp>>
  BY <1>1, <1>2, SameOwn
<1>3. CASE Way!AddToFile(w, comment)
  <2>1. /\ wayp' \in Seq(Entry) /\ maxwp' \in Nat /\ maxwp' < Len(wayp')
        /\ maxwp' = maxwp + 1 /\ maxwp \in Nat /\ wayp # <<>>
        /\ \A i \in 1 .. maxwp : wayp'[i] = wayp[i]
        /\ wayp'[maxwp'] = <<w, comment>>
    <3>1. maxwp \in Nat /\ MaxLines \in Nat
      BY WaySizes DEF WayInv, ListInv
    <3>2. ListInv' /\ wayp' # <<>>
      BY <1>3, AddList
    <3>3. QED
      BY <1>3, <3>1, <3>2, AddList DEF ListInv
  <2>2. \A v \in owned[wp_file] \cup {w} : \E i \in 1 .. maxwp' : wayp'[i][1] = v
    <3>1. TAKE v \in owned[wp_file] \cup {w}
    <3>2. CASE v \in owned[wp_file]
      <4>1. PICK i \in 1 .. maxwp : wayp[i][1] = v
        BY <2>1, <3>2 DEF OwnInv
      <4>2. i \in 1 .. maxwp' /\ wayp'[i] = wayp[i]
        BY <2>1
      <4>3. QED
        BY <4>1, <4>2
    <3>3. CASE v = w
      <4>1. maxwp' \in 1 .. maxwp' /\ wayp'[maxwp'][1] = w
        BY <2>1
      <4>2. QED
        BY <3>3, <4>1
    <3>4. QED
      BY <3>2, <3>3
  <2>3. CASE UNCHANGED <<files, owned>>
    BY <1>1, <2>2, <2>3 DEF OwnInv, Way!OwnKept, Way!NamesIn
  <2>4. CASE /\ Way!Save(SubSeq(wayp', 1, maxwp'))
             /\ owned' = [owned EXCEPT ![wp_file] = @ \cup {w}]
    <3> DEFINE saved == SubSeq(wayp', 1, maxwp')
    <3>1. saved \in Seq(Entry) /\ Len(saved) = maxwp'
      BY <2>1, PrefixEntries
    <3>2. DOMAIN saved = 1 .. maxwp' /\ \A i \in 1 .. maxwp' : saved[i] = wayp'[i]
      <4>1. \A i \in 1 .. maxwp' : wayp'[i] \in Entry
        BY <2>1, ElementOfSeq
      <4>2. \A i \in 1 .. maxwp' : saved[i] = wayp'[i]
        BY <2>1, <4>1, SubSeqProperties
      <4> HIDE DEF saved
      <4>3. QED
        BY <3>1, <4>2
    <3>3. files' = [files EXCEPT ![wp_file] = [lines |-> saved, mtime |-> now]]
      BY <2>4 DEF Way!Save
    <3> HIDE DEF saved
    <3>4. /\ files'[wp_file].lines = saved /\ files'[wp_file].mtime = now
          /\ \A f \in Files : f # wp_file => files'[f] = files[f]
      BY <3>3 DEF WayInv, FilesInv
    <3>5. /\ owned'[wp_file] = owned[wp_file] \cup {w} /\ DOMAIN owned' = Files
          /\ \A f \in Files : f # wp_file => owned'[f] = owned[f]
      BY <2>4 DEF WayInv, FilesInv, OwnInv
    <3>6. owned'[wp_file] \subseteq Way!NamesIn(saved)
      BY <2>2, <3>2, <3>5 DEF Way!NamesIn
    <3>7. \A f \in Files : owned'[f] \subseteq Way!NamesIn(files'[f].lines)
      <4>1. TAKE f \in Files
      <4>2. CASE f = wp_file
        BY <3>4, <3>6, <4>2
      <4>3. CASE f # wp_file
        BY <3>4, <3>5, <4>3 DEF OwnInv, Way!OwnKept
      <4>4. QED
        BY <4>2, <4>3
    <3>8. Way!OwnKept'
      BY <3>7 DEF Way!OwnKept, Way!NamesIn
    <3>9. now # 0
      BY DEF WayInv, FilesInv
    <3>10. \A f \in Files : files'[f].mtime = 0 => owned'[f] = {}
      BY <3>4, <3>5, <3>9 DEF OwnInv
    <3>11. QED
      BY <1>1, <2>2, <3>5, <3>8, <3>10 DEF OwnInv
  <2>5. QED
    BY <1>3, <2>3, <2>4 DEF Way!AddToFile
<1>4. QED
  BY <1>2, <1>3 DEF Way!Added, Way!memory

LEMMA OthersOwn ==
  ASSUME WayInv, OwnInv, NEW f \in Files, NEW lines, Way!OthersWrite(f, lines)
  PROVE  OwnInv'
<1>1. /\ owned' = [owned EXCEPT ![f] = {}] /\ files' = [files EXCEPT ![f] = [lines |-> lines, mtime |-> now]]
      /\ UNCHANGED <<wp_file, wayp, maxwp>>
  BY DEF Way!OthersWrite, Way!memory
<1>2. /\ owned'[f] = {} /\ DOMAIN owned' = Files
      /\ \A g \in Files : g # f => owned'[g] = owned[g] /\ files'[g] = files[g]
  BY <1>1 DEF WayInv, FilesInv, OwnInv
<1>3. \A g \in Files : owned'[g] \subseteq owned[g]
  BY <1>2
<1>4. wp_file \in Files
  BY DEF WayInv, FilesInv
<1>5. Way!OwnKept'
  BY <1>2 DEF OwnInv, Way!OwnKept, Way!NamesIn
<1>6. QED
  BY <1>1, <1>2, <1>3, <1>4, <1>5 DEF OwnInv

LEMMA OwnInductive ==
  ASSUME ~SameSecond
  PROVE  WayInv /\ OwnInv /\ [Next]_vars => OwnInv'
<1> SUFFICES ASSUME WayInv, OwnInv, [Next]_vars PROVE OwnInv'
  OBVIOUS
<1>1. CASE Way!CheckAndReload
  <2>1. /\ Way!LoadWaypoints(wp_file) /\ wp_file \in Files
        /\ wp_file' = wp_file /\ UNCHANGED <<files, owned>>
    BY <1>1 DEF Way!CheckAndReload, WayInv, FilesInv
  <2>2. CASE /\ maxwp' = Len(files[wp_file].lines)
             /\ \A i \in 1 .. maxwp' : wayp'[i][1] = files[wp_file].lines[i][1]
    BY <2>1, <2>2, LoadedOwn DEF WayInv
  <2>3. CASE files[wp_file].mtime = 0
    BY <2>1, <2>3 DEF OwnInv, Way!OwnKept, Way!NamesIn
  <2>4. CASE UNCHANGED <<wayp, maxwp>>
    BY <2>1, <2>4, SameOwn
  <2>5. QED
    BY <2>1, <2>2, <2>3, <2>4, LoadList
<1>2. ASSUME NEW f \in Files, Way!SetWpFile(f) PROVE OwnInv'
  <2>1. /\ Way!LoadWaypoints(f) /\ wp_file' = f /\ UNCHANGED <<files, owned>>
        /\ files[f].mtime \notin {0, waytxtstamp}
    BY <1>2 DEF Way!SetWpFile
  <2>2. /\ maxwp' = Len(files[f].lines)
        /\ \A i \in 1 .. maxwp' : wayp'[i][1] = files[f].lines[i][1]
    BY <2>1, LoadList
  <2>3. QED
    BY <2>1, <2>2, LoadedOwn DEF WayInv
<1>3. CASE Way!RestartWay
  BY <1>3 DEF Way!RestartWay, Way!Started, OwnInv, Way!OwnKept, Way!NamesIn
<1>4. ASSUME NEW f \in Files, Way!OthersEdit(f) PROVE OwnInv'
  BY <1>4, OthersOwn DEF Way!OthersEdit
<1>5. ASSUME NEW w \in Names, Way!QuickAdd(w) PROVE OwnInv'
  <2>1. Way!Added(w, Comment, use_database)
    BY <1>5 DEF Way!QuickAdd
  <2>2. QED
    BY <2>1, AddedOwn
<1>6. ASSUME NEW w \in Names, NEW c \in {NoComment, Comment}, Way!ConfirmAdd(w, c) PROVE OwnInv'
  <2>1. Way!Added(w, c, save_in_db)
    BY <1>6 DEF Way!ConfirmAdd
  <2>2. QED
    BY <2>1, AddedOwn
<1>7. CASE Way!Second \/ Way!OpenAdd \/ Way!SaveIn \/ Way!CancelAdd
  BY <1>7, SameOwn DEF Way!Second, Way!OpenAdd, Way!SaveIn, Way!CancelAdd, Way!memory
<1>8. CASE UNCHANGED wayVars
  BY <1>8, SameOwn DEF wayVars
<1>9. CASE WayTxt
  BY <1>1, <1>2, <1>3, <1>4, <1>5, <1>6, <1>7, <1>9 DEF WayTxt
<1>10. QED
  BY <1>8, <1>9 DEF Next, Import, Writers, Lookup, Restart, Show, ReadKismet, Elapse, Server, vars

\* What the user added to a file of waypoints stays in it while nobody else writes there,
\* although each addition writes the whole list over the file (waypoint.c:638, 708,
\* settings.c:1024); provided no other file is chosen that has the time stamp of the one
\* before, for then it is not read.
THEOREM OwnWaypointsStay ==
    ASSUME ~SameSecond
    PROVE  FairSpec => []OwnKept
<1>1. Init => OwnInv
  BY DEF Init, Way!WayInit, OwnInv, Way!OwnKept, Way!NamesIn
<1>2. WayInv /\ OwnInv => OwnKept
  BY DEF OwnInv, OwnKept
<1>3. WayInv /\ OwnInv /\ [Next]_vars => OwnInv'
  BY OwnInductive
<1>4. QED
  BY <1>1, <1>2, <1>3, WayStarts, WayInductive, PTL DEF FairSpec, Spec

================================================================================

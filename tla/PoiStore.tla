------------------------------- MODULE PoiStore -------------------------------
(***************************************************************************)
(* The user's data base of points (waypoints.db) and those who write it:   *)
(* the friends of a poll, the networks kismet sees, the user's waypoints,  *)
(* the points of a route, and the window that looks points up and deletes  *)
(* them.  A row is its id and what it is the row of; an entry of poi_extra *)
(* is kept only where it tells who a row belongs to (friends_id, macaddr), *)
(* by which the row is found again.  SQLite gives a new row the number     *)
(* after the highest one, which may be one that was deleted before.        *)
(***************************************************************************)
EXTENDS Integers, FiniteSets, Functions

CONSTANTS
    Friends,      \* the other users that polls report
    Networks,     \* the networks that kismet reports
    Waypoints,    \* what the user saves
    RoutePoints,  \* what a route adds
    Ids,          \* 1 .. n, the ids a row can have
    OsmIds,       \* the ids of the points in the data base of OpenStreetMap
    MaxResults    \* poi_results_max

VARIABLES
    poi,          \* the table poi: id -> what the row is of
    extra,        \* the table poi_extra: <<poi_id, entry>>
    failed,       \* a statement of the data base has failed
    results,      \* poi_result_tree, what the last search found
    selected,     \* the row selected in it
    button_delete,\* the delete button is sensitive
    unchecked,    \* a point of OpenStreetMap was selected while a map was imported
    routing,      \* route.edit or route.active
    routed        \* a route has been edited or driven

Identified == Friends \cup Networks
Osm == "osm"
Nothing == [id |-> 0, key |-> Osm]

\* What db_poi_edit returns for an insertion that failed, and the id of what follows.
Failed == -1

\* A point of the data base of OpenStreetMap is one of its ids.
Found == {[id |-> i, key |-> poi[i]] : i \in DOMAIN poi} \cup {[id |-> i, key |-> Osm] : i \in OsmIds}

StoreInit ==
    /\ poi = <<>> /\ extra = {} /\ failed = FALSE
    /\ results = {} /\ selected = Nothing /\ button_delete = FALSE /\ unchecked = FALSE
    /\ routing = FALSE /\ routed = FALSE

store == <<poi, extra, failed>>
window == <<results, selected, button_delete, unchecked>>
route == <<routing, routed>>

-----------------------------------------------------------------------------
(* The statements.                                                         *)

IsNext(id) ==
    /\ id \in Ids
    /\ \A i \in DOMAIN poi : i < id
    /\ id = 1 \/ id - 1 \in DOMAIN poi

\* Insert a row.
Insert(id, key) ==
    /\ IsNext(id)
    /\ poi' = [i \in DOMAIN poi \cup {id} |-> IF i = id THEN key ELSE poi[i]]

\* Update a row: without effect if there is none.
Update(id, key) == poi' = [i \in DOMAIN poi |-> IF i = id THEN key ELSE poi[i]]

\* The ids under which the other table knows somebody; a query takes one of them.
Known(key) == {e[1] : e \in {x \in extra : x[2] = key}}

\* Slip: the entries of the row stay.
DeleteRowOnly(id) ==
    /\ poi' = Restrict(poi, DOMAIN poi \ {id})
    /\ UNCHANGED extra

\* Delete a row of both tables.
DeleteRow(id) ==
    /\ poi' = Restrict(poi, DOMAIN poi \ {id})
    /\ extra' = {e \in extra : e[1] # id}

\* At the end of the program and of a route.
RowsWithout(keys) == Restrict(poi, {i \in DOMAIN poi : poi[i] \notin keys})
CleanupExtras == {e \in extra : e[1] \in DOMAIN poi => poi[e[1]] \notin Friends}

-----------------------------------------------------------------------------
(* Who writes.                                                             *)

\* A new friend or network: a row, and the entry by which it will be found.  The row
\* may fail, and then the entry is stored under the result of the failure; or the entry.
InsertNew(key) ==
    \/ \E id \in Ids :
          /\ Insert(id, key)
          /\ \/ extra' = extra \cup {<<id, key>>} /\ UNCHANGED failed
             \/ failed' = TRUE /\ UNCHANGED extra
    \/ /\ extra' = extra \cup {<<Failed, key>>}
       /\ failed' = TRUE
       /\ UNCHANGED poi

UpdateKnown(id, key) == Update(id, key) /\ UNCHANGED <<extra, failed>>

\* A friend in the answer to a poll.
UpdateFriendsData(f) ==
    /\ \/ Known(f) = {} /\ InsertNew(f)
       \/ \E id \in Known(f) : UpdateKnown(id, f)
    /\ UNCHANGED <<window, route>>

\* A network in a line of kismet, that has a position (fixed) and perhaps a best one.  A
\* known one is one whose id is above 0.
Sighted(n, fixed, best) ==
    \/ \E id \in Known(n) \ {Failed} :
          IF fixed /\ best THEN UpdateKnown(id, n) ELSE UNCHANGED store
    \/ /\ Known(n) = {} \/ Failed \in Known(n)
       /\ IF fixed THEN InsertNew(n) ELSE UNCHANGED store

AddWaypoint(w) ==
    /\ \E id \in Ids : Insert(id, w)
    /\ UNCHANGED <<extra, failed, window, route>>

-----------------------------------------------------------------------------
(* Routes, as far as they reach the table: see Routes.                     *)

\* The route window, or driving.
EditRoute ==
    /\ ~routing
    /\ routing' = TRUE /\ routed' = TRUE
    /\ UNCHANGED <<store, window>>

\* The window is closed, or the driving is over: the points stay.
LeaveRoute ==
    /\ routing /\ routing' = FALSE
    /\ UNCHANGED <<store, window, routed>>

AddRoutePoint(r) ==
    /\ \E id \in Ids : Insert(id, r)
    /\ routed' = TRUE
    /\ UNCHANGED <<extra, failed, window, routing>>

\* A route is cancelled, or another one loaded or calculated.
CleanupRoute ==
    /\ poi' = RowsWithout(RoutePoints)
    /\ routing' \in {routing, FALSE}
    /\ UNCHANGED <<extra, failed, window, routed>>

-----------------------------------------------------------------------------
(* The lookup window.                                                      *)

Limited(s) == Cardinality(s) <= MaxResults

\* The search lists what is there now, as far as its text, distance and limit go.
Search ==
    /\ results' \in {s \in SUBSET Found : Limited(s)}
    /\ selected' = Nothing /\ unchecked' = FALSE
    /\ UNCHANGED <<store, button_delete, route>>

\* Slip: the number of another source.
IsMapnik(r) == ~routing /\ r.key = "mapnik"

\* Selecting asks for the source of the point, to forbid the deletion of one of
\* OpenStreetMap, where it also sets the target: not while there is a route.
IsOsm(r) == ~routing /\ r.key = Osm

\* While a map is imported the selection is its reference point, and the button stays as
\* it was.
Select(importactive, r) ==
    /\ r \in results
    /\ selected' = r
    /\ unchecked' = (unchecked \/ (importactive /\ r.key = Osm))
    /\ button_delete' = IF importactive THEN button_delete ELSE ~IsOsm(r)
    /\ UNCHANGED <<store, results, route>>

\* An import hides the button, unless the window was there before.
Delete ==
    /\ selected # Nothing /\ button_delete
    /\ DeleteRow(selected.id)
    /\ results' = results \ {selected}
    /\ selected' = Nothing
    /\ button_delete' = FALSE
    /\ UNCHANGED <<failed, unchecked, route>>

-----------------------------------------------------------------------------
(* The end of the program: with the clean-ups, or by a crash, and the next *)
(* start.                                                                  *)

Reopened ==
    /\ results' = {} /\ selected' = Nothing
    /\ button_delete' = FALSE /\ unchecked' = FALSE
    /\ routing' = FALSE /\ routed' = FALSE

Close ==
    /\ poi' = RowsWithout(RoutePoints \cup Friends)
    /\ extra' = CleanupExtras
    /\ UNCHANGED failed
    /\ Reopened

\* The next start removes the points of a route, not the friends.
Crash ==
    /\ poi' = RowsWithout(RoutePoints)
    /\ UNCHANGED <<extra, failed>>
    /\ Reopened

-----------------------------------------------------------------------------
\* What is known of a friend or of a network is known of its own row, although ids are
\* used again: clean-ups and deletions leave nothing behind that a new row would inherit.
ExtrasBelong ==
    \A e \in extra : e[1] # Failed => e[1] \in DOMAIN poi /\ poi[e[1]] = e[2]

\* "duplicate macaddr in database" is an error (the message at gpskismet.c:160).
NoDuplicate ==
    \A i, j \in DOMAIN poi : poi[i] = poi[j] /\ poi[i] \in Networks => i = j

\* "Delete selected entry" (tooltip of the button): the row that disappears is the one
\* that was selected.
DeletesSelected == Delete => \A i \in DOMAIN poi \ DOMAIN poi' : poi[i] = selected.key

\* Which holds as long as there was no route, and no point of OpenStreetMap was selected,
\* among the same results, while a map was imported: such selections do not ask for the
\* source (poi_gui.c:371-389) or leave the button alone (347-359), and once the wrong row is
\* gone its number may come back.
DeletesChosen == routed \/ unchecked \/ DeletesSelected

=============================================================================

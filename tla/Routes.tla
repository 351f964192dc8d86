-------------------------------- MODULE Routes --------------------------------
(***************************************************************************)
(* The route of the main program when it runs with its database (routes.c, *)
(* poi_gui.c, and what gpx.c, navigation.c and main_gui.c do to it).       *)
(*                                                                         *)
(* The points of the route stand in a list, route_list_tree.  What is done *)
(* with them hangs on counters and flags beside the list, which the keys,  *)
(* the windows, the files and the timer each set for themselves: that they *)
(* still agree with the list is what can go wrong.                         *)
(***************************************************************************)
EXTENDS Integers, SequencesExt

CONSTANTS
    Places,            \* positions
    Files,             \* routes in GPX files: sequences of places
    Calculated,        \* routes the navigation module finds
    MaxItems,          \* bound: points added to one route
    MaxPointer         \* bound: the route is not followed beyond this point

\* What the user does besides the plain use: remove a point from the list; add the point
\* under the mouse with a key; press the button "stop" of a window when the route has
\* ended meanwhile; discard the route that is followed; read or find a route of no points.
AllUses == {"remove", "quickpoint", "stop late", "discard while routing", "no points"}

ASSUME RoutesAssumption ==
    /\ Places # {}
    /\ Files \subseteq Seq(Places) /\ Calculated \subseteq Seq(Places)
    /\ MaxItems \in Nat /\ MaxPointer \in Nat

VARIABLES
    rows,         \* the points in route_list_tree
    items,        \* route.items
    pointer,      \* route.pointer, which counts from 0
    active,       \* route.active: routing
    edit,         \* route.edit: points that are selected go into the route
    forcenext,    \* route.forcenext
    target,       \* coords.target_lat, coords.target_lon
    dest,         \* coords.dest_lat, coords.dest_lon
    window,       \* the route window is open
    offered,      \* what its button says: "start" or "stop"
    startable,    \* the button can be pressed
    stale,        \* the window shows the list that was there before this one
    lookup,       \* the window to look up a point is open
    savedtarget,  \* wp_saved_target_lat, wp_saved_target_lon
    uses          \* what this user may do besides the plain use, of AllUses

list    == <<rows, items, dest>>
routing == <<pointer, active, forcenext, target>>
button  == <<offered, startable, stale>>
search  == <<lookup, savedtarget>>
vars    == <<list, routing, edit, window, button, search, uses>>

-----------------------------------------------------------------------------
\* route_settarget (-1), when the list is ps and the pointer n: no position is
\* read when there is no such row.  (Then the name of the target is
\* uninitialised memory, and the program may end.)
TargetAt(ps, n) == IF n + 1 \in DOMAIN ps THEN ps[n + 1] ELSE target

\* Slip: the destination stays where it was.
AddKeepsDestination(p) ==
    /\ items < MaxItems /\ Len(rows) < MaxItems
    /\ rows' = Append(rows, p)
    /\ items' = items + 1
    /\ dest' = IF rows = <<>> THEN p ELSE dest

\* add_routepoint
Add(p) ==
    /\ items < MaxItems /\ Len(rows) < MaxItems
    /\ rows' = Append(rows, p)
    /\ items' = items + 1
    /\ dest' = p

\* Slip: the window goes, the mode to edit stays.
CloseWindowKeepsEdit ==
    /\ window' = FALSE
    /\ UNCHANGED <<edit, button>>

\* close_route_window_cb
CloseWindow ==
    /\ window' = FALSE
    /\ edit' = FALSE
    /\ UNCHANGED button

\* route_init and the points that are added then.  The list is a new one: a
\* window that is open goes on to show the old one.
NewRoute(ps) ==
    /\ rows' = ps
    /\ items' = Len(ps)
    /\ dest' = IF ps = <<>> THEN dest ELSE Last(ps)
    /\ pointer' = 0
    /\ forcenext' = FALSE

Init ==
    /\ rows = <<>> /\ items = 0 /\ dest \in Places
    /\ pointer = 0 /\ active = FALSE /\ forcenext = FALSE /\ target \in Places
    /\ edit = FALSE
    /\ window = FALSE /\ offered = "start" /\ startable = FALSE /\ stale = FALSE
    /\ lookup = FALSE /\ savedtarget = target
    /\ uses \in SUBSET AllUses

-----------------------------------------------------------------------------
\* route_window_cb; its buttons are insensitive while the window is open.
OpenWindow ==
    /\ ~window
    /\ window' = TRUE
    /\ edit' = TRUE
    /\ pointer' = IF items = 0 THEN 0 ELSE pointer
    /\ offered' = IF active THEN "stop" ELSE "start"
    /\ startable' = (items > 0)
    /\ stale' = FALSE
    /\ UNCHANGED <<list, active, forcenext, target, search>>

\* The button "close" of the route window.
CloseRouteWindow ==
    /\ window
    /\ CloseWindow
    /\ UNCHANGED <<list, routing, search>>

\* route_startstop_cb
StartStop ==
    /\ window /\ startable
    /\ offered = "stop" /\ ~active => "stop late" \in uses
    /\ active' = ~active
    /\ target' = IF active THEN target ELSE TargetAt(rows, pointer)
    /\ CloseWindow
    /\ UNCHANGED <<list, pointer, forcenext, search>>

\* route_cancel_cb
RouteCancel ==
    /\ window
    /\ active => "discard while routing" \in uses
    /\ rows' = <<>>
    /\ items' = 0
    /\ CloseWindow
    /\ UNCHANGED <<dest, routing, search>>

\* Slip: the route is not cancelled when its last point is removed.
RemoveRoutepointOnly(k) ==
    /\ "remove" \in uses /\ window /\ ~stale
    /\ rows' = RemoveAt(rows, k)
    /\ UNCHANGED <<items, dest, routing, edit, window, button, search>>

\* remove_routepoint_cb, with row k selected: when it was the last one the
\* route is cancelled.
RemoveRoutepoint(k) ==
    /\ "remove" \in uses /\ window /\ ~stale
    /\ rows' = RemoveAt(rows, k)
    /\ IF rows' = <<>> THEN items' = 0 /\ CloseWindow
       ELSE UNCHANGED <<items, edit, window, button>>
    /\ UNCHANGED <<dest, routing, search>>

\* show_poi_lookup_cb
OpenLookup ==
    /\ ~lookup
    /\ lookup' = TRUE
    /\ savedtarget' = target
    /\ UNCHANGED <<list, routing, edit, window, button>>

\* select_poi_cb: the point goes into the route or becomes the target.
SelectPoi(p) ==
    /\ lookup
    /\ IF edit
       THEN Add(p) /\ startable' = TRUE /\ UNCHANGED target
       ELSE /\ target' = IF active THEN target ELSE p
            /\ UNCHANGED <<list, startable>>
    /\ UNCHANGED <<pointer, active, forcenext, edit, window, offered, stale, search>>

\* select_target_poi_cb, select_jump_poi_cb: the target stays.
LeaveLookup ==
    /\ lookup
    /\ lookup' = FALSE
    /\ UNCHANGED <<list, routing, edit, window, button, savedtarget>>

\* Slip: the saved target comes back in any case.
CloseLookupRestores ==
    /\ lookup
    /\ lookup' = FALSE
    /\ target' = savedtarget
    /\ UNCHANGED <<list, pointer, active, forcenext, edit, window, button, savedtarget>>

\* close_poi_lookup_window_cb: the target is again what it was.
CloseLookup ==
    /\ lookup
    /\ lookup' = FALSE
    /\ target' = IF active THEN target ELSE savedtarget
    /\ UNCHANGED <<list, pointer, active, forcenext, edit, window, button, savedtarget>>

\* route_calc_cb: a route to the target is found and started.  (Its loop reads
\* what lies before the first point, and may end at once.)
RouteCalc(ps) ==
    /\ lookup
    /\ ps = <<>> => "no points" \in uses
    /\ Len(ps) <= MaxItems
    /\ lookup' = FALSE
    /\ NewRoute(ps)
    /\ active' = TRUE
    /\ target' = TargetAt(ps, 0)
    /\ CloseWindow
    /\ UNCHANGED savedtarget

\* gpx_file_read of a route.
GpxReadRoute(ps) ==
    /\ ps = <<>> => "no points" \in uses
    /\ Len(ps) <= MaxItems
    /\ NewRoute(ps)
    /\ active' = FALSE
    /\ edit' = FALSE
    /\ stale' = window
    /\ UNCHANGED <<target, window, offered, startable, search>>

\* Key R: add_quickpoint_to_route
QuickPoint(p) ==
    /\ "quickpoint" \in uses
    /\ Add(p)
    /\ UNCHANGED <<routing, edit, window, button, search>>

\* Key J
ForceNext ==
    /\ active
    /\ forcenext' = TRUE
    /\ UNCHANGED <<list, pointer, active, target, edit, window, button, search>>

\* update_route, called by the timer that draws the map: reached says whether
\* the vehicle is at the target.
UpdateRoute(reached) ==
    /\ active
    /\ reached \/ forcenext
    /\ forcenext' = FALSE
    /\ IF pointer # items - 1
       THEN /\ pointer < MaxPointer
            /\ pointer' = pointer + 1
            /\ target' = TargetAt(rows, pointer')
            /\ UNCHANGED <<items, active>>
       ELSE /\ active' = FALSE
            /\ pointer' = 0 /\ items' = 0
            /\ UNCHANGED target
    /\ UNCHANGED <<rows, dest, edit, window, button, search>>

Next ==
    /\ \/ OpenWindow \/ CloseRouteWindow \/ StartStop \/ RouteCancel
       \/ \E k \in DOMAIN rows : RemoveRoutepoint(k)
       \/ OpenLookup \/ LeaveLookup \/ CloseLookup
       \/ \E p \in Places : SelectPoi(p) \/ QuickPoint(p)
       \/ \E ps \in Calculated : RouteCalc(ps)
       \/ \E ps \in Files : GpxReadRoute(ps)
       \/ ForceNext
       \/ \E reached \in BOOLEAN : UpdateRoute(reached)
    /\ UNCHANGED uses

Spec == Init /\ [][Next]_vars

-----------------------------------------------------------------------------
(* Every variable has its type.                                            *)
TypeOK ==
    /\ rows \in Seq(Places) /\ items \in Nat /\ dest \in Places
    /\ pointer \in Nat /\ active \in BOOLEAN /\ forcenext \in BOOLEAN
    /\ target \in Places
    /\ edit \in BOOLEAN /\ window \in BOOLEAN
    /\ offered \in {"start", "stop"} /\ startable \in BOOLEAN
    /\ stale \in BOOLEAN
    /\ lookup \in BOOLEAN /\ savedtarget \in Places
    /\ uses \subseteq AllUses

(* Whenever route.items is not 0 the list has a row: the code that saves   *)
(* the route looks at route.items and then reads the first row without     *)
(* asking whether there is one (gpsdrive.c:685, 2707, gpx.c:823-833).      *)
SaveSafe == items > 0 => rows # <<>>

(* Selected points go into the route only while the route window is open:  *)
(* select_poi_cb then changes a button of that window (poi_gui.c:360-369). *)
EditInWindow == edit => window

(* In the plain use, while the route is followed, its pointer stands on a  *)
(* row and the target is that row's place: what is displayed               *)
(* (routes.c:885-897) and what the vehicle is compared with                *)
(* (routes.c:1066) are the same point.                                     *)
TargetIsPoint ==
    uses = {} /\ active
       => pointer + 1 \in DOMAIN rows /\ target = rows[pointer + 1]

(* While there is a route, the destination that the line on the map leads  *)
(* to and the dashboard shows (gui.c:512, main_gui.c:1232) is its end,     *)
(* unless points are removed.                                              *)
DestinationIsEnd == "remove" \notin uses /\ rows # <<>> => dest = Last(rows)

(* "Check to see if the next route point exists before getting from tree"  *)
(* (routes.c:826, 886): while the route is followed, the row that is read  *)
(* exists.                                                                 *)
RowExists == active => pointer + 1 \in DOMAIN rows

(* "Stop the Route Mode" (poi_gui.c:1401): the button that says so does    *)
(* not start it.                                                           *)
StopStops == [][~active /\ active' /\ ~lookup => offered = "start"]_vars

(* "Discard Route" (poi_gui.c:1443): a route that was discarded is not     *)
(* followed any more.                                                      *)
DiscardStops == items = 0 /\ rows = <<>> => ~active

(* "endpoint reached, stop routing" (routes.c:1079): when the route ends,  *)
(* the target that was reached is the last point of the route.             *)
EndIsLast == [][items > 0 /\ items' = 0 /\ active /\ ~active' => target = Last(rows)]_vars

(* "In Route mode Force next Route Point" (main_gui.c:1886): outside route *)
(* mode no skip is pending for the route that is started next.             *)
ForceOnlyWhileRouting == forcenext => active

=============================================================================

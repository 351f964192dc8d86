--------------------------------- MODULE Poi ---------------------------------
(***************************************************************************)
(* Points of interest: the data base of the user and those who write it,   *)
(* the list that is drawn on the map, the networks that come from a kismet *)
(* server whenever the map is drawn, and the waypoints in files.           *)
(*                                                                         *)
(* A behaviour follows one of the four, the data base also together with   *)
(* kismet; the rest stands still.                                          *)
(***************************************************************************)
EXTENDS Integers, FiniteSets

CONSTANTS Parts, Friends, Networks, Waypoints, RoutePoints, Ids, OsmIds, MaxResults,
          Views, NoView, HomeView, Categories, Limit, Grow, ViewMax, MaxPoints, NoLine,
          Files, Names, NoComment, Comment, Garbage, Room, MaxLines, MaxNow, SameSecond

\* Ids are positive, the limit of the query for the list is below that of the buffers, and
\* whoever writes writes rows of his own.
ASSUME IdsAssumption == Ids \subseteq Nat \ {0}
ASSUME LimitsAssumption ==
    Limit \in Nat /\ Grow \in Nat /\ MaxPoints \in Nat /\ ViewMax \in Nat /\ ViewMax < Limit
ASSUME WritersAssumption ==
    /\ Friends \cap Networks = {} /\ RoutePoints \cap (Friends \cup Networks) = {}
    /\ (Friends \cup Networks \cup RoutePoints) \cap Waypoints = {}
    /\ "osm" \notin Friends \cup Networks \cup Waypoints \cup RoutePoints
ASSUME WayAssumption == Room \in Nat \ {0} /\ MaxLines \in Nat /\ SameSecond \in BOOLEAN

VARIABLES
    part,         \* what is followed
    importactive, \* current.importactive: a map is being imported
    poi, extra, failed, results, selected, button_delete, unchecked, routing, routed,
    showpoi, poi_osm, pressed, maploaded, view, list, poi_limit, poi_list_size,
    poi_result_size, top, drawn, timer, isSelected, poi_filter,
    kismetsock, recent, partial, server,
    now, files, wp_file, waytxtstamp, wayp, maxwp, use_database, save_in_db, markwaypoint,
    owned

Store == INSTANCE PoiStore
View == INSTANCE PoiView
Kismet == INSTANCE Kismet
Way == INSTANCE Waypoints

tables == <<poi, extra, failed>>
lookup == <<results, selected, button_delete, unchecked, routing, routed>>
storeVars == <<tables, lookup>>
viewVars == <<showpoi, poi_osm, pressed, maploaded, view, list, poi_limit, poi_list_size,
              poi_result_size, top, drawn, timer, isSelected, poi_filter>>
kismetVars == <<kismetsock, recent, partial, server>>
wayVars == <<now, files, wp_file, waytxtstamp, wayp, maxwp, use_database, save_in_db,
             markwaypoint, owned>>
main == <<part, importactive>>
vars == <<main, storeVars, viewVars, kismetVars, wayVars>>

\* What is not followed starts in one way only.
Still ==
    /\ part # "view" => ~poi_osm /\ showpoi = {} /\ poi_filter = {} /\ view = HomeView
    /\ part # "kismet" => ~server
    /\ part \in {"kismet", "waypoints"} => poi_filter = {}
    /\ part \in {"store", "view"} => use_database
    /\ part # "waypoints" =>
           /\ wp_file = (CHOOSE f \in Files : TRUE)
           /\ \A f \in Files : files[f].mtime = 0

Init ==
    /\ part \in Parts
    /\ importactive = FALSE
    /\ Store!StoreInit /\ View!ViewInit
    /\ Way!WayInit /\ Kismet!KismetInit(use_database)
    /\ Still

Import ==
    /\ part \in {"store", "view"}
    /\ importactive' = ~importactive
    /\ UNCHANGED <<part, storeVars, viewVars, kismetVars, wayVars>>

-----------------------------------------------------------------------------
\* The data base: other clients, the user, and the end of the program.
Writers ==
    /\ part = "store"
    /\ \/ \E f \in Friends : Store!UpdateFriendsData(f)
       \/ \E n \in Networks, fixed, best \in BOOLEAN :
             Store!Sighted(n, fixed, best) /\ UNCHANGED lookup
       \/ \E w \in Waypoints : Store!AddWaypoint(w)
       \/ Store!EditRoute \/ Store!LeaveRoute \/ Store!CleanupRoute
       \/ \E r \in RoutePoints : Store!AddRoutePoint(r)
    /\ UNCHANGED <<main, viewVars, kismetVars, wayVars>>

Lookup ==
    /\ part = "store"
    /\ Store!Search \/ Store!Delete \/ \E r \in results : Store!Select(importactive, r)
    /\ UNCHANGED <<main, viewVars, kismetVars, wayVars>>

Restart ==
    /\ part = "store"
    /\ Store!Close \/ Store!Crash
    /\ importactive' = FALSE
    /\ UNCHANGED <<part, viewVars, kismetVars, wayVars>>

-----------------------------------------------------------------------------
\* The map, where the user moves it, chooses points and searches.
Show ==
    /\ part = "view"
    /\ \/ View!Timer(importactive) \/ View!Draw(importactive)
       \/ \E s \in View!Sources : View!PoiButton(importactive, s)
       \/ \E v \in Views : View!Move(v)
       \/ \E n \in 0 .. MaxPoints : View!GetResults(n)
       \/ \E c \in Categories : View!TogglePoitype(c)
       \/ View!GetPoitypeTree
    /\ UNCHANGED <<main, storeVars, kismetVars, wayVars>>

-----------------------------------------------------------------------------
\* A line that names a network with a position goes to the data base.
Received(line) ==
    IF line = NoLine THEN UNCHANGED tables ELSE Store!Sighted(line, TRUE, TRUE)

ReadKismet ==
    /\ part = "kismet"
    /\ \E line \in Networks \cup {NoLine}, end \in {"stays", "ends", "fails"}, torn \in BOOLEAN :
          /\ Kismet!ReadKismet(line, end, torn)
          /\ Received(Kismet!Understood(line))
    /\ UNCHANGED <<main, viewVars, lookup, wayVars>>

Elapse ==
    /\ part = "kismet"
    /\ Kismet!Elapse
    /\ UNCHANGED <<main, storeVars, viewVars, wayVars>>

Server ==
    /\ part = "kismet"
    /\ Kismet!ServerStops \/ Kismet!ServerStarts
    /\ UNCHANGED <<main, storeVars, viewVars, wayVars>>

-----------------------------------------------------------------------------
\* Waypoints in files.
WayTxt ==
    /\ part = "waypoints"
    /\ \/ Way!CheckAndReload \/ Way!RestartWay \/ Way!Second
       \/ \E f \in Files : Way!SetWpFile(f) \/ Way!OthersEdit(f)
       \/ Way!OpenAdd \/ Way!SaveIn \/ Way!CancelAdd
       \/ \E w \in Names : Way!QuickAdd(w)
       \/ \E w \in Names, c \in {NoComment, Comment} : Way!ConfirmAdd(w, c)
    /\ UNCHANGED <<main, storeVars, viewVars, kismetVars>>

-----------------------------------------------------------------------------
Next ==
    \/ Import \/ Writers \/ Lookup \/ Restart \/ Show
    \/ ReadKismet \/ Elapse \/ Server
    \/ WayTxt

Spec == Init /\ [][Next]_vars

\* The map is drawn again and again (not while a map is imported), and time passes.
FairSpec == Spec /\ WF_vars(ReadKismet) /\ WF_vars(Elapse)

-----------------------------------------------------------------------------
\* See PoiStore.
ExtrasBelong == Store!ExtrasBelong
NoDuplicate == Store!NoDuplicate
DeletesChosen == [][Store!DeletesChosen]_vars
DeletesSelected == [][Store!DeletesSelected]_vars

\* See PoiView.
DrawnBelongs == View!DrawnBelongs
UserOff == View!UserOff
ListFits == View!ListFits /\ Way!RoomForNext
ResultsFit == View!ResultsFit

\* See Kismet.
SocketOrNone == Kismet!SocketOrNone

\* See Waypoints.
OwnKept == Way!OwnKept
CommentBelongs == Way!CommentBelongs

\* "If Kismet server connection failed, Try to reconnect" (gpskismet.c:94): a lost
\* connection is opened again when the server is there for long enough.
Reconnected == part = "kismet" /\ server /\ kismetsock \in {"none", "lost"} ~> kismetsock = "open" \/ ~server

\* That holds unless select fails meanwhile, once: its result then counts as a socket, which
\* is never below 0 as long as the standard input is there (gpskismet.c:120-125).
Reconnects ==
    part = "kismet" /\ server /\ kismetsock \in {"none", "lost"}
        ~> kismetsock \in {"open", "stdin"} \/ ~server

=============================================================================

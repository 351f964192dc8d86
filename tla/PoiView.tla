------------------------------- MODULE PoiView -------------------------------
(***************************************************************************)
(* The points on the map (poi.c): the list of those in the displayed       *)
(* section of the map, which is rebuilt when the section has changed, when *)
(* a button chooses other points, and by a timer; drawing it; and the      *)
(* buffers that this list and the results of a search are kept in, which   *)
(* share the counter and the limit.  Also the filter by category, which is *)
(* kept twice: in the tree of categories and as text in the configuration. *)
(***************************************************************************)
EXTENDS Integers, FiniteSets

CONSTANTS
    Views,        \* what calcxytopos gives for the corners of the window
    NoView,       \* all corners 0: no section remembered
    Categories,   \* the base categories of points
    Limit,        \* poi_limit of poi_init (40000)
    Grow,         \* what it is enlarged by (10000)
    ViewMax,      \* the limit of the query for the list (20000)
    MaxPoints     \* what a search may find at most (poi_results_max, up to 99999)

VARIABLES
    showpoi,      \* local_config.showpoi
    poi_osm,      \* there is a data base of OpenStreetMap
    pressed,      \* the two buttons, as they are shown
    maploaded,
    view,         \* the displayed section
    list,         \* poi_list: the section and sources it was queried for, and its length
    poi_limit, poi_list_size, poi_result_size, top,
    drawn,        \* what the map shows since it was last drawn
    timer,        \* the timer that rebuilds the list lives
    isSelected,   \* the categories that are selected in the tree
    poi_filter    \* the categories that the configuration leaves out

None == {}
Sources == {"user", "osm"}

\* The sources that are queried when those of show are chosen: with the data base of
\* OpenStreetMap these, without it the user's, also for both; OpenStreetMap alone is then
\* no query at all.
Queried(show) == IF poi_osm THEN show ELSE show \cap {"user"}

NothingDrawn == [on |-> NoView, of |-> NoView, sources |-> None,
                 queried |-> FALSE, user |-> TRUE]

\* The configuration, the data bases and the window at the start.
ViewInit ==
    /\ showpoi \in SUBSET Sources /\ pressed = showpoi
    /\ poi_osm \in BOOLEAN /\ maploaded = FALSE
    /\ view \in Views
    /\ list = [of |-> NoView, sources |-> None, count |-> 0]
    /\ poi_limit = Limit /\ poi_list_size = Limit /\ poi_result_size = Limit /\ top = 0
    /\ drawn = NothingDrawn
    /\ timer = TRUE
    /\ poi_filter \in SUBSET Categories /\ isSelected = Categories \ poi_filter

choice == <<showpoi, pressed>>
map == <<poi_osm, maploaded, view>>
buffers == <<poi_limit, poi_list_size, poi_result_size, top>>
filter == <<isSelected, poi_filter>>

-----------------------------------------------------------------------------
(* Buffers.  Storing n points from index 1 enlarges the one that is filled *)
(* to the common limit, each time an index is above that limit.            *)

NewLimit(n) ==
    IF n > poi_limit
    THEN poi_limit + (1 + Grow) * ((n - poi_limit + Grow) \div (1 + Grow))
    ELSE poi_limit

Filled(n, size) == IF n > poi_limit THEN NewLimit(n) ELSE size

\* Slip: the query for the list has no limit.
Everything == 0 .. MaxPoints

\* The query for the list has a limit of its own.
InView == 0 .. ViewMax

-----------------------------------------------------------------------------
(* The list.                                                               *)

\* Slip: only the first section counts.
NeverShown == list.of = NoView

\* poi_check_if_moved.
Moved == list.of = NoView \/ list.of # view

Quiet(show, importactive) == show = None \/ ~maploaded \/ importactive

\* The text of the configuration, made of the tree.
UpdatePoiTypeFilter == poi_filter' = Categories \ isSelected

\* poi_rebuild_list.
RebuildList(show, importactive) ==
    \/ /\ Quiet(show, importactive)
       /\ UNCHANGED <<list, poi_limit, poi_list_size, poi_filter>>
    \/ /\ ~Quiet(show, importactive) /\ Queried(show) = None
       /\ UpdatePoiTypeFilter
       /\ UNCHANGED <<list, poi_limit, poi_list_size>>
    \/ /\ ~Quiet(show, importactive) /\ Queried(show) # None
       /\ UpdatePoiTypeFilter
       /\ \E n \in InView :
             /\ list' = [of |-> view, sources |-> Queried(show), count |-> n]
             /\ poi_limit' = NewLimit(n)
             /\ poi_list_size' = Filled(n, poi_list_size)

\* The timer, which calls a function without a result: what it takes for the result
\* decides whether it is called again.
Timer(importactive) ==
    /\ timer
    /\ RebuildList(showpoi, importactive)
    /\ timer' \in BOOLEAN
    /\ UNCHANGED <<choice, map, poi_result_size, top, drawn, isSelected>>

\* poi_draw_list, on a map that shows the points of old.
DrawList(show, importactive, now, old) ==
    IF Quiet(show, importactive)
    THEN /\ drawn' = old
         /\ UNCHANGED <<list, poi_limit, poi_list_size, poi_filter>>
    ELSE /\ IF Moved \/ now
            THEN RebuildList(show, importactive)
            ELSE UNCHANGED <<list, poi_limit, poi_list_size, poi_filter>>
         /\ drawn' = [on |-> view, of |-> list'.of, sources |-> list'.sources,
                      queried |-> Queried(show) # None, user |-> "user" \in pressed']

\* The map is drawn anew, and the markers on it.
Draw(importactive) ==
    /\ UNCHANGED <<choice, map, poi_result_size, top, timer, isSelected>>
    /\ DrawList(showpoi, importactive, FALSE, NothingDrawn)

\* A button for the points of a source; that of OpenStreetMap is there if its data base is.
PoiButton(importactive, source) ==
    /\ source = "osm" => poi_osm
    /\ pressed' = IF source \in pressed THEN pressed \ {source} ELSE pressed \cup {source}
    /\ showpoi' = IF source \in pressed' THEN showpoi \cup {source} ELSE showpoi \ {source}
    /\ DrawList(showpoi', importactive, TRUE, drawn)
    /\ UNCHANGED <<map, poi_result_size, top, timer, isSelected>>

\* The map is moved, zoomed or exchanged, and the first one is loaded.
Move(v) ==
    /\ view' = v /\ maploaded' = TRUE
    /\ UNCHANGED <<poi_osm, choice, list, buffers, drawn, timer, filter>>

-----------------------------------------------------------------------------
(* The search, and the categories.                                         *)

\* poi_get_results, for n points found.
GetResults(n) ==
    /\ poi_limit' = NewLimit(n)
    /\ poi_result_size' = Filled(n, poi_result_size)
    /\ top' = n
    /\ UNCHANGED <<choice, map, list, poi_list_size, drawn, timer, filter>>

\* toggle_poitype.
TogglePoitype(c) ==
    /\ isSelected' = IF c \in isSelected THEN isSelected \ {c} ELSE isSelected \cup {c}
    /\ poi_filter' = Categories \ isSelected'
    /\ UNCHANGED <<choice, map, list, buffers, drawn, timer>>

\* init_poi_filter, for the whole tree.
Restored == Categories \ poi_filter

\* Another theme of icons: the tree is read anew, with the filter of the configuration.
GetPoitypeTree ==
    /\ isSelected' = Restored
    /\ UNCHANGED <<choice, map, list, buffers, drawn, timer, poi_filter>>

-----------------------------------------------------------------------------
\* The points on the map are those of the section that it shows, and of sources chosen:
\* those of another section would be drawn where they are not.  Unless nothing but the
\* data base of OpenStreetMap is chosen, and it is not there.
DrawnBelongs == drawn.queried => drawn.of = drawn.on

\* Whoever switches the points of the user off does not see them where the map is drawn
\* (tooltip of the button: "Show Points Of Interest found in user database").
UserOff == ~drawn.user => "user" \notin drawn.sources

\* What is drawn is inside the buffer, whatever searches do to the common limit.
ListFits == list.count < poi_list_size

\* So is what a search finds.
ResultsFit == top < poi_result_size

=============================================================================

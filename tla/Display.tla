-------------------------------- MODULE Display --------------------------------
(***************************************************************************)
(* What the user sees of the map: the maps that mapnik draws (Mapnik), the *)
(* maps from files (MapView), the position shown (Explore) and the window  *)
(* to fetch maps (MapDownload).  Each behaviour follows one of them.       *)
(***************************************************************************)
EXTENDS Mapnik, MapView, Explore, MapDownload

VARIABLE part   \* "mapnik", "maps", "explore" or "download"

displayVars == <<mapnikVars, viewVars, exploreVars, downloadVars, part>>

\* What is not followed starts in one way only.
Still ==
    /\ part # "mapnik" =>
           /\ status = 0 /\ caching /\ wanted = (CHOOSE w \in Demands : TRUE)
           /\ renderer[CHOOSE t \in Renderers : TRUE] = "asleep"
    /\ part # "maps" =>
           /\ position = (CHOOSE p \in Positions : TRUE) /\ width = screen.view
           /\ autobestmap /\ scale_wanted = (CHOOSE scale \in Scales : TRUE)
           /\ existing = All
    /\ part # "explore" =>
           current = (CHOOSE p \in Spots : TRUE) /\ exp = current /\ ~simmode
    /\ part # "download" =>
           /\ entry = (CHOOSE p \in Places : TRUE) /\ mapsource_scale = 1
           /\ mapsource_type = (CHOOSE s \in Sources : TRUE)

Init ==
    /\ part \in {"mapnik", "maps", "explore", "download"}
    /\ MapnikInit /\ ViewInit /\ ExploreInit /\ DownloadInit
    /\ Still

Next ==
    /\ \/ part = "mapnik" /\ MapnikNext /\ UNCHANGED <<viewVars, exploreVars, downloadVars>>
       \/ part = "maps" /\ ViewNext /\ UNCHANGED <<mapnikVars, exploreVars, downloadVars>>
       \/ part = "explore" /\ ExploreNext /\ UNCHANGED <<mapnikVars, viewVars, downloadVars>>
       \/ part = "download" /\ DownloadNext /\ UNCHANGED <<mapnikVars, viewVars, exploreVars>>
    /\ UNCHANGED part

\* The timer draws, the thread wakes up every second, the receiver reports, and the main
\* loop goes on.
Fairness ==
    /\ WF_displayVars(part = "mapnik" /\ DrawMap /\ UNCHANGED <<viewVars, exploreVars, downloadVars, part>>)
    /\ \A t \in Renderers :
          WF_displayVars(part = "mapnik" /\ Work(t) /\ UNCHANGED <<viewVars, exploreVars, downloadVars, part>>)
    /\ WF_displayVars(part = "explore" /\ (\E p \in Spots : Report(p))
                          /\ UNCHANGED <<mapnikVars, viewVars, downloadVars, part>>)
    /\ WF_displayVars(part = "explore" /\ Switched /\ UNCHANGED <<mapnikVars, viewVars, downloadVars, part>>)

Spec == Init /\ [][Next]_displayVars /\ Fairness

================================================================================

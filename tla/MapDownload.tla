------------------------------ MODULE MapDownload ------------------------------
(***************************************************************************)
(* The window in which a map is chosen for download (map_download.c).      *)
(* What it shows, the place, the source and the scale, is in its entries   *)
(* and boxes; what will be fetched is in variables beside them, which the  *)
(* signals of the entries and boxes keep up to date as long as the program *)
(* believes that the window is there.  Choosing a source fills the box of  *)
(* the scales anew and so raises the signal of that box on the way.        *)
(*                                                                         *)
(* The menu opens a second window beside the first: the entries and boxes  *)
(* the program knows are then those of the newest.  The older one is only  *)
(* closed here.  The question whether to overwrite a map is modal, so that *)
(* nothing of this changes before the map is fetched; what is fetched and  *)
(* put into the list is in MapStore.                                       *)
(***************************************************************************)
EXTENDS Integers, Sequences

CONSTANTS
    Places,      \* that are typed, clicked or the program's own
    Sources,     \* local_config.mapsource_type
    Tiled,       \* those of a TWMS server: the others are of TMS servers
    Zooms,       \* mapsource[]: what a source offers
    MaxWindows   \* bound: windows

ASSUME MapDownloadAssumption ==
    Tiled \subseteq Sources /\ Zooms \in [Sources -> Seq(Nat) \ {<<>>}]

VARIABLES
    windows,          \* windows that are open
    newest,           \* the one opened last is among them
    dl_window,        \* gui_status.dl_window
    entry,            \* the place in its entries
    active_scale,     \* the active row of its box of scales, 0 without
    mapsource_type, mapsource_scale,   \* local_config
    server_type,      \* NoServer at the start
    mapdl_place, corners,   \* mapdl_lat, mapdl_lon: a place, and the grids it was snapped to
    mapdl_zoom              \* the level of the tiles

NoServer == "none"
Server(source) == IF source \in Tiled THEN "TWMS" ELSE "TMS"

dialog == <<windows, newest, dl_window, entry, active_scale>>
chosen == <<mapsource_type, mapsource_scale, server_type, mapdl_place, corners, mapdl_zoom>>
downloadVars == <<dialog, chosen>>

DownloadInit ==
    /\ windows = 0 /\ newest = FALSE /\ dl_window = FALSE
    /\ entry \in Places /\ active_scale = 0
    /\ mapsource_type \in Sources
    /\ mapsource_scale \in 1 .. Len(Zooms[mapsource_type])
    /\ server_type = NoServer
    /\ mapdl_place = entry /\ corners = {} /\ mapdl_zoom = 0

\* mapdl_setparm_cb, with e in the entries, the source s and the scale i in the boxes.
\* Without a scale the one before stays.
SetParm(e, s, i) ==
    /\ mapdl_place' = e /\ corners' = {}
    /\ mapdl_zoom' = IF i = 0 THEN mapdl_zoom ELSE Zooms[s][i]
    /\ mapsource_scale' = IF i = 0 THEN mapsource_scale ELSE i

\* It returns at once when the window is not there.
Changed(e, s, i) ==
    IF dl_window THEN SetParm(e, s, i)
    ELSE UNCHANGED <<mapdl_place, corners, mapdl_zoom, mapsource_scale>>

\* map_download_cb: the first scale is chosen, whatever the configuration says.
OpenDownload(here) ==
    /\ windows < MaxWindows
    /\ windows' = windows + 1 /\ newest' = TRUE /\ dl_window' = TRUE
    /\ entry' = here /\ active_scale' = 1
    /\ SetParm(here, mapsource_type, 1)
    /\ server_type' = IF server_type = NoServer THEN Server(mapsource_type) ELSE server_type
    /\ UNCHANGED mapsource_type

\* mapdl_close_cb, of the newest window or of another.
CloseDownload(last) ==
    /\ IF last THEN newest ELSE windows > (IF newest THEN 1 ELSE 0)
    /\ windows' = windows - 1
    /\ newest' = (newest /\ ~last)
    /\ dl_window' = FALSE
    /\ UNCHANGED <<entry, active_scale, chosen>>

\* The user types; mapclick_cb, mapdl_set_coords.
TypePlace(p) ==
    /\ newest
    /\ entry' = p
    /\ Changed(p, mapsource_type, active_scale)
    /\ UNCHANGED <<windows, newest, dl_window, active_scale, mapsource_type, server_type>>

ClickPlace(p) ==
    /\ dl_window
    /\ entry' = p
    /\ Changed(p, mapsource_type, active_scale)
    /\ UNCHANGED <<windows, newest, dl_window, active_scale, mapsource_type, server_type>>

ChooseScale(i) ==
    /\ newest /\ i # active_scale
    /\ active_scale' = i
    /\ Changed(entry, mapsource_type, i)
    /\ UNCHANGED <<windows, newest, dl_window, entry, mapsource_type, server_type>>

\* Slip: the server is found out once, as in mapdl_setparm_cb.
ServerOnce(s) == IF server_type = NoServer THEN Server(s) ELSE server_type

\* The server of the source that is chosen.
ServerOf(s) == Server(s)

\* mapdl_setsource_cb: the box gets the scales of the source, and in it the row of the
\* scale before, if there is one.
ChooseSource(s) ==
    /\ newest /\ s # mapsource_type
    /\ mapsource_type' = s
    /\ active_scale' = IF mapsource_scale <= Len(Zooms[s]) THEN mapsource_scale ELSE 0
    /\ Changed(entry, s, active_scale')
    /\ server_type' = ServerOf(s)
    /\ UNCHANGED <<windows, newest, dl_window, entry>>

\* mapdl_start_cb: the place is snapped to the grid of the tiles.
StartFetch ==
    /\ newest
    /\ corners' = IF server_type = "TWMS" THEN corners \cup {mapdl_zoom} ELSE corners
    /\ UNCHANGED <<dialog, mapsource_type, mapsource_scale, server_type, mapdl_place, mapdl_zoom>>

DownloadNext ==
    \/ \E p \in Places : OpenDownload(p) \/ TypePlace(p) \/ ClickPlace(p)
    \/ \E last \in BOOLEAN : CloseDownload(last)
    \/ \E s \in Sources : ChooseSource(s)
    \/ \E i \in DOMAIN Zooms[mapsource_type] : ChooseScale(i)
    \/ StartFetch

-----------------------------------------------------------------------------
\* As long as the program believes that the window is there it is, and a click on the map
\* finds its entries; and what will be fetched is what it shows: the place, on no grid but
\* that of the scale of a tiled source, the scale if one is shown, from the server of the
\* source (mapdl_start_cb takes the source from one variable and the server from another).
FetchFits ==
    dl_window =>
       /\ newest
       /\ mapdl_place = entry
       /\ corners \subseteq {mapdl_zoom} /\ (mapsource_type \notin Tiled => corners = {})
       /\ active_scale # 0 => mapdl_zoom = Zooms[mapsource_type][active_scale]
       /\ server_type = Server(mapsource_type)

\* "Select coordinates and scale" (map_download.c:1223): the window follows what is
\* selected in it.  Closing one of two windows makes the other deaf.
WindowFollows == newest => dl_window

\* A zoom that its source offers is fetched.  A source with fewer scales leaves the
\* zoom of the source before.
ZoomOffered ==
    dl_window => \E i \in DOMAIN Zooms[mapsource_type] : mapdl_zoom = Zooms[mapsource_type][i]

================================================================================

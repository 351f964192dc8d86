-------------------------------- MODULE Mapnik --------------------------------
(***************************************************************************)
(* Maps drawn by mapnik (mapnik.cpp): the main loop asks for a map of the  *)
(* place shown, a thread of its own draws it, and both work on the one     *)
(* structure MapnikMap without a lock.  The thread sleeps until RenderYsn  *)
(* is set; the main loop leaves the structure alone until it is cleared,   *)
(* but takes the picture whenever NewMapYsn says that there is one.        *)
(* Pictures may be kept in files between runs of the program.              *)
(*                                                                         *)
(* A place is a cell of the grid of centres; a tile is a place and a       *)
(* scale.  A picture is the tile it shows, Torn when it is not whole, or   *)
(* Null.  Using an object that was given back yields a torn picture:       *)
(* whatever else it may do is left out.                                    *)
(***************************************************************************)
EXTENDS Integers

CONSTANTS
    Demands,   \* the tiles that the user may want: pairs of a place and a scale
    Near,      \* pairs of places: the picture of the first shows the second as well
    Renderers, \* names for the threads
    Origin, NoScale, None, Null, Torn, Freed, Raw

Cells == {t[1] : t \in Demands} \cup {Origin}
Levels == {t[2] : t \in Demands} \cup {NoScale}

ASSUME TilesAssumption ==
    /\ \A t \in Demands : t[1] # Origin /\ t[2] # NoScale
    /\ None \notin Cells \X Levels
    /\ {None, Null, Torn, Freed, Raw} \cap Demands = {}
    /\ Raw # Freed /\ Null \notin {Raw, Freed} /\ None # Torn

VARIABLES
    status,    \* local_config.MapnikStatusInt: 0 is off, 1 is new, 2 is on
    active,    \* MapnikInitYsn
    config,    \* the generated configuration: None, "whole" or "empty"
    caching,   \* local_config.mapnik_caching
    wanted,    \* the place and the scale that the main loop wants
    CenterPt, ScaleDbl, NewCenterPt, NewScaleDbl, NewMapYsn, RenderYsn,
    extent,    \* what the map object was zoomed to
    raw,       \* what is in the memory at ImageRawDataPtr
    GdkPixbufPtr,  \* Null, Freed, a picture, or Raw for the memory of the renderer
    renderer,  \* where each thread is
    name,      \* the file that each thread writes
    drawing,   \* where the main loop is in drawing the map
    image,     \* the picture that the main loop holds, None without
    files      \* the picture in the file of each tile, None without

request == <<CenterPt, ScaleDbl, NewCenterPt, NewScaleDbl, NewMapYsn, RenderYsn>>
picture == <<extent, raw, GdkPixbufPtr>>
user == <<status, wanted, caching>>
shown == <<drawing, image>>
set == <<active, config>>

\* What the object holds.
Content(p) == CASE p = Raw -> raw [] p = Freed -> Torn [] OTHER -> p

-----------------------------------------------------------------------------
\* gen_mapnik_config_xml_ysn: it is not written again when it is newer than the template
\* of the settings; otherwise it is truncated, also when that template cannot be read.
Generated(template, newer) ==
    CASE config = None /\ template = "none" -> None
      [] config # None /\ template = "settings" /\ newer -> config
      [] OTHER -> IF template = "settings" THEN "whole" ELSE "empty"

\* init_mapnik: fresh values, and one more thread.
NewRenderer(r) ==
    /\ CenterPt' = Origin /\ NewCenterPt' = Origin /\ ScaleDbl' = NoScale
    /\ extent' = None
    /\ raw' = IF active' THEN Torn ELSE raw
    /\ renderer' = [t \in Renderers |->
                       CASE t = r /\ active' -> "asleep"
                         [] renderer[t] = "painting" /\ active' -> "astray"
                         [] OTHER -> renderer[t]]

MapnikInit ==
    /\ \E w \in Demands, c \in BOOLEAN : wanted = w /\ caching = c
    /\ status \in {0, 1}
    /\ \E r \in Renderers : renderer = [t \in Renderers |-> IF t = r THEN "asleep" ELSE "none"]
    /\ active = TRUE /\ config = "whole"
    /\ CenterPt = Origin /\ NewCenterPt = Origin
    /\ ScaleDbl = NoScale /\ NewScaleDbl = NoScale
    /\ NewMapYsn = FALSE /\ RenderYsn = FALSE
    /\ extent = None /\ raw = Torn /\ GdkPixbufPtr = Null
    /\ name = [t \in Renderers |-> None]
    /\ drawing = "idle" /\ image = None
    /\ files = [t \in Demands |-> None]

-----------------------------------------------------------------------------
(* The main loop: the map is drawn.                                        *)

\* try_read_tile_from_cache: what the file holds is taken for the tile; a file that cannot
\* be read gives no picture.
ReadFromCache(tile) ==
    /\ GdkPixbufPtr' = IF files[tile] = Torn THEN Null ELSE files[tile]
    /\ CenterPt' = tile[1] /\ ScaleDbl' = tile[2]
    /\ NewMapYsn' = TRUE

Forced(force) == force \/ wanted[2] # ScaleDbl

\* get_best_tile_center: a picture that also shows the place wanted is kept.
Shows(center) == center = wanted[1] \/ <<center, wanted[1]>> \in Near

\* set_mapnik_map_ysn
SetMap(force) ==
    /\ IF ~RenderYsn /\ (Forced(force) \/ ~Shows(CenterPt))
       THEN /\ NewScaleDbl' = (IF wanted[2] # ScaleDbl THEN wanted[2] ELSE NewScaleDbl)
            /\ NewCenterPt' = wanted[1]
            /\ LET tile == <<NewCenterPt', NewScaleDbl'>>
               IN IF caching /\ files[tile] # None
                  THEN ReadFromCache(tile) /\ UNCHANGED RenderYsn
                  ELSE RenderYsn' = TRUE
                       /\ UNCHANGED <<CenterPt, ScaleDbl, NewMapYsn, GdkPixbufPtr>>
       ELSE UNCHANGED <<request, GdkPixbufPtr>>

Ask ==
    /\ drawing = "idle" /\ status > 0 /\ active
    /\ status' = 2
    /\ SetMap(status = 1)
    /\ drawing' = "asked"
    /\ UNCHANGED <<wanted, caching, set, extent, raw, renderer, name, image, files>>

\* test_and_load_newmap, when there is a new map: scale and centre are taken (what they
\* are used for is left out) ...
Take ==
    /\ drawing = "asked"
    /\ drawing' = IF NewMapYsn THEN "taken" ELSE "idle"
    /\ UNCHANGED <<user, set, request, picture, renderer, name, image, files>>

\* ... then loadmap copies the picture ...
CopyPicture ==
    /\ drawing = "taken"
    /\ drawing' = "copied"
    /\ image' = IF GdkPixbufPtr = Null THEN None ELSE Content(GdkPixbufPtr)
    /\ UNCHANGED <<user, set, request, picture, renderer, name, files>>

\* ... and the map is no longer new.
ClearNew ==
    /\ drawing = "copied"
    /\ drawing' = "idle" /\ NewMapYsn' = FALSE
    /\ UNCHANGED <<user, set, CenterPt, ScaleDbl, NewCenterPt, NewScaleDbl, RenderYsn,
                   picture, renderer, name, image, files>>

\* The place shown moves, or the user wants another scale.
Want(w) ==
    /\ drawing = "idle" /\ w # wanted
    /\ w[1] = wanted[1] \/ w[2] = wanted[2]
    /\ wanted' = w
    /\ UNCHANGED <<status, caching, set, request, picture, renderer, name, shown, files>>

\* toggle_mapnik_cb, and the switch in the settings.
ToggleMapnik ==
    /\ drawing = "idle"
    /\ status' = IF status = 0 THEN 1 ELSE 0
    /\ UNCHANGED <<wanted, caching, set, request, picture, renderer, name, shown, files>>

ToggleCaching ==
    /\ drawing = "idle"
    /\ caching' = ~caching
    /\ UNCHANGED <<status, wanted, set, request, picture, renderer, name, shown, files>>

\* switch_nightmode: the configuration may be generated again, and mapnik starts again.
SwitchNightmode(r, template, newer) ==
    /\ drawing = "idle" /\ status > 0 /\ renderer[r] = "none"
    /\ config' = Generated(template, newer)
    /\ IF config' = None
       THEN status' = 0 /\ UNCHANGED <<active, request, picture, renderer>>
       ELSE /\ active' = (config' = "whole")
            /\ NewRenderer(r)
            /\ GdkPixbufPtr' = IF GdkPixbufPtr = Raw THEN raw ELSE GdkPixbufPtr
            /\ UNCHANGED <<status, NewScaleDbl, NewMapYsn, RenderYsn>>
    /\ UNCHANGED <<wanted, caching, name, shown, files>>

-----------------------------------------------------------------------------
(* The thread (render_thread), one step per access to what is shared.      *)

Renders(t, from, to) ==
    /\ renderer[t] = from
    /\ renderer' = [renderer EXCEPT ![t] = to]
    /\ UNCHANGED <<user, set, shown>>

\* Slip: the thread looks at the flag of the other direction, that there is a new map.
RenderIfNew(t) ==
    /\ Renders(t, "asleep", "painting")
    /\ NewMapYsn
    /\ extent' = <<NewCenterPt, NewScaleDbl>>
    /\ raw' = Torn
    /\ UNCHANGED <<request, GdkPixbufPtr, name, files>>

\* The map is drawn for the box around the new centre, and the picture is being written.
Render(t) ==
    /\ Renders(t, "asleep", "painting")
    /\ RenderYsn
    /\ extent' = <<NewCenterPt, NewScaleDbl>>
    /\ raw' = Torn
    /\ UNCHANGED <<request, GdkPixbufPtr, name, files>>

\* It is written, unless mapnik started again meanwhile.
Painted(t) ==
    /\ \/ Renders(t, "painting", "painted") /\ raw' = extent
       \/ Renders(t, "astray", "painted") /\ UNCHANGED raw
    /\ UNCHANGED <<request, extent, GdkPixbufPtr, name, files>>

Unref(t) ==
    /\ Renders(t, "painted", "unreferenced")
    /\ GdkPixbufPtr' = IF GdkPixbufPtr = Null THEN Null ELSE Freed
    /\ UNCHANGED <<request, extent, raw, name, files>>

Point(t) ==
    /\ Renders(t, "unreferenced", "pointed")
    /\ GdkPixbufPtr' = Raw
    /\ UNCHANGED <<request, extent, raw, name, files>>

SetCenter(t) ==
    /\ Renders(t, "pointed", "centered")
    /\ CenterPt' = IF extent = None THEN Origin ELSE extent[1]
    /\ UNCHANGED <<NewCenterPt, ScaleDbl, NewScaleDbl, NewMapYsn, RenderYsn, picture, name, files>>

\* Slip: the scale is the one that the user wants by now.
SetScaleWanted(t) ==
    /\ Renders(t, "centered", "scaled")
    /\ ScaleDbl' = wanted[2]
    /\ UNCHANGED <<CenterPt, NewCenterPt, NewScaleDbl, NewMapYsn, RenderYsn, picture, name, files>>

SetScale(t) ==
    /\ Renders(t, "centered", "scaled")
    /\ ScaleDbl' = NewScaleDbl
    /\ UNCHANGED <<CenterPt, NewCenterPt, NewScaleDbl, NewMapYsn, RenderYsn, picture, name, files>>

\* "inform that there is a new map"
Inform(t) ==
    /\ Renders(t, "scaled", "informed")
    /\ NewMapYsn' = TRUE
    /\ UNCHANGED <<CenterPt, NewCenterPt, ScaleDbl, NewScaleDbl, RenderYsn, picture, name, files>>

\* add_current_tile_to_cache: the file is named by centre and scale and opened ...
OpenFile(t) ==
    /\ caching
    /\ Renders(t, "informed", "saving")
    /\ name' = [name EXCEPT ![t] = <<CenterPt, ScaleDbl>>]
    /\ files' = [f \in Demands |-> IF f = name'[t] THEN Torn ELSE files[f]]
    /\ UNCHANGED <<request, picture>>

\* ... and the picture is written to it.
WriteFile(t) ==
    /\ Renders(t, "saving", "saved")
    /\ files' = [f \in Demands |-> IF f = name[t] THEN Content(GdkPixbufPtr) ELSE files[f]]
    /\ name' = [name EXCEPT ![t] = None]
    /\ UNCHANGED <<request, picture>>

\* Nothing is saved when caching is off, or when the directory cannot be made.
Sleep(t) ==
    /\ \/ Renders(t, "saved", "asleep")
       \/ Renders(t, "informed", "asleep")
    /\ RenderYsn' = FALSE
    /\ UNCHANGED <<CenterPt, NewCenterPt, ScaleDbl, NewScaleDbl, NewMapYsn, picture, name, files>>

Work(t) ==
    \/ Render(t) \/ Painted(t) \/ Unref(t) \/ Point(t) \/ SetCenter(t) \/ SetScale(t)
    \/ Inform(t) \/ OpenFile(t) \/ WriteFile(t) \/ Sleep(t)

-----------------------------------------------------------------------------
\* The program ends, in whatever it does, and starts again: the files remain.
RestartMapnik ==
    /\ config' = config
    /\ active' = (config' = "whole")
    /\ \E r \in Renderers :
          renderer' = [t \in Renderers |-> IF t = r /\ active' THEN "asleep" ELSE "none"]
    /\ status' \in {0, 1}
    /\ CenterPt' = Origin /\ NewCenterPt' = Origin
    /\ ScaleDbl' = NoScale /\ NewScaleDbl' = NoScale
    /\ NewMapYsn' = FALSE /\ RenderYsn' = FALSE
    /\ extent' = None /\ raw' = Torn /\ GdkPixbufPtr' = Null
    /\ name' = [t \in Renderers |-> None]
    /\ drawing' = "idle" /\ image' = None
    /\ UNCHANGED <<wanted, caching, files>>

-----------------------------------------------------------------------------
DrawMap == Ask \/ Take \/ CopyPicture \/ ClearNew

\* What the user does and what happens to the program.
Disturb ==
    \/ \E w \in Demands : Want(w)
    \/ ToggleMapnik \/ ToggleCaching \/ RestartMapnik

MapnikNext == DrawMap \/ Disturb \/ \E t \in Renderers : Work(t)

mapnikVars == <<set, request, picture, renderer, name, user, shown, files>>

\* By day.
MapnikSpec == MapnikInit /\ [][MapnikNext]_mapnikVars

\* With switches between day and night.
NightNext ==
    \/ MapnikNext
    \/ \E r \in Renderers, template \in {"settings", "other", "none"}, newer \in BOOLEAN :
          SwitchNightmode(r, template, newer)

NightSpec == MapnikInit /\ [][NightNext]_mapnikVars

\* A file in the cache shows the tile it is named after, or is not whole, whenever the
\* program ended: the thread reads centre, scale and picture one after the other, and the
\* main loop may want something else meanwhile (comment of add_current_tile_to_cache:
\* "thread save, only the renderer can change scalint").
CacheTrue == \A t \in Demands : files[t] \in {None, Torn, t}

\* A tile that stays wanted is drawn or read from the cache in the end, whatever was
\* wanted, switched or interrupted before: the request of the main loop is dropped while
\* the thread still works on another (mapnik.cpp:369), and only asking again makes up.
WantedIsRendered ==
    \A w \in Demands : <>[](wanted = w /\ status = 2) => <>[](ScaleDbl = w[2] /\ Shows(CenterPt))

=============================================================================

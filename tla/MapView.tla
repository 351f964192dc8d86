-------------------------------- MODULE MapView --------------------------------
(***************************************************************************)
(* Which map lies under the position and which part of it is shown         *)
(* (map_handler.c, gpsdrive.c, main_gui.c, import_map.c).  Every timer     *)
(* tick draws: a map is chosen and loaded when the choice has another name *)
(* than the one before, the part shown is shifted until the marker is far  *)
(* enough from its border, and the picture, tempimage, is made anew unless *)
(* iszoomed says that it is right.  The model keeps of it only whether it  *)
(* fits: it was made of the present image, zoom and shift.                 *)
(*                                                                         *)
(* Places lie on a line.  A map is a record of its centre, its scale (how  *)
(* far it is from one pixel to the next) and its name, and reaches Half    *)
(* pixels to both sides of the centre.                                     *)
(***************************************************************************)
EXTENDS Integers, FiniteSets

CONSTANTS
    Maps,        \* the maps of the list
    Fragile,     \* those whose files may be missing
    Imports,     \* maps that can be imported; what the user says of them is right
    World, Plain,\* top_GPSWORLD.jpg and map_LightYellow.png
    Boxes,       \* from where to where those maps reach that say so in the list
    Half,        \* 640 or 512: half the size of an image
    Widths,      \* sizes of the window that shows the map
    Positions, Scales,
    ZoomMax,     \* ZOOM_MAX
    MaxShift     \* bound: the user shifts no further while a map is imported

VARIABLES
    screen,      \* what the drawing keeps, see ViewInit
    position,    \* coords.current_lat, coords.current_lon
    width,       \* the allocation of map_drawingarea
    source,      \* "maps", "mapnik", or "none" with all check boxes of the menu off
    autobestmap, scale_wanted,
    listed,      \* maps: the list
    existing,    \* files that can be read
    importactive

viewVars == <<screen, position, width, source, autobestmap, scale_wanted,
              listed, existing, importactive>>

wishes == <<width, source, autobestmap, scale_wanted>>
disk == <<listed, existing>>

Nothing == [name |-> "", centre |-> 0, scale |-> 1]

\* Not a map: oldfilename after an import, and the names at the start.
Unnamed == "XXXX"
MapnikName == "Mapnik direct Render"

Abs(x) == IF x < 0 THEN -x ELSE x

\* Division of integers in C.
Quot(x, y) == IF x < 0 THEN -((-x) \div y) ELSE x \div y

Border(w) == w \div 5

All == Maps \cup Imports \cup {World, Plain}

\* No view is narrower than five pixels, so that its border has at least one; a pixel of
\* a map is some way long.
ASSUME ViewAssumption ==
    /\ Half \in Nat
    /\ Widths \subseteq Nat /\ \A w \in Widths : 5 <= w
    /\ Positions \subseteq Int
    /\ Scales \subseteq Nat \ {0}
    /\ DOMAIN Boxes \subseteq Maps
    /\ \A m \in All : m.centre \in Int /\ m.scale \in Nat \ {0}

ViewInit ==
    /\ screen = [mapfilename |-> "***", oldfilename |-> "", zero |-> 0, mapscale |-> 1,
                 image |-> Nothing, maploaded |-> FALSE, havedefaultmap |-> TRUE,
                 reported |-> FALSE, zoom |-> 1, xoff |-> 0, iszoomed |-> FALSE,
                 view |-> CHOOSE w \in Widths : TRUE,
                 fits |-> FALSE]
    /\ position \in Positions /\ width \in Widths
    /\ source = "maps"
    /\ autobestmap \in BOOLEAN /\ scale_wanted \in Scales
    /\ listed = Maps
    /\ existing \in {All, All \ Fragile}
    /\ importactive = FALSE

-----------------------------------------------------------------------------
(* Drawing.                                                                *)

\* The picture fits no longer when image, zoom or shift become others.
With(s, image, zoom, xoff) ==
    [s EXCEPT !.image = image, !.zoom = zoom, !.xoff = xoff,
              !.fits = @ /\ <<image, zoom, xoff>> = <<s.image, s.zoom, s.xoff>>]

\* calcxy, without the shift.
Pixel(s) == s.view \div 2 + Quot((position - s.zero) * s.zoom, s.mapscale)

InBorders(s, xoff) ==
    LET x == Pixel(s) - xoff
    IN Border(s.view) <= x /\ x <= s.view - Border(s.view)

\* The first shift of the loop, in steps of 2 * borderlimit, that brings the marker in.
Shifted(s) ==
    LET step == 2 * Border(s.view)
        far == Abs(Pixel(s)) + Abs(s.xoff) + s.view
        shifts == {k \in -far .. far : InBorders(s, s.xoff + k * step)}
    IN s.xoff + step * (CHOOSE k \in shifts : \A j \in shifts : Abs(k) <= Abs(j))

\* Slip: the enlargement is forgotten.
LimitOfHalf(s) == Half - s.view \div 2

\* The shift that lays the border of the view on that of the image.
Limit(s) == Half * s.zoom - s.view \div 2

\* First the one side, then the other: the second wins when the view is larger than the
\* image.
Clamped(s, xoff) ==
    LET under == IF xoff > Limit(s) THEN Limit(s) ELSE xoff
    IN IF under < -Limit(s) THEN -Limit(s) ELSE under

\* The part of expose_cb that follows the marker.
Follow(s) ==
    IF importactive \/ source = "none" \/ ~s.maploaded THEN s
    ELSE LET xoff == Clamped(s, Shifted(s))
         IN [With(s, s.image, s.zoom, xoff) EXCEPT !.iszoomed = @ /\ xoff = s.xoff]

\* The part that scales the image.
Scaled(s) ==
    IF s.iszoomed THEN s
    ELSE [s EXCEPT !.iszoomed = TRUE, !.fits = @ \/ s.maploaded]

\* expose_cb: what was drawn before, the view is measured first.
Exposed(s) == Scaled(Follow([s EXCEPT !.view = width]))

-----------------------------------------------------------------------------
(* Loading maps.                                                           *)

NotLoaded(s) ==
    [s EXCEPT !.havedefaultmap = FALSE, !.reported = TRUE, !.maploaded = @ /\ s.reported]

\* Slip: the picture that was drawn in between counts as one of the new map.
LoadedAsDrawn(s, image) ==
    LET drawn == Exposed([With(s, image, s.zoom, s.xoff) EXCEPT !.reported = FALSE])
    IN [With(drawn, image, s.zoom, 0) EXCEPT !.maploaded = TRUE]

\* loadmap, when there is an image: it draws, too, before it forgets the shift.
NowLoaded(s, image) ==
    LET drawn == Exposed([With(s, image, s.zoom, s.xoff) EXCEPT !.reported = FALSE])
    IN [With(drawn, image, s.zoom, 0) EXCEPT !.iszoomed = FALSE, !.maploaded = TRUE]

Loaded(s, image) == IF image \in existing THEN NowLoaded(s, image) ELSE NotLoaded(s)

Placed(s, centre, scale) ==
    [With(s, s.image, s.zoom, 0) EXCEPT !.zero = centre, !.mapscale = scale]

\* A map is in range when the position is so far from its border, or in its box.
InRange(m) ==
    IF m \in DOMAIN Boxes THEN Boxes[m][1] < position /\ position < Boxes[m][2]
    ELSE Abs(Quot(position - m.centre, m.scale)) < Half - Border(screen.view)

Candidates == {m \in listed : InRange(m)}

\* How far the scale of the map is from the one wanted: a quotient as a pair.
Factor(m) ==
    IF scale_wanted > m.scale THEN <<scale_wanted, m.scale>> ELSE <<m.scale, scale_wanted>>
Closer(a, b) == a[1] * b[2] <= b[1] * a[2]

IsBest(m) ==
    \A n \in Candidates :
        IF autobestmap THEN m.scale <= n.scale ELSE Closer(Factor(m), Factor(n))

\* load_best_map, with a map.
LoadBest(s, m) ==
    LET named == [s EXCEPT !.mapfilename = m.name]
    IN IF s.oldfilename = m.name THEN named
       ELSE Loaded(Placed([named EXCEPT !.oldfilename = m.name], m.centre, m.scale), m)

\* load_best_map, without: the name of the old map is that of the one before.
LoadWorld(s) ==
    IF s.oldfilename # s.mapfilename /\ s.havedefaultmap
    THEN Loaded(Placed([s EXCEPT !.oldfilename = s.mapfilename, !.mapfilename = World.name],
                       World.centre, World.scale), World)
    ELSE s

\* test_and_load_newmap
WithoutMap(s) ==
    Loaded(Placed([s EXCEPT !.oldfilename = s.mapfilename, !.mapfilename = Plain.name],
                  position, scale_wanted), Plain)

\* A tile of mapnik, when there is a new one; there is no picture when its file in the cache
\* is a torn one.  (How the thread comes in between is in Mapnik.)
Tile == [name |-> MapnikName, centre |-> position, scale |-> scale_wanted]
Tiles == {"none", "whole", "torn"}

WithMapnik(s, fresh) ==
    LET named == [s EXCEPT !.oldfilename = s.mapfilename, !.mapfilename = MapnikName]
        there == Placed(named, position, scale_wanted)
    IN [none |-> named, whole |-> NowLoaded(there, Tile), torn |-> NotLoaded(there)][fresh]

\* drawmarker_cb (bound: a tile is torn only where other files are missing, too)
Draw ==
    /\ ~importactive
    /\ \/ source = "none" /\ screen' = Exposed(WithoutMap(screen))
       \/ source = "mapnik" /\ \E fresh \in Tiles :
              /\ fresh = "torn" => existing # All
              /\ screen' = Exposed(WithMapnik(screen, fresh))
       \/ source = "maps" /\ \E m \in Candidates :
              IsBest(m) /\ screen' = Exposed(LoadBest(screen, m))
       \/ source = "maps" /\ Candidates = {} /\ screen' = Exposed(LoadWorld(screen))
    /\ UNCHANGED <<position, wishes, disk, importactive>>

-----------------------------------------------------------------------------
(* What the user does.                                                     *)

\* zoom_cb: nothing before the last change of zoom was drawn.
Zoom(s, in) ==
    CASE in /\ s.zoom < ZoomMax ->
             [With(s, s.image, 2 * s.zoom, 2 * s.xoff) EXCEPT !.iszoomed = FALSE]
      [] ~in /\ s.zoom > 1 ->
             [With(s, s.image, s.zoom \div 2, Quot(s.xoff, 2)) EXCEPT !.iszoomed = FALSE]
      [] OTHER -> s

ZoomButton(in) ==
    /\ screen.iszoomed
    /\ screen' = IF importactive THEN Exposed(Zoom(screen, in)) ELSE Zoom(screen, in)
    /\ UNCHANGED <<position, wishes, disk, importactive>>

\* scalerbt_cb
ScaleButton(scale) ==
    /\ scale_wanted' = scale
    /\ screen' = Exposed(screen)
    /\ UNCHANGED <<position, width, source, autobestmap, disk, importactive>>

\* autobestmap_cb, toggle_mapnik_cb and the check boxes of the menu (bound: these, and
\* the size of the window, do not change while a map is imported).
Choose(auto, from) ==
    /\ ~importactive
    /\ <<auto, from>> # <<autobestmap, source>>
    /\ autobestmap' = auto /\ source' = from
    /\ UNCHANGED <<screen, position, width, scale_wanted, disk, importactive>>

Resize(w) ==
    /\ ~importactive /\ w # width
    /\ width' = w
    /\ UNCHANGED <<screen, position, source, autobestmap, scale_wanted, disk, importactive>>

Travel(p) ==
    /\ ~importactive /\ p # position
    /\ position' = p
    /\ UNCHANGED <<screen, wishes, disk, importactive>>

-----------------------------------------------------------------------------
(* Importing a map.                                                        *)

\* import1_cb (bound: one map is imported, while maps of the list are shown and none is
\* missing)
StartImport ==
    /\ ~importactive
    /\ source = "maps" /\ screen.iszoomed /\ existing = All /\ listed = Maps
    /\ importactive' = TRUE
    /\ UNCHANGED <<screen, position, wishes, disk>>

\* importfb_cb
OpenSelection ==
    /\ importactive
    /\ screen' = [With(screen, screen.image, 1, 0) EXCEPT !.iszoomed = FALSE]
    /\ UNCHANGED <<position, wishes, disk, importactive>>

\* nimmfile: the map is shown where the one before was.
SelectFile(m) ==
    /\ importactive
    /\ screen' = Loaded(screen, m)
    /\ UNCHANGED <<position, wishes, disk, importactive>>

\* importshift_cb
ImportShift(d) ==
    LET xoff == screen.xoff + d * (width \div 2)
    IN /\ importactive
       /\ Abs(xoff) <= MaxShift
       /\ screen' = Exposed([With(screen, screen.image, screen.zoom, xoff)
                               EXCEPT !.iszoomed = FALSE])
       /\ UNCHANGED <<position, wishes, disk, importactive>>

\* close_import_window_cb
CloseImport ==
    /\ importactive
    /\ importactive' = FALSE
    /\ screen' = [screen EXCEPT !.oldfilename = Unnamed]
    /\ UNCHANGED <<position, wishes, disk>>

\* import3_cb and import_scale_cb, with the map selected last.
FinishImport(m) ==
    /\ importactive /\ m \in Imports \ listed /\ screen.image = m
    /\ importactive' = FALSE
    /\ listed' = listed \cup {m}
    /\ screen' = [screen EXCEPT !.oldfilename = Unnamed]
    /\ UNCHANGED <<position, wishes, existing>>

ViewNext ==
    \/ Draw
    \/ \E in \in BOOLEAN : ZoomButton(in)
    \/ \E scale \in Scales : ScaleButton(scale)
    \/ \E auto \in BOOLEAN, from \in {"maps", "mapnik", "none"} : Choose(auto, from)
    \/ \E w \in Widths : Resize(w)
    \/ \E p \in Positions : Travel(p)
    \/ StartImport \/ OpenSelection \/ CloseImport
    \/ \E m \in Imports : SelectFile(m) \/ FinishImport(m)
    \/ \E d \in {-1, 1} : ImportShift(d)

-----------------------------------------------------------------------------
(* iszoomed means that the picture need not be made again, and positions   *)
(* are converted with place and scale of the image held: each of image,    *)
(* place, zoom, shift and flag is changed by another handler               *)
(* (map_handler.c:566-579, gpsdrive.c:1654, main_gui.c:621-644,            *)
(* import_map.c:264, 293).  An image that was imported may stay where the  *)
(* map before was (map_handler.c:686).                                     *)
PictureFits ==
    LET s == screen
    IN s.maploaded =>
         /\ s.iszoomed => s.fits
         /\ s.image \notin Imports \cup {Plain} =>
                <<s.image.centre, s.image.scale>> = <<s.zero, s.mapscale>>

(* Whatever happened before, drawing brings a marker that lies on the      *)
(* image into the part that is shown (gpsdrive.c:1606: "now we test if the *)
(* marker fits into the map and set the shift").                           *)
MarkerInView ==
    LET s == Exposed(screen)
        x == Pixel(s) - s.xoff
    IN /\ s.maploaded /\ source # "none" /\ ~importactive
       /\ Abs(Pixel(s) - s.view \div 2) <= Half * s.zoom
       => 0 <= x /\ x <= s.view

(* "we test if we have to load a new map because we are outside the        *)
(* currently loaded map" (gpsdrive.c:592): after the map was drawn, the    *)
(* image is one of those in range, when there is one that can be read.     *)
MapFollows ==
    [][Draw /\ source = "maps" /\ Candidates # {} /\ Candidates \subseteq existing
           => screen'.image \in Candidates]_viewVars

================================================================================

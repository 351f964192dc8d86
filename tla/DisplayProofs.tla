----------------------------- MODULE DisplayProofs -----------------------------
(***************************************************************************)
(* Proofs about Display, for every set of tiles, threads, maps, sources    *)
(* and sizes.  Each part changes variables of its own, so that an          *)
(* invariant of one part is one of the whole.                              *)
(***************************************************************************)
EXTENDS Display, WellFoundedInduction, TLAPS

-----------------------------------------------------------------------------
(* The window to fetch maps.                                               *)

\* The server is that of the source, once one is known.
ServerKnown == server_type \in {NoServer, Server(mapsource_type)}

DownloadInv == ServerKnown /\ FetchFits

LEMMA ServersDiffer == \A s : Server(s) # NoServer /\ (s \notin Tiled => Server(s) # "TWMS")
  BY DEF Server, NoServer

\* A place, a source or a scale that is chosen is taken over while the window is known.
LEMMA DownloadStep ==
  ASSUME DownloadInv, DownloadNext
  PROVE  DownloadInv'
<1> USE DEF DownloadInv, ServerKnown, FetchFits
<1>1. CASE \E p \in Places : OpenDownload(p)
  BY <1>1, ServersDiffer DEF OpenDownload, SetParm
<1>2. CASE \E p \in Places : TypePlace(p)
  BY <1>2 DEF TypePlace, Changed, SetParm
<1>3. CASE \E p \in Places : ClickPlace(p)
  BY <1>3 DEF ClickPlace, Changed, SetParm
<1>4. CASE \E last \in BOOLEAN : CloseDownload(last)
  BY <1>4 DEF CloseDownload, chosen
<1>5. CASE \E s \in Sources : ChooseSource(s)
  BY <1>5, ServersDiffer DEF ChooseSource, Changed, SetParm, ServerOf
<1>6. CASE \E i \in DOMAIN Zooms[mapsource_type] : ChooseScale(i)
  BY <1>6 DEF ChooseScale, Changed, SetParm
<1>7. CASE StartFetch
  BY <1>7, ServersDiffer DEF StartFetch, dialog
<1>8. QED
  BY <1>1, <1>2, <1>3, <1>4, <1>5, <1>6, <1>7 DEF DownloadNext

\* What will be fetched is what the window shows, whatever was typed, clicked, chosen or
\* closed before (mapdl_setparm_cb, mapdl_setsource_cb, mapdl_start_cb).
THEOREM FetchedIsShown == Spec => []FetchFits
<1>1. Init => DownloadInv
  BY DEF Init, DownloadInit, DownloadInv, ServerKnown, FetchFits
<1>2. DownloadInv /\ [Next]_displayVars => DownloadInv'
  <2> SUFFICES ASSUME DownloadInv, [Next]_displayVars PROVE DownloadInv'
    OBVIOUS
  <2>1. CASE DownloadNext
    BY <2>1, DownloadStep
  <2>2. CASE UNCHANGED downloadVars
    BY <2>2 DEF DownloadInv, ServerKnown, FetchFits, downloadVars, dialog, chosen
  <2>3. QED
    BY <2>1, <2>2 DEF Next, displayVars
<1>3. DownloadInv => FetchFits
  BY DEF DownloadInv
<1>4. QED
  BY <1>1, <1>2, <1>3, PTL DEF Spec

-----------------------------------------------------------------------------
(* The cache of pictures.                                                  *)

Working == {"painting", "painted", "unreferenced", "pointed", "centered", "scaled",
            "informed", "saving", "saved"}

\* By day there is one thread, and none is astray.
OneThread ==
    /\ renderer \in [Renderers -> Working \cup {"none", "asleep"}]
    /\ \A s, t \in Renderers : renderer[s] # "none" /\ renderer[t] # "none" => s = t

\* While thread t works, the main loop leaves the request alone; what the thread has put
\* into the structure so far belongs to it.
Owns(t) ==
    /\ renderer[t] \in Working => RenderYsn /\ extent = <<NewCenterPt, NewScaleDbl>>
    /\ renderer[t] \in Working \ {"painting"} => raw = extent
    /\ renderer[t] \in {"pointed", "centered", "scaled", "informed", "saving"} => GdkPixbufPtr = Raw
    /\ renderer[t] \in {"centered", "scaled", "informed", "saving"} => CenterPt = extent[1]
    /\ renderer[t] \in {"scaled", "informed", "saving"} => ScaleDbl = extent[2]
    /\ renderer[t] = "saving" => name[t] = extent

\* What is asked for is a place and a scale.
Asked == wanted \in Demands /\ NewCenterPt \in Cells /\ NewScaleDbl \in Levels

CacheInv ==
    /\ Asked
    /\ OneThread
    /\ \A t \in Renderers : Owns(t)
    /\ DOMAIN name = Renderers
    /\ CacheTrue

LEMMA InitCache == MapnikInit => CacheInv
  BY DEF MapnikInit, CacheInv, Asked, Cells, Levels, OneThread, Owns, Working, CacheTrue

\* The main loop reads a picture from a file only while no thread works.
LEMMA MainLoopCache ==
  ASSUME CacheInv, DrawMap
  PROVE  CacheInv'
<1>1. UNCHANGED <<renderer, name, files, extent, raw>>
  BY DEF DrawMap, Ask, Take, CopyPicture, ClearNew, picture
<1>2. OneThread' /\ CacheTrue' /\ DOMAIN name' = Renderers
  BY <1>1 DEF CacheInv, OneThread, CacheTrue
<1>3. Asked'
  BY DEF CacheInv, Asked, Cells, Levels, DrawMap, Ask, SetMap, Take, CopyPicture, ClearNew, user,
         request
<1>4. ASSUME NEW t \in Renderers PROVE Owns(t)'
  <2>1. CASE renderer[t] \in Working
    <3>1. RenderYsn /\ Owns(t)
      BY <2>1 DEF CacheInv, Owns
    <3>2. UNCHANGED <<CenterPt, ScaleDbl, NewCenterPt, NewScaleDbl, RenderYsn, GdkPixbufPtr>>
      BY <3>1 DEF DrawMap, Ask, SetMap, Take, CopyPicture, ClearNew, request, picture
    <3>3. QED
      BY <1>1, <3>1, <3>2 DEF Owns
  <2>2. CASE renderer[t] \notin Working
    BY <1>1, <2>2 DEF Owns, Working
  <2>3. QED
    BY <2>1, <2>2
<1>5. QED
  BY <1>2, <1>3, <1>4 DEF CacheInv

LEMMA DisturbedCache ==
  ASSUME CacheInv, Disturb
  PROVE  CacheInv'
<1>1. CASE RestartMapnik
  BY <1>1 DEF RestartMapnik, CacheInv, Asked, Cells, Levels, OneThread, Owns, Working, CacheTrue
<1>2. CASE ~RestartMapnik
  <2>1. UNCHANGED <<request, picture, renderer, name, files>>
    BY <1>2 DEF Disturb, Want, ToggleMapnik, ToggleCaching
  <2>2. wanted' \in Demands
    BY <1>2 DEF CacheInv, Asked, Disturb, Want, ToggleMapnik, ToggleCaching
  <2>3. QED
    BY <2>1, <2>2 DEF CacheInv, Asked, OneThread, Owns, CacheTrue, request, picture
<1>3. QED
  BY <1>1, <1>2

\* A step of thread t: it is the only one, and goes from one stage to the next.
LEMMA WorkCache ==
  ASSUME CacheInv, NEW t \in Renderers, Work(t)
  PROVE  CacheInv'
<1>1. /\ renderer[t] \in Working \cup {"asleep"}
      /\ \A s \in Renderers \ {t} : renderer[s] = "none"
      /\ DOMAIN renderer = Renderers
      /\ Owns(t)
      /\ <<NewCenterPt, NewScaleDbl>> # None
  BY TilesAssumption DEF CacheInv, Asked, OneThread, Working, Work, Renders, Render, Painted, Unref, Point, SetCenter,
         SetScale, Inform, OpenFile, WriteFile, Sleep
<1>2. /\ renderer'[t] \in Working \cup {"asleep"}
      /\ \A s \in Renderers \ {t} : renderer'[s] = "none"
      /\ OneThread' /\ Asked'
  BY <1>1 DEF CacheInv, Asked, user, request, OneThread, Working, Work, Renders, Render, Painted, Unref, Point, SetCenter,
         SetScale, Inform, OpenFile, WriteFile, Sleep
<1>3. \A s \in Renderers \ {t} : Owns(s)'
  BY <1>2 DEF Owns, Working
<1> USE DEF Renders, Owns, Working, CacheTrue, CacheInv
<1>4. CASE Render(t)
  BY <1>1, <1>2, <1>3, <1>4 DEF Render, request
<1>5. CASE Painted(t)
  BY <1>1, <1>2, <1>3, <1>5 DEF Painted, request
<1>6. CASE Unref(t)
  BY <1>1, <1>2, <1>3, <1>6 DEF Unref, request
<1>7. CASE Point(t)
  BY <1>1, <1>2, <1>3, <1>7 DEF Point, request
<1>8. CASE SetCenter(t)
  BY <1>1, <1>2, <1>3, <1>8 DEF SetCenter, picture
<1>9. CASE SetScale(t)
  BY <1>1, <1>2, <1>3, <1>9 DEF SetScale, picture
<1>10. CASE Inform(t)
  BY <1>1, <1>2, <1>3, <1>10 DEF Inform, picture
<1>11. CASE OpenFile(t)
  BY <1>1, <1>2, <1>3, <1>11 DEF OpenFile, request, picture
<1>12. CASE WriteFile(t)
  <2>1. Content(GdkPixbufPtr) = extent /\ name[t] = extent
    BY <1>1, <1>12, TilesAssumption DEF WriteFile, Content
  <2>2. QED
    BY <1>1, <1>2, <1>3, <1>12, <2>1 DEF WriteFile, request, picture
<1>13. CASE Sleep(t)
  BY <1>1, <1>2, <1>3, <1>13 DEF Sleep, picture
<1>14. QED
  BY <1>4, <1>5, <1>6, <1>7, <1>8, <1>9, <1>10, <1>11, <1>12, <1>13 DEF Work

\* However the threads and the main loop take turns, and wherever the program ends, a file
\* of the cache shows the tile it is named after or is not whole (mapnik.cpp,
\* add_current_tile_to_cache: "thread save").
THEOREM CacheKeepsTiles == Spec => []CacheTrue
<1>1. Init => CacheInv
  BY InitCache DEF Init
<1>2. CacheInv /\ [Next]_displayVars => CacheInv'
  <2> SUFFICES ASSUME CacheInv, [Next]_displayVars PROVE CacheInv'
    OBVIOUS
  <2>1. CASE MapnikNext
    BY <2>1, MainLoopCache, DisturbedCache, WorkCache DEF MapnikNext
  <2>2. CASE UNCHANGED mapnikVars
    BY <2>2 DEF CacheInv, Asked, user, OneThread, Owns, CacheTrue, mapnikVars, request, picture
  <2>3. QED
    BY <2>1, <2>2 DEF Next, displayVars
<1>3. CacheInv => CacheTrue
  BY DEF CacheInv
<1>4. QED
  BY <1>1, <1>2, <1>3, PTL DEF Spec

-----------------------------------------------------------------------------
(* The picture of the map.                                                 *)

Fields == {"mapfilename", "oldfilename", "zero", "mapscale", "image", "maploaded",
           "havedefaultmap", "reported", "zoom", "xoff", "iszoomed", "view", "fits"}

IsScreen(s) == DOMAIN s = Fields

\* The place and the scale the positions are converted with are those of the image.
PlacedRight(s) ==
    s.image \notin Imports \cup {Plain} =>
        <<s.image.centre, s.image.scale>> = <<s.zero, s.mapscale>>

\* A picture that counts as right was made of what is held now, and when a map could not
\* be loaded there is none until another is.
Right(s) ==
    /\ IsScreen(s)
    /\ s.maploaded => (s.iszoomed => s.fits) /\ PlacedRight(s)
    /\ s.reported => ~s.maploaded

LEMMA WithKeeps ==
  ASSUME NEW s, IsScreen(s), NEW img, NEW zoom, NEW xoff
  PROVE  /\ IsScreen(With(s, img, zoom, xoff))
         /\ \A f \in Fields \ {"image", "zoom", "xoff", "fits"} :
                With(s, img, zoom, xoff)[f] = s[f]
         /\ With(s, img, zoom, xoff).image = img
         /\ With(s, img, zoom, xoff).zoom = zoom
         /\ With(s, img, zoom, xoff).xoff = xoff
         /\ <<img, zoom, xoff>> = <<s.image, s.zoom, s.xoff>> =>
                (With(s, img, zoom, xoff).fits <=> s.fits)
  BY DEF With, IsScreen, Fields

\* Exposing follows the marker and scales the image when it is needed.
LEMMA ExposedKeeps ==
  ASSUME NEW s, IsScreen(s)
  PROVE  /\ IsScreen(Exposed(s))
         /\ Right(s) => Right(Exposed(s))
         /\ \A f \in Fields \ {"view", "xoff", "iszoomed", "fits"} : Exposed(s)[f] = s[f]
<1> DEFINE v == [s EXCEPT !.view = width]
           f == Follow(v)
<1>1. /\ IsScreen(v) /\ (Right(s) => Right(v))
      /\ \A x \in Fields \ {"view"} : v[x] = s[x]
  BY DEF Right, IsScreen, Fields, PlacedRight
<1>2. /\ IsScreen(f) /\ (Right(v) => Right(f))
      /\ \A x \in Fields \ {"xoff", "iszoomed", "fits"} : f[x] = v[x]
  <2>1. CASE f = v
    BY <1>1, <2>1
  <2>2. CASE f # v
    <3> DEFINE x == Clamped(v, Shifted(v))
               w == With(v, v.image, v.zoom, x)
    <3>1. f = [w EXCEPT !.iszoomed = @ /\ x = v.xoff]
      BY <2>2 DEF Follow
    <3>2. IsScreen(v)
      BY <1>1
    <3> HIDE DEF v, x
    <3>3. /\ IsScreen(w)
          /\ \A y \in Fields \ {"image", "zoom", "xoff", "fits"} : w[y] = v[y]
          /\ w.image = v.image /\ w.zoom = v.zoom
          /\ x = v.xoff => (w.fits <=> v.fits)
      BY <3>2, WithKeeps
    <3> HIDE DEF w
    <3>4. /\ IsScreen(f)
          /\ \A y \in Fields \ {"iszoomed"} : f[y] = w[y]
          /\ f.iszoomed <=> w.iszoomed /\ x = v.xoff
      BY <3>1, <3>3 DEF IsScreen, Fields
    <3> HIDE DEF f
    <3>5. QED
      BY <1>1, <3>3, <3>4 DEF Right, PlacedRight, Fields
  <2>3. QED
    BY <2>1, <2>2
<1> HIDE DEF v, f
<1>3. /\ IsScreen(Scaled(f)) /\ (Right(f) => Right(Scaled(f)))
      /\ \A x \in Fields \ {"iszoomed", "fits"} : Scaled(f)[x] = f[x]
  BY <1>2 DEF Scaled, Right, IsScreen, Fields, PlacedRight
<1>4. Exposed(s) = Scaled(f)
  BY DEF Exposed, f, v
<1>5. QED
  BY <1>1, <1>2, <1>3, <1>4 DEF Fields

\* loadmap with an image: the picture is made anew, wherever drawing shifted it meanwhile.
LEMMA NowLoadedRight ==
  ASSUME NEW s, IsScreen(s), NEW img,
         img \notin Imports \cup {Plain} => <<img.centre, img.scale>> = <<s.zero, s.mapscale>>
  PROVE  Right(NowLoaded(s, img))
<1> DEFINE w == With(s, img, s.zoom, s.xoff)
           u == [w EXCEPT !.reported = FALSE]
           drawn == Exposed(u)
           n == With(drawn, img, s.zoom, 0)
<1>1. /\ IsScreen(w)
      /\ \A f \in Fields \ {"image", "zoom", "xoff", "fits"} : w[f] = s[f]
  BY WithKeeps
<1> HIDE DEF w
<1>2. IsScreen(u) /\ u.zero = s.zero /\ u.mapscale = s.mapscale /\ u.reported = FALSE
  BY <1>1 DEF IsScreen, Fields
<1> HIDE DEF u
<1>3. IsScreen(drawn) /\ \A f \in {"zero", "mapscale", "reported"} : drawn[f] = u[f]
  BY <1>2, ExposedKeeps DEF Fields
<1> HIDE DEF drawn
<1>4. IsScreen(n) /\ n.image = img /\ \A f \in {"zero", "mapscale", "reported"} : n[f] = drawn[f]
  BY <1>3, WithKeeps DEF Fields
<1>5. NowLoaded(s, img) = [n EXCEPT !.iszoomed = FALSE, !.maploaded = TRUE]
  BY DEF NowLoaded, w, u, drawn
<1> HIDE DEF n
<1>6. QED
  BY <1>2, <1>3, <1>4, <1>5 DEF Right, IsScreen, Fields, PlacedRight

\* loadmap: a map that cannot be read leaves no image that counts.
LEMMA LoadedRight ==
  ASSUME NEW s, IsScreen(s), s.reported => ~s.maploaded, NEW img,
         img \notin Imports \cup {Plain} => <<img.centre, img.scale>> = <<s.zero, s.mapscale>>
  PROVE  Right(Loaded(s, img))
<1>1. Right(NotLoaded(s))
  BY DEF NotLoaded, Right, IsScreen, Fields
<1>2. QED
  BY <1>1, NowLoadedRight DEF Loaded

LEMMA PlacedKeeps ==
  ASSUME NEW s, IsScreen(s), NEW centre, NEW scale
  PROVE  /\ IsScreen(Placed(s, centre, scale))
         /\ \A f \in {"reported", "maploaded"} : Placed(s, centre, scale)[f] = s[f]
         /\ Placed(s, centre, scale).zero = centre
         /\ Placed(s, centre, scale).mapscale = scale
<1> DEFINE w == With(s, s.image, s.zoom, 0)
<1>1. IsScreen(w) /\ \A f \in {"reported", "maploaded"} : w[f] = s[f]
  BY WithKeeps DEF Fields
<1>2. Placed(s, centre, scale) = [w EXCEPT !.zero = centre, !.mapscale = scale]
  BY DEF Placed
<1> HIDE DEF w
<1>3. QED
  BY <1>1, <1>2 DEF IsScreen, Fields

\* Other names change nothing.
LEMMA NamedRight ==
  ASSUME NEW s, Right(s), NEW a, NEW b
  PROVE  /\ Right([s EXCEPT !.mapfilename = a]) /\ Right([s EXCEPT !.oldfilename = b])
         /\ Right([s EXCEPT !.oldfilename = b, !.mapfilename = a])
         /\ Right([[s EXCEPT !.mapfilename = a] EXCEPT !.oldfilename = b])
  BY DEF Right, IsScreen, Fields, PlacedRight

\* A map that is placed and loaded.
LEMMA PlacedLoadedRight ==
  ASSUME NEW s, Right(s), NEW centre, NEW scale, NEW img,
         img \notin Imports \cup {Plain} => <<img.centre, img.scale>> = <<centre, scale>>
  PROVE  /\ Right(Loaded(Placed(s, centre, scale), img))
         /\ Right(NowLoaded(Placed(s, centre, scale), img))
         /\ Right(NotLoaded(Placed(s, centre, scale)))
<1> DEFINE p == Placed(s, centre, scale)
<1>1. /\ IsScreen(p) /\ p.zero = centre /\ p.mapscale = scale
      /\ p.reported => ~p.maploaded
  BY PlacedKeeps DEF Right
<1> HIDE DEF p
<1>2. Right(Loaded(p, img)) /\ Right(NowLoaded(p, img))
  BY <1>1, LoadedRight, NowLoadedRight
<1>3. Right(NotLoaded(p))
  BY <1>1 DEF NotLoaded, Right, IsScreen, Fields
<1>4. QED
  BY <1>2, <1>3 DEF p

LEMMA DrawRight ==
  ASSUME Right(screen), Draw
  PROVE  Right(screen')
<1>1. Right(WithoutMap(screen))
  BY NamedRight, PlacedLoadedRight DEF WithoutMap
<1>2. ASSUME NEW fresh \in Tiles PROVE Right(WithMapnik(screen, fresh))
  <2>1. Tile.centre = position /\ Tile.scale = scale_wanted
    BY DEF Tile
  <2> DEFINE named == [screen EXCEPT !.oldfilename = screen.mapfilename,
                                     !.mapfilename = MapnikName]
             there == Placed(named, position, scale_wanted)
  <2>2. Right(named) /\ Right(NowLoaded(there, Tile)) /\ Right(NotLoaded(there))
    BY <2>1, NamedRight, PlacedLoadedRight
  <2>3. WithMapnik(screen, fresh) \in {named, NowLoaded(there, Tile), NotLoaded(there)}
    BY DEF WithMapnik, Tiles
  <2>4. QED
    BY <2>2, <2>3
<1>3. ASSUME NEW m PROVE Right(LoadBest(screen, m))
  BY NamedRight, PlacedLoadedRight DEF LoadBest
<1>4. Right(LoadWorld(screen))
  BY NamedRight, PlacedLoadedRight DEF LoadWorld
<1>5. PICK s : Right(s) /\ screen' = Exposed(s)
  BY <1>1, <1>2, <1>3, <1>4 DEF Draw
<1>6. QED
  BY <1>5, ExposedKeeps DEF Right

\* A change of zoom or shift asks for a new picture.
LEMMA MovedRight ==
  ASSUME Right(screen), NEW zoom, NEW xoff
  PROVE  Right([With(screen, screen.image, zoom, xoff) EXCEPT !.iszoomed = FALSE])
<1> DEFINE w == With(screen, screen.image, zoom, xoff)
<1>1. /\ IsScreen(w) /\ w.image = screen.image
      /\ \A f \in {"zero", "mapscale", "maploaded", "reported"} : w[f] = screen[f]
  BY WithKeeps DEF Right, Fields
<1> HIDE DEF w
<1>2. Right([w EXCEPT !.iszoomed = FALSE])
  BY <1>1 DEF Right, IsScreen, Fields, PlacedRight
<1>3. QED
  BY <1>2 DEF w

LEMMA ViewRight ==
  ASSUME Right(screen), ViewNext
  PROVE  Right(screen')
<1>1. CASE Draw
  BY <1>1, DrawRight
<1>2. CASE \E in \in BOOLEAN : ZoomButton(in)
  <2>1. ASSUME NEW in PROVE Right(Zoom(screen, in))
    BY MovedRight DEF Zoom
  <2>2. QED
    BY <1>2, <2>1, ExposedKeeps DEF ZoomButton, Right
<1>3. CASE \E scale \in Scales : ScaleButton(scale)
  BY <1>3, ExposedKeeps DEF ScaleButton, Right
<1>4. CASE OpenSelection
  BY <1>4, MovedRight DEF OpenSelection
<1>5. CASE \E m \in Imports : SelectFile(m)
  BY <1>5, LoadedRight DEF SelectFile, Right
<1>6. CASE \E d \in {-1, 1} : ImportShift(d)
  <2>1. PICK xoff :
           screen' = Exposed([With(screen, screen.image, screen.zoom, xoff) EXCEPT !.iszoomed = FALSE])
    BY <1>6 DEF ImportShift
  <2>2. QED
    BY <2>1, MovedRight, ExposedKeeps DEF Right
<1>7. CASE CloseImport \/ \E m \in Imports : FinishImport(m)
  <2>1. Right([screen EXCEPT !.oldfilename = Unnamed])
    BY NamedRight
  <2>2. screen' = [screen EXCEPT !.oldfilename = Unnamed]
    BY <1>7 DEF CloseImport, FinishImport
  <2>3. QED
    BY <2>1, <2>2
<1>8. CASE UNCHANGED screen
  BY <1>8 DEF Right, PlacedRight, IsScreen
<1>9. QED
  BY <1>1, <1>2, <1>3, <1>4, <1>5, <1>6, <1>7, <1>8
     DEF ViewNext, Choose, Resize, Travel, StartImport

\* Whichever handlers changed image, place, zoom, shift and the flag, the picture that is
\* taken as it is fits, and positions are converted with the place of the image shown
\* (map_handler.c, gpsdrive.c, main_gui.c, import_map.c).
THEOREM PictureIsRight == Spec => []PictureFits
<1> DEFINE PictureInv == Right(screen)
<1>1. Init => PictureInv
  <2>1. ASSUME NEW v,
               screen = [mapfilename |-> "***", oldfilename |-> "", zero |-> 0, mapscale |-> 1,
                         image |-> Nothing, maploaded |-> FALSE, havedefaultmap |-> TRUE,
                         reported |-> FALSE, zoom |-> 1, xoff |-> 0, iszoomed |-> FALSE,
                         view |-> v, fits |-> FALSE]
        PROVE  PictureInv
    BY <2>1 DEF Right, IsScreen, Fields
  <2>2. QED
    BY <2>1 DEF Init, ViewInit
<1>2. PictureInv /\ [Next]_displayVars => PictureInv'
  <2> SUFFICES ASSUME PictureInv, [Next]_displayVars PROVE PictureInv'
    OBVIOUS
  <2>1. CASE ViewNext
    BY <2>1, ViewRight DEF Right, PlacedRight
  <2>2. CASE UNCHANGED viewVars
    BY <2>2 DEF viewVars, Right, PlacedRight, IsScreen
  <2>3. QED
    BY <2>1, <2>2 DEF Next, displayVars
<1>3. PictureInv => PictureFits
  BY DEF Right, PlacedRight, PictureFits
<1> HIDE DEF PictureInv
<1>4. QED
  BY <1>1, <1>2, <1>3, PTL DEF Spec
-----------------------------------------------------------------------------
(* The marker.                                                             *)

\* What positions are converted with are numbers, and the view is one of the sizes.
Sized(s) ==
    /\ IsScreen(s)
    /\ s.zero \in Int /\ s.mapscale \in Nat \ {0}
    /\ s.zoom \in Nat /\ s.xoff \in Int /\ s.view \in Widths

ViewTypes ==
    /\ position \in Positions /\ width \in Widths /\ scale_wanted \in Scales
    /\ listed \subseteq Maps \cup Imports
    /\ Sized(screen)

\* The least of a set of numbers.
LEMMA LeastNumber ==
  ASSUME NEW S \in SUBSET Nat, S # {}
  PROVE  \E m \in S : \A k \in S : m <= k
<1> DEFINE R == OpToRel(<, Nat)
<1>1. IsWellFoundedOn(R, Nat)
  BY NatLessThanWellFounded
<1>2. \A x, y \in Nat : y < x => <<y, x>> \in R
  BY DEF OpToRel
<1> HIDE DEF R
<1>3. PICK m \in S : \A y \in S : ~(<<y, m>> \in R)
  BY <1>1, WFMin
<1>4. \A y \in S : ~(y < m)
  BY <1>2, <1>3
<1>5. QED
  BY <1>4

LEMMA QuotType ==
  ASSUME NEW x \in Int, NEW y \in Nat \ {0}
  PROVE  Quot(x, y) \in Int
BY DEF Quot

\* In steps of n one comes from d to less than n, and d of them are enough.
LEMMA StepsReach ==
  ASSUME NEW d \in Int, NEW n \in Nat \ {0}
  PROVE  \E k \in Int : 0 <= d - k * n /\ d - k * n < n /\ Abs(k) <= Abs(d)
<1> DEFINE k == d \div n
           r == d % n
<1>1. k \in Int /\ r \in 0 .. n - 1 /\ d = n * k + r
  OBVIOUS
<1> HIDE DEF k, r
<1>2. k * n = n * k /\ n * k \in Int
  BY <1>1
<1>3. 0 <= d - k * n /\ d - k * n < n
  BY <1>1, <1>2
<1>4. Abs(k) <= Abs(d)
  <2>1. CASE k >= 0
    <3>1. k <= n * k
      BY <1>1, <2>1
    <3>2. QED
      BY <1>1, <1>2, <2>1, <3>1 DEF Abs
  <2>2. CASE k < 0
    <3>1. k + 1 <= 0 /\ (n - 1) * (k + 1) <= 0
      BY <1>1, <2>2
    <3>2. (n - 1) * (k + 1) = n * k + n - k - 1
      BY <1>1
    <3>3. d <= k
      BY <1>1, <1>2, <3>1, <3>2
    <3>4. QED
      BY <1>1, <2>2, <3>3 DEF Abs
  <2>3. QED
    BY <1>1, <2>1, <2>2
<1>5. QED
  BY <1>1, <1>3, <1>4

LEMMA PixelType ==
  ASSUME NEW s, Sized(s), position \in Positions
  PROVE  Pixel(s) \in Int /\ s.view \in Nat /\ 5 <= s.view
<1>1. s.view \in Nat /\ 5 <= s.view /\ position \in Int
  BY ViewAssumption DEF Sized
<1>2. (position - s.zero) * s.zoom \in Int
  BY <1>1 DEF Sized
<1>3. Quot((position - s.zero) * s.zoom, s.mapscale) \in Int
  BY <1>2, QuotType DEF Sized
<1>4. QED
  BY <1>1, <1>3 DEF Pixel

\* The loop ends, with the marker inside the borders: they are far enough apart for its
\* steps.
LEMMA ShiftedIn ==
  ASSUME NEW s, Sized(s), position \in Positions
  PROVE  Shifted(s) \in Int /\ InBorders(s, Shifted(s))
<1> DEFINE w == s.view
           b == Border(w)
           step == 2 * b
           p == Pixel(s)
           far == Abs(p) + Abs(s.xoff) + w
           shifts == {k \in -far .. far : InBorders(s, s.xoff + k * step)}
           d == p - s.xoff - b
<1>1. p \in Int /\ w \in Nat /\ 5 <= w /\ s.xoff \in Int
  BY PixelType DEF Sized
<1>2. b \in Nat \ {0} /\ 5 * b <= w
  BY <1>1 DEF Border
<1>3. Shifted(s) = s.xoff + step * (CHOOSE k \in shifts : \A j \in shifts : Abs(k) <= Abs(j))
  BY DEF Shifted
<1>4. \A x : InBorders(s, x) <=> b <= p - x /\ p - x <= w - b
  BY DEF InBorders
<1> HIDE DEF w, b, p
<1>5. step \in Nat \ {0} /\ d \in Int /\ far \in Nat /\ Abs(d) <= far
  BY <1>1, <1>2 DEF Abs
<1>6. PICK k \in Int : 0 <= d - k * step /\ d - k * step < step /\ Abs(k) <= Abs(d)
  BY <1>5, StepsReach
<1>7. k \in -far .. far
  BY <1>5, <1>6 DEF Abs
<1>8. k * step \in Int
  BY <1>5, <1>6
<1>9. InBorders(s, s.xoff + k * step)
  <2> DEFINE q == k * step
  <2>1. q \in Int /\ 0 <= d - q /\ d - q < step
    BY <1>6, <1>8
  <2> HIDE DEF q
  <2>2. b <= p - (s.xoff + q) /\ p - (s.xoff + q) <= w - b
    BY <1>1, <1>2, <2>1
  <2>3. QED
    BY <1>4, <2>2 DEF q
<1>10. k \in shifts
  BY <1>7, <1>9
<1>11. \E l \in shifts : \A j \in shifts : Abs(l) <= Abs(j)
  <2> DEFINE S == {Abs(j) : j \in shifts}
  <2>1. \A j \in shifts : j \in Int /\ Abs(j) \in Nat
    BY <1>5 DEF Abs
  <2> HIDE DEF shifts
  <2>2. S \in SUBSET Nat /\ S # {}
    BY <1>10, <2>1
  <2>3. PICK m \in S : \A j \in S : m <= j
    BY <2>2, LeastNumber
  <2>4. QED
    BY <2>3
<1>12. PICK l \in shifts : Shifted(s) = s.xoff + step * l
  <2> HIDE DEF shifts
  <2>1. QED
    BY <1>3, <1>11
<1>13. l \in Int /\ InBorders(s, s.xoff + l * step)
  BY <1>5, <1>12
<1>14. step * l = l * step /\ l * step \in Int
  BY <1>5, <1>13
<1>15. QED
  BY <1>1, <1>12, <1>13, <1>14

\* The border of the view goes no further than that of the image, and a marker that lies
\* on the image stays.
LEMMA FollowedIn ==
  ASSUME NEW s, Sized(s), position \in Positions
  PROVE  /\ Clamped(s, Shifted(s)) \in Int
         /\ Abs(Pixel(s) - s.view \div 2) <= Half * s.zoom =>
               LET x == Pixel(s) - Clamped(s, Shifted(s)) IN 0 <= x /\ x <= s.view
<1> DEFINE p == Pixel(s)
           w == s.view
           h == w \div 2
           e == Half * s.zoom
           q == Shifted(s)
           b == Border(w)
<1>1. p \in Int /\ w \in Nat /\ h \in Nat /\ 2 * h <= w /\ b \in Nat
  BY PixelType DEF Border
<1>2. q \in Int /\ b <= p - q /\ p - q <= w - b
  BY ShiftedIn DEF InBorders
<1>3. e \in Nat
  BY ViewAssumption DEF Sized
<1>4. LET under == IF q > e - h THEN e - h ELSE q
      IN Clamped(s, q) = IF under < -(e - h) THEN -(e - h) ELSE under
  BY DEF Clamped, Limit
<1> HIDE DEF p, w, h, e, q, b
<1>5. Clamped(s, q) \in Int
  BY <1>1, <1>2, <1>3, <1>4
<1>6. Abs(p - h) <= e => 0 <= p - Clamped(s, q) /\ p - Clamped(s, q) <= w
  <2> SUFFICES ASSUME Abs(p - h) <= e
               PROVE  0 <= p - Clamped(s, q) /\ p - Clamped(s, q) <= w
    OBVIOUS
  <2>1. -e <= p - h /\ p - h <= e
    BY <1>1, <1>3 DEF Abs
  <2>2. CASE e < h
    <3>1. Clamped(s, q) = -(e - h)
      BY <1>1, <1>2, <1>3, <1>4, <2>2
    <3>2. QED
      BY <1>1, <1>3, <2>1, <2>2, <3>1
  <2>3. CASE h <= e /\ q > e - h
    BY <1>1, <1>2, <1>3, <1>4, <2>1, <2>3
  <2>4. CASE h <= e /\ q <= e - h
    <3>1. CASE q < -(e - h)
      <4>1. Clamped(s, q) = -(e - h)
        BY <1>1, <1>2, <1>3, <1>4, <2>4, <3>1
      <4>2. QED
        BY <1>1, <1>2, <1>3, <2>1, <3>1, <4>1
    <3>2. CASE ~(q < -(e - h))
      <4>1. Clamped(s, q) = q
        BY <1>1, <1>2, <1>3, <1>4, <2>4, <3>2
      <4>2. QED
        BY <1>1, <1>2, <4>1
    <3>3. QED
      BY <3>1, <3>2
  <2>5. QED
    BY <1>1, <1>2, <1>3, <2>2, <2>3, <2>4
<1>7. QED
  BY <1>5, <1>6 DEF p, w, h, e, q

LEMMA WithSized ==
  ASSUME NEW s, Sized(s), NEW img, NEW zoom \in Nat, NEW xoff \in Int
  PROVE  Sized(With(s, img, zoom, xoff))
<1>1. IsScreen(s)
  BY DEF Sized
<1>2. QED
  BY <1>1, WithKeeps DEF Sized, Fields

\* Other fields do not matter.
LEMMA FlaggedSized ==
  ASSUME NEW s, Sized(s), NEW x
  PROVE  /\ Sized([s EXCEPT !.iszoomed = x])
         /\ Sized([s EXCEPT !.reported = x])
         /\ Sized([s EXCEPT !.maploaded = x])
         /\ Sized([s EXCEPT !.havedefaultmap = x])
         /\ Sized([s EXCEPT !.fits = x])
         /\ Sized([s EXCEPT !.mapfilename = x])
         /\ Sized([s EXCEPT !.oldfilename = x])
BY DEF Sized, IsScreen, Fields

\* Exposing brings a marker into the view that lies on the image.
LEMMA ExposedSized ==
  ASSUME NEW s, Sized(s), position \in Positions, width \in Widths
  PROVE  /\ Sized(Exposed(s))
         /\ LET e == Exposed(s)
                x == Pixel(e) - e.xoff
            IN /\ e.maploaded /\ source # "none" /\ ~importactive
               /\ Abs(Pixel(e) - e.view \div 2) <= Half * e.zoom
               => 0 <= x /\ x <= e.view
<1> DEFINE v == [s EXCEPT !.view = width]
           f == Follow(v)
           x == Clamped(v, Shifted(v))
           w == With(v, v.image, v.zoom, x)
           e == Exposed(s)
           Inside(r) == Abs(Pixel(r) - r.view \div 2) <= Half * r.zoom =>
                            0 <= Pixel(r) - r.xoff /\ Pixel(r) - r.xoff <= r.view
<1>1. Sized(v)
  BY DEF Sized, IsScreen, Fields
<1>2. e = Scaled(f)
  BY DEF Exposed
<1>3. IsScreen(e) /\ e.maploaded = s.maploaded /\ v.maploaded = s.maploaded
  BY ExposedKeeps DEF Sized, IsScreen, Fields
<1>4. CASE importactive \/ source = "none" \/ ~v.maploaded
  <2>1. f = v
    BY <1>4 DEF Follow
  <2>2. Sized(e)
    BY <1>1, <1>2, <2>1 DEF Scaled, Sized, IsScreen, Fields
  <2>3. QED
    BY <1>3, <1>4, <2>2
<1>5. CASE ~(importactive \/ source = "none" \/ ~v.maploaded)
  <2>1. x \in Int
    BY <1>1, FollowedIn
  <2>2. Abs(Pixel(v) - v.view \div 2) <= Half * v.zoom =>
            0 <= Pixel(v) - x /\ Pixel(v) - x <= v.view
    BY <1>1, FollowedIn
  <2>3. f = [w EXCEPT !.iszoomed = @ /\ x = v.xoff]
    BY <1>5 DEF Follow
  <2> HIDE DEF x, v
  <2>4. /\ Sized(w) /\ w.xoff = x
        /\ \A y \in {"zero", "mapscale", "zoom", "view"} : w[y] = v[y]
    BY <1>1, <2>1, WithSized, WithKeeps DEF Sized, Fields
  <2> HIDE DEF w
  <2>5. /\ Sized(f) /\ f.xoff = x
        /\ \A y \in {"zero", "mapscale", "zoom", "view"} : f[y] = w[y]
    BY <2>3, <2>4 DEF Sized, IsScreen, Fields
  <2> HIDE DEF f
  <2>6. /\ Sized(e) /\ e.xoff = x
        /\ \A y \in {"zero", "mapscale", "zoom", "view"} : e[y] = f[y]
    BY <1>2, <2>5 DEF Scaled, Sized, IsScreen, Fields
  <2> HIDE DEF e
  <2>7. Pixel(e) = Pixel(v)
    BY <2>4, <2>5, <2>6 DEF Pixel
  <2>8. Inside(e)
    BY <2>2, <2>4, <2>5, <2>6, <2>7
  <2>9. QED
    BY <2>6, <2>8 DEF e
<1>6. QED
  BY <1>4, <1>5

LEMMA NowLoadedSized ==
  ASSUME NEW s, Sized(s), position \in Positions, width \in Widths, NEW img
  PROVE  Sized(NowLoaded(s, img))
<1> DEFINE w == With(s, img, s.zoom, s.xoff)
           u == [w EXCEPT !.reported = FALSE]
           drawn == Exposed(u)
           n == With(drawn, img, s.zoom, 0)
<1>1. s.zoom \in Nat /\ s.xoff \in Int
  BY DEF Sized
<1>2. Sized(w)
  BY <1>1, WithSized
<1> HIDE DEF w
<1>3. Sized(u)
  BY <1>2, FlaggedSized
<1> HIDE DEF u
<1>4. Sized(drawn)
  BY <1>3, ExposedSized
<1> HIDE DEF drawn
<1>5. Sized(n)
  BY <1>1, <1>4, WithSized
<1> HIDE DEF n
<1>6. Sized([n EXCEPT !.iszoomed = FALSE, !.maploaded = TRUE])
  BY <1>5 DEF Sized, IsScreen, Fields
<1>7. QED
  BY <1>6 DEF NowLoaded, n, drawn, u, w

LEMMA LoadedSized ==
  ASSUME NEW s, Sized(s), position \in Positions, width \in Widths, NEW img
  PROVE  Sized(Loaded(s, img))
<1>1. Sized(NotLoaded(s))
  BY DEF NotLoaded, Sized, IsScreen, Fields
<1>2. QED
  BY <1>1, NowLoadedSized DEF Loaded

LEMMA PlacedSized ==
  ASSUME NEW s, Sized(s), NEW centre \in Int, NEW scale \in Nat \ {0}
  PROVE  Sized(Placed(s, centre, scale))
<1> DEFINE w == With(s, s.image, s.zoom, 0)
<1>1. Sized(w)
  BY WithSized DEF Sized
<1> HIDE DEF w
<1>2. Sized([w EXCEPT !.zero = centre, !.mapscale = scale])
  BY <1>1 DEF Sized, IsScreen, Fields
<1>3. QED
  BY <1>2 DEF Placed, w

\* A map of the list, the world, the plain map or a tile.
LEMMA DrawSized ==
  ASSUME ViewTypes, Draw
  PROVE  Sized(screen')
<1>1. /\ Sized(screen) /\ position \in Positions /\ width \in Widths
      /\ position \in Int /\ scale_wanted \in Nat \ {0}
  BY ViewAssumption DEF ViewTypes
<1>2. \A m \in All : m.centre \in Int /\ m.scale \in Nat \ {0}
  BY ViewAssumption
<1>3. ASSUME NEW s, Sized(s), NEW centre \in Int, NEW scale \in Nat \ {0}, NEW img
      PROVE  Sized(Loaded(Placed(s, centre, scale), img))
             /\ Sized(NowLoaded(Placed(s, centre, scale), img))
             /\ Sized(NotLoaded(Placed(s, centre, scale)))
  <2>1. Sized(Placed(s, centre, scale))
    BY <1>3, PlacedSized
  <2>2. Sized(NotLoaded(Placed(s, centre, scale)))
    BY <2>1 DEF NotLoaded, Sized, IsScreen, Fields
  <2>3. QED
    BY <1>1, <2>1, <2>2, LoadedSized, NowLoadedSized
<1>4. ASSUME NEW s, Sized(s), NEW a, NEW b
      PROVE  /\ Sized([s EXCEPT !.oldfilename = b, !.mapfilename = a])
             /\ Sized([s EXCEPT !.mapfilename = a])
             /\ Sized([[s EXCEPT !.mapfilename = a] EXCEPT !.oldfilename = b])
  BY <1>4 DEF Sized, IsScreen, Fields
<1>5. Sized(WithoutMap(screen))
  <2>1. Sized([screen EXCEPT !.oldfilename = screen.mapfilename, !.mapfilename = Plain.name])
    BY <1>1, <1>4
  <2>2. QED
    BY <1>1, <1>3, <2>1 DEF WithoutMap
<1>6. ASSUME NEW fresh \in Tiles PROVE Sized(WithMapnik(screen, fresh))
  <2>1. Sized([screen EXCEPT !.oldfilename = screen.mapfilename, !.mapfilename = MapnikName])
    BY <1>1, <1>4
  <2>2. QED
    BY <1>1, <1>3, <2>1 DEF WithMapnik, Tiles
<1>7. ASSUME NEW m \in Candidates PROVE Sized(LoadBest(screen, m))
  <2>1. m \in All
    BY <1>7 DEF Candidates, ViewTypes, All
  <2> DEFINE named == [screen EXCEPT !.mapfilename = m.name]
  <2>2. Sized(named) /\ Sized([named EXCEPT !.oldfilename = m.name])
    BY <1>1, <1>4
  <2>3. Sized(Loaded(Placed([named EXCEPT !.oldfilename = m.name], m.centre, m.scale), m))
    BY <1>2, <1>3, <2>1, <2>2
  <2>4. QED
    BY <2>2, <2>3 DEF LoadBest
<1>8. Sized(LoadWorld(screen))
  <2>1. World.centre \in Int /\ World.scale \in Nat \ {0}
    BY <1>2 DEF All
  <2>2. Sized([screen EXCEPT !.oldfilename = screen.mapfilename, !.mapfilename = World.name])
    BY <1>1, <1>4
  <2>3. QED
    BY <1>1, <1>3, <2>1, <2>2 DEF LoadWorld
<1>9. PICK s : Sized(s) /\ screen' = Exposed(s)
  BY <1>5, <1>6, <1>7, <1>8 DEF Draw
<1>10. QED
  BY <1>1, <1>9, ExposedSized

\* A change of zoom or shift, drawn or not.
LEMMA MovedSized ==
  ASSUME ViewTypes, NEW img, NEW zoom \in Nat, NEW xoff \in Int
  PROVE  /\ Sized([With(screen, img, zoom, xoff) EXCEPT !.iszoomed = FALSE])
         /\ Sized(Exposed([With(screen, img, zoom, xoff) EXCEPT !.iszoomed = FALSE]))
<1>1. Sized(screen) /\ position \in Positions /\ width \in Widths
  BY DEF ViewTypes
<1>2. Sized(With(screen, img, zoom, xoff))
  BY <1>1, WithSized
<1>3. Sized([With(screen, img, zoom, xoff) EXCEPT !.iszoomed = FALSE])
  BY <1>2, FlaggedSized
<1>4. QED
  BY <1>1, <1>3, ExposedSized

LEMMA ViewTyped ==
  ASSUME ViewTypes, ViewNext
  PROVE  ViewTypes'
<1>1. /\ position' \in Positions /\ width' \in Widths /\ scale_wanted' \in Scales
      /\ listed' \subseteq Maps \cup Imports
  BY DEF ViewTypes, ViewNext, Draw, ZoomButton, ScaleButton, Choose, Resize, Travel, StartImport,
         OpenSelection, CloseImport, SelectFile, FinishImport, ImportShift, wishes, disk
<1>2. /\ Sized(screen) /\ position \in Positions /\ width \in Widths /\ width \in Nat
      /\ screen.zoom \in Nat /\ screen.xoff \in Int
  BY ViewAssumption DEF ViewTypes, Sized
<1>3. Sized(screen')
  <2>1. CASE Draw
    BY <2>1, DrawSized
  <2>2. CASE \E in \in BOOLEAN : ZoomButton(in)
    <3>1. ASSUME NEW in \in BOOLEAN PROVE Sized(Zoom(screen, in))
      <4>1. 2 * screen.zoom \in Nat /\ 2 * screen.xoff \in Int /\ screen.zoom \div 2 \in Nat
        BY <1>2
      <4>2. Quot(screen.xoff, 2) \in Int
        BY <1>2, QuotType
      <4>3. QED
        BY <1>2, <4>1, <4>2, MovedSized DEF Zoom
    <3>2. QED
      BY <1>2, <2>2, <3>1, ExposedSized DEF ZoomButton
  <2>3. CASE \E scale \in Scales : ScaleButton(scale)
    BY <1>2, <2>3, ExposedSized DEF ScaleButton
  <2>4. CASE OpenSelection
    BY <2>4, MovedSized DEF OpenSelection
  <2>5. CASE \E m \in Imports : SelectFile(m)
    BY <1>2, <2>5, LoadedSized DEF SelectFile
  <2>6. CASE \E d \in {-1, 1} : ImportShift(d)
    <3>1. PICK d \in {-1, 1} : ImportShift(d)
      BY <2>6
    <3>2. screen.xoff + d * (width \div 2) \in Int
      BY <1>2
    <3>3. QED
      BY <1>2, <3>1, <3>2, MovedSized DEF ImportShift
  <2>7. CASE CloseImport \/ \E m \in Imports : FinishImport(m)
    <3>1. screen' = [screen EXCEPT !.oldfilename = Unnamed]
      BY <2>7 DEF CloseImport, FinishImport
    <3>2. QED
      BY <1>2, <3>1, FlaggedSized
  <2>8. CASE UNCHANGED screen
    BY <1>2, <2>8 DEF Sized, IsScreen
  <2>9. QED
    BY <2>1, <2>2, <2>3, <2>4, <2>5, <2>6, <2>7, <2>8
       DEF ViewNext, Choose, Resize, Travel, StartImport
<1>4. QED
  BY <1>1, <1>3 DEF ViewTypes, Sized

\* From every image, place, zoom and shift the handlers leave behind, whatever the size of
\* the view, and also when it is larger than the image, drawing brings a marker that lies on
\* the image into the part shown (expose_cb: "now we test if the marker fits into the map").
THEOREM MarkerComesIntoView == Spec => []MarkerInView
<1>1. Init => ViewTypes
  <2> SUFFICES ASSUME Init PROVE ViewTypes
    OBVIOUS
  <2>1. PICK v \in Widths :
               screen = [mapfilename |-> "***", oldfilename |-> "", zero |-> 0, mapscale |-> 1,
                         image |-> Nothing, maploaded |-> FALSE, havedefaultmap |-> TRUE,
                         reported |-> FALSE, zoom |-> 1, xoff |-> 0, iszoomed |-> FALSE,
                         view |-> v, fits |-> FALSE]
    BY DEF Init, ViewInit
  <2>2. IsScreen(screen)
    BY <2>1 DEF IsScreen, Fields
  <2>3. /\ screen.zero = 0 /\ screen.mapscale = 1
        /\ screen.zoom = 1 /\ screen.xoff = 0 /\ screen.view = v
    BY <2>1
  <2>4. Sized(screen)
    BY <2>2, <2>3 DEF Sized
  <2>5. QED
    BY <2>4 DEF Init, ViewInit, ViewTypes
<1>2. ViewTypes /\ [Next]_displayVars => ViewTypes'
  <2> SUFFICES ASSUME ViewTypes, [Next]_displayVars PROVE ViewTypes'
    OBVIOUS
  <2>1. CASE ViewNext
    BY <2>1, ViewTyped
  <2>2. CASE UNCHANGED viewVars
    BY <2>2 DEF viewVars, ViewTypes, Sized
  <2>3. QED
    BY <2>1, <2>2 DEF Next, displayVars
<1>3. ViewTypes => MarkerInView
  BY ExposedSized DEF ViewTypes, MarkerInView
<1>4. QED
  BY <1>1, <1>2, <1>3, PTL DEF Spec

================================================================================

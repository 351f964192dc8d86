-------------------------------- MODULE Track --------------------------------
(***************************************************************************)
(* The track log of the main program (src/src/track.c, with the timers and *)
(* limits it depends on in gpsdrive.c, settings.c and gpx.c).              *)
(*                                                                         *)
(* Track points are kept twice: trackcoord holds what was measured, track  *)
(* the line segments to draw.  Both are arrays that are meant to grow in   *)
(* time.  Every SaveEvery points the new ones are appended to the file     *)
(* incremental.sav.  All callbacks run in one GTK main loop, so each is    *)
(* one action; what makes them hard is that any of them may come between   *)
(* any two others.                                                         *)
(***************************************************************************)
EXTENDS Integers, Sequences, FiniteSets

CONSTANTS
    Places,      \* positions on the map; two points at one place need no segment
    Files,       \* contents of track files: sequences of Fix
    GpxFiles,    \* contents of GPX files that hold a track or nothing
    SaveEvery,   \* points between two incremental saves (30)
    Start,       \* room for points and segments at start (100000)
    Chunk,       \* what init_track allocates or adds (30000)
    Growth,      \* what masteragent_cb adds (100000)
    Margin,      \* masteragent_cb grows an array with less room than this (1000)
    Burst,       \* points stored between two calls of masteragent_cb (10)
    MaxPoints,   \* bound: points stored in all
    MaxMinute,   \* bound: the clock of the export file names stops there
    WritesFail   \* whether files may be impossible to write

\* The position 1001.0, 1001.0 marks an interruption of the track.
Break == [valid |-> FALSE, at |-> "nowhere"]

\* What GPS or a file gives: a position, or none.
Fix == [valid : {TRUE}, at : Places] \cup {Break}

ASSUME TrackAssumption ==
    /\ \A f \in Files \cup GpxFiles : f \in Seq(Fix)
    /\ SaveEvery \in Nat /\ SaveEvery > 1
    /\ Start \in Nat /\ Chunk \in Nat /\ Growth \in Nat
    /\ Margin \in Nat /\ Burst \in Nat /\ 0 < Burst /\ Burst <= Margin
    /\ Margin <= Start /\ Margin <= Growth /\ Margin <= Chunk
    /\ 2 <= Chunk /\ Burst < Chunk
    /\ MaxPoints \in Nat /\ MaxMinute \in Nat
    /\ WritesFail \in BOOLEAN

VARIABLES
    trackcoord,        \* the points; its length is trackcoordnr
    track,             \* the segments; its length is tracknr
    trackcoordlimit, tracklimit,
    old_trackcoordnr,  \* points that are behind the incremental save
    incremental,       \* incremental.sav: the numbers of the points in it
    savetrack,         \* local_config.savetrack
    timers,            \* sources in the main loop that call storetrack_cb
    timerid,           \* id_timeout_track # 0
    recent,            \* points stored since masteragent_cb was last called
    count,             \* points that ever were in memory: numbers them
    minute,            \* the clock, as far as export file names show it
    exports,           \* the exported points, by minute
    restarted          \* points that an export was to save before they were cleared

arrays == <<trackcoord, track, trackcoordlimit, tracklimit, count>>
saving == <<old_trackcoordnr, incremental>>
timer  == <<timers, timerid>>
files  == <<minute, exports, restarted>>
vars   == <<arrays, saving, savetrack, timer, recent, files>>

-----------------------------------------------------------------------------
\* A point carries its number, which the program does not store.
Point == [n : Nat, valid : BOOLEAN, at : Places \cup {"nowhere"}]

\* An end of a segment that has not been written yet.
Unset == [n |-> 0, valid |-> FALSE, at |-> "nowhere"]

Numbered(f, from) ==
    [k \in DOMAIN f |-> [n |-> from + k, valid |-> f[k].valid, at |-> f[k].at]]

Valid(ps) == {ps[k].n : k \in {j \in DOMAIN ps : ps[j].valid}}

\* storepoint: the segment array after point p.  A segment's end is written
\* when the next point comes; moved says whether p is where the last one ends.
Extended(p, moved) ==
    LET nr == Len(track)
        new == [x1 |-> p, x2 |-> Unset]
    IN  CASE ~p.valid /\ nr > 0 -> SubSeq(track, 1, 2 * (nr \div 2))
          [] p.valid /\ nr = 0  -> <<new>>
          [] p.valid /\ nr > 0 /\ moved -> Append([track EXCEPT ![nr].x2 = p], new)
          [] OTHER -> track

\* Uninitialised or stale memory may hold any position.
Moved(p) ==
    IF track = <<>> \/ track[Len(track)].x2 = Unset THEN BOOLEAN
    ELSE {track[Len(track)].x2.at # p.at}

\* The points of ps that a segment leads from while view is on the screen:
\* it and the next are valid and in view, and not at one place.
Joined(ps, view) ==
    {k \in 1 .. Len(ps) - 1 :
        /\ ps[k].valid /\ ps[k + 1].valid
        /\ ps[k].at \in view /\ ps[k + 1].at \in view
        /\ ps[k].at # ps[k + 1].at}

\* The j-th number of a set, counted upwards.
Nth(numbers, j) ==
    CHOOSE k \in numbers : Cardinality({i \in numbers : i <= k}) = j

\* rebuildtracklist: the segments in the order of their points; nothing
\* changes while tracks are not shown.
Rebuilt(ps, old, shown, view) ==
    LET from == Joined(ps, view)
    IN  IF shown
        THEN [j \in 1 .. Cardinality(from) |->
                 [x1 |-> ps[Nth(from, j)], x2 |-> ps[Nth(from, j) + 1]]]
        ELSE old

\* gettrackfile: the room left after n points, growing on the way.
RoomFor(n) ==
    LET room[j \in Nat] ==
            IF j = 0 THEN Chunk
            ELSE IF 2 * j > room[j - 1] - Margin THEN room[j - 1] + Chunk
            ELSE room[j - 1]
    IN  room[n]

\* Slip: every segment in the array is drawn, the unfinished one as well.
DrawnAll == Len(track)

\* drawtracks: the number of segments that are drawn.
Drawn == 2 * (Len(track) \div 2) - 1

-----------------------------------------------------------------------------
Init ==
    /\ trackcoord = <<>> /\ track = <<>>
    /\ trackcoordlimit = Start /\ tracklimit = Start
    /\ old_trackcoordnr = 0 /\ incremental = <<>>
    /\ savetrack \in BOOLEAN
    /\ timers = 1 /\ timerid = TRUE
    /\ recent = 0 /\ count = 0
    /\ minute = 0 /\ exports = [m \in 0 .. MaxMinute |-> {}]
    /\ restarted = {}

\* Whether a file can be written.
Writable == IF WritesFail THEN BOOLEAN ELSE {TRUE}

\* Slip: what has been saved is not remembered.
IncrementalSaveForgets(ps, ok) ==
    IF Len(ps) % SaveEvery = SaveEvery - 1 /\ ok
    THEN LET new == SubSeq(ps, old_trackcoordnr + 1, Len(ps) - 1)
         IN  /\ incremental' = incremental \o [k \in DOMAIN new |-> new[k].n]
             /\ UNCHANGED old_trackcoordnr
    ELSE UNCHANGED saving

\* do_incremental_save, after the point was added to the array ps.
IncrementalSave(ps, ok) ==
    IF Len(ps) % SaveEvery = SaveEvery - 1 /\ ok
    THEN LET new == SubSeq(ps, old_trackcoordnr + 1, Len(ps) - 1)
         IN  /\ incremental' = incremental \o [k \in DOMAIN new |-> new[k].n]
             /\ old_trackcoordnr' = Len(ps) - 1
    ELSE UNCHANGED saving

\* storetrack_cb, called by its timer when not in explore mode.
StoreTrack(fix) ==
    LET p == [n |-> count + 1, valid |-> fix.valid, at |-> fix.at]
    IN  /\ timers > 0
        /\ recent < Burst
        /\ count < MaxPoints
        /\ recent' = recent + 1
        /\ count' = count + 1
        /\ trackcoord' = Append(trackcoord, p)
        /\ IF fix.valid /\ savetrack
           THEN \E ok \in Writable : IncrementalSave(trackcoord', ok)
           ELSE UNCHANGED saving
        /\ \E moved \in Moved(p) : track' = Extended(p, moved)
        /\ UNCHANGED <<trackcoordlimit, tracklimit, savetrack, timer, files>>

\* Slip: the segments decide when the points get more room.
MasterAgentCountsSegments ==
    /\ tracklimit' =
         IF Len(track) > tracklimit - Margin THEN tracklimit + Growth ELSE tracklimit
    /\ trackcoordlimit' =
         IF Len(track) > trackcoordlimit - Margin
         THEN trackcoordlimit + Growth ELSE trackcoordlimit
    /\ recent' = 0
    /\ UNCHANGED <<trackcoord, track, count, saving, savetrack, timer, files>>

\* masteragent_cb makes more room in either array.
MasterAgent ==
    /\ tracklimit' =
         IF Len(track) > tracklimit - Margin THEN tracklimit + Growth ELSE tracklimit
    /\ trackcoordlimit' =
         IF Len(trackcoord) > trackcoordlimit - Margin
         THEN trackcoordlimit + Growth ELSE trackcoordlimit
    /\ recent' = 0
    /\ UNCHANGED <<trackcoord, track, count, saving, savetrack, timer, files>>

\* Zoom, shift or another map: the segments are computed again.
ViewChanged ==
    /\ \E view \in SUBSET Places : track' = Rebuilt(trackcoord, track, TRUE, view)
    /\ UNCHANGED <<trackcoord, trackcoordlimit, tracklimit, count, saving,
                   savetrack, timer, recent, files>>

\* init_track (TRUE)
Cleared ==
    /\ trackcoord' = <<>> /\ track' = <<>>
    /\ trackcoordlimit' = Chunk /\ tracklimit' = Chunk
    /\ UNCHANGED count

\* Memory holds the points of a file, and room for them.
Loaded(f, room) ==
    LET ps == Numbered(f, count)
    IN  /\ count + Len(f) <= MaxPoints
        /\ count' = count + Len(f)
        /\ trackcoord' = ps
        /\ \E shown \in BOOLEAN, view \in SUBSET Places :
               track' = Rebuilt(ps, <<>>, shown, view)
        /\ trackcoordlimit' = room /\ tracklimit' = room

\* track_clear_cb, when the user has said yes.
TrackClear ==
    /\ Cleared
    /\ UNCHANGED <<saving, savetrack, timer, recent, files>>

\* gettrackfile: the points of a track file and a break behind them.
GetTrackFile(f) ==
    /\ Loaded(Append(f, Break), RoomFor(Len(f)))
    /\ UNCHANGED <<saving, savetrack, timer, recent, files>>

\* gpx_file_read: the same, without making room; nothing if there is no track.
GpxRead(f) ==
    /\ Loaded(IF f = <<>> THEN f ELSE Append(f, Break), Chunk)
    /\ UNCHANGED <<saving, savetrack, timer, recent, files>>

\* Slip: the timer that stores points is not stopped while the file is written.
GpxWriteKeepsTimer(ok) ==
    IF ok THEN timers' = timers + 1 /\ timerid' = TRUE ELSE UNCHANGED timer

\* gpx_file_write of the track stops the timer and starts it again.
GpxWrite(ok) ==
    IF ok THEN /\ timers' = (IF timerid THEN timers - 1 ELSE timers) + 1
               /\ timerid' = TRUE
    ELSE UNCHANGED timer

\* track_autosave_cb exports the track under the minute's name and, when
\* called by "restart track" or set up so, clears it.
TrackAutosave(clear) ==
    /\ \E ok \in Writable :
        /\ GpxWrite(ok)
        /\ exports' = IF ok THEN [exports EXCEPT ![minute] = Valid(trackcoord)]
                      ELSE exports
    /\ IF clear THEN Cleared /\ restarted' = restarted \cup Valid(trackcoord)
       ELSE UNCHANGED <<arrays, restarted>>
    /\ UNCHANGED <<saving, savetrack, recent, minute>>

\* The user saves the track to a file of his choice.
SaveGpx ==
    /\ \E ok \in Writable : GpxWrite(ok)
    /\ UNCHANGED <<arrays, saving, savetrack, recent, files>>

\* settrkint_cb: the spin button of the interval between track points.
SetTrackInterval ==
    /\ timers' = IF timerid THEN timers - 1 ELSE timers
    /\ timerid' = FALSE
    /\ UNCHANGED <<arrays, saving, savetrack, recent, files>>

ToggleSaveTrack ==
    /\ savetrack' = ~savetrack
    /\ UNCHANGED <<arrays, saving, timer, recent, files>>

NextMinute ==
    /\ minute < MaxMinute
    /\ minute' = minute + 1
    /\ UNCHANGED <<arrays, saving, savetrack, timer, recent, exports, restarted>>

Next ==
    \/ \E fix \in Fix : StoreTrack(fix)
    \/ \E f \in Files : GetTrackFile(f)
    \/ \E f \in GpxFiles : GpxRead(f)
    \/ \E clear \in BOOLEAN : TrackAutosave(clear)
    \/ MasterAgent \/ ViewChanged \/ TrackClear \/ SaveGpx
    \/ SetTrackInterval \/ ToggleSaveTrack \/ NextMinute

Spec == Init /\ [][Next]_vars

-----------------------------------------------------------------------------
(* incremental.sav has every point at most once and in the order in which  *)
(* they were recorded, whatever is cleared, loaded or switched in between  *)
(* and although old_trackcoordnr outlives the array it counts in           *)
(* (track.c:450-488, 562-585).                                             *)
IncrementalOrdered ==
    \A j, k \in DOMAIN incremental : j < k => incremental[j] < incremental[k]

(* There are never two timers that store points, and the program knows     *)
(* whether there is one: exports from the menu, from the autosave timer    *)
(* and from "restart track" each stop and start it (gpx.c:867-870, 975).   *)
OneTimer == timers = (IF timerid THEN 1 ELSE 0)

(* The points fit into their array: it is enlarged in time by              *)
(* masteragent_cb (gpsdrive.c:721-727) and while a file is loaded          *)
(* (track.c:626-629).                                                      *)
PointsFit == Len(trackcoord) <= trackcoordlimit

(* Every segment that is drawn has both its ends (track.c:305).            *)
DrawnComplete == \A k \in 1 .. Drawn : track[k].x2 # Unset

(* "If gpsdrive has been running for quite a while without "save_track"    *)
(* selected, this routine will capture the entire track up to that point"  *)
(* (track.c:445-447): after an incremental save all points but the last    *)
(* are in the file.                                                        *)
CapturesEntireTrack ==
    [][/\ Len(trackcoord') = Len(trackcoord) + 1
       /\ Len(trackcoord') % SaveEvery = SaveEvery - 1
       /\ trackcoord'[Len(trackcoord')].valid /\ savetrack /\ ~WritesFail
       => \A k \in DOMAIN trackcoord :
             \E j \in DOMAIN incremental' : incremental'[j] = trackcoord[k].n]_vars

(* "Time interval between Track Points" (settings.c:2033): whatever        *)
(* interval is set, there is a timer that stores track points.             *)
RecordingGoesOn == timers > 0

(* "Export track data to gpx and then clear track and trip data"           *)
(* (track.c:545): the points that were cleared are in an exported file.    *)
ExportKeepsTrack == restarted \subseteq UNION {exports[m] : m \in 0 .. minute}

(* "called every time with clear=FALSE, whenever there are more than 30000 *)
(* points to be stored" (track.c:558): the segments, of which there is one *)
(* for any two points, fit into their array as well.                       *)
SegmentsFit == Len(track) <= tracklimit

(* A "Track Break" (track.c:246) interrupts the line: no segment that is   *)
(* drawn leads from a point before a break to one behind it.               *)
BreaksRespected ==
    \A k \in 1 .. Drawn, j \in DOMAIN trackcoord :
        /\ track[k].x1.n < trackcoord[j].n /\ trackcoord[j].n < track[k].x2.n
        => trackcoord[j].valid

=============================================================================

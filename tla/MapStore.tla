-------------------------------- MODULE MapStore --------------------------------
(***************************************************************************)
(* The list of maps (map_handler.c, map_download.c, import_map.c).         *)
(*                                                                         *)
(* The file map_koord.txt in the maps directory names the maps.  The       *)
(* program keeps them in a list in memory, reads the file again when its   *)
(* time stamp changes, and writes the list over it when a map is           *)
(* downloaded or imported.  Other programs (gpsfetchmap.pl) add to the     *)
(* file meanwhile.  While a map is cut out of the NASA pictures the main   *)
(* loop runs, and an unfinished entry stands in the list; the question     *)
(* whether to overwrite a map runs one as well, and of two such loops the  *)
(* one that was entered last is left first.                                *)
(***************************************************************************)
EXTENDS Integers, SequencesExt

CONSTANTS
    Maps,          \* names of maps
    Nasa,          \* top_NASA_IMAGE.ppm
    NoFile,        \* nofile.sorry: the name that stands for no picture
    Unwritten,     \* the name in memory that was not written yet
    Dirs,          \* maps directories
    ReadOnly,      \* those the program cannot write to
    HomeDir,       \* the one it starts with
    NoMaps,        \* there is no file map_koord.txt
    HaveNasa,      \* the pictures of the NASA are installed
    SameSecond,    \* others may write in the second whose stamp is known
    MaxMaps,       \* bound: maps in a file or in the list
    MaxOpen,       \* bound: windows of the import, timers of setmapdir_cb
    MaxTime        \* bound: seconds

Names == Maps \cup {Nasa, NoFile, Unwritten}

ASSUME MapStoreAssumption ==
    /\ ReadOnly \subseteq Dirs /\ HomeDir \in Dirs \ ReadOnly
    /\ NoMaps \notin Seq(Names)
    /\ HaveNasa \in BOOLEAN /\ SameSecond \in BOOLEAN
    /\ MaxMaps \in Nat /\ MaxOpen \in Nat /\ MaxTime \in Nat

VARIABLES
    now,          \* seconds
    files,        \* map_koord.txt in each directory
    mtime,        \* and the time it was written
    pictures,     \* the maps whose picture is in a directory
    running,      \* the program runs
    dir,          \* local_config.dir_maps
    maps,         \* maps[0 .. nrmaps - 1]
    stamp,        \* maptxtstamp
    needreload,   \* needreloadmapconfig
    loading,      \* mapconfig_active
    later,        \* timers of setmapdir_cb that will call loadmapconfig
    asking,       \* mapdl_active, with the question whether to overwrite open
    wanted,       \* mapdl_file_w_path
    importing,    \* current.importactive
    imports,      \* windows of the import assistant
    cropping,     \* the place in maps of the NASA map being made, or 0
    inner         \* its loop was entered while the question was open

disk    == <<files, mtime>>
state   == <<stamp, needreload, loading, later>>
windows == <<asking, wanted, importing, imports>>
crop    == <<cropping, inner>>
vars    == <<now, disk, pictures, running, dir, maps, state, windows, crop>>

-----------------------------------------------------------------------------
\* What is in the file that loadmapconfig reads: it makes an empty one.
Contents(d) == IF files[d] = NoMaps THEN <<>> ELSE files[d]

CanLoad == ~loading /\ (files[dir] # NoMaps \/ dir \notin ReadOnly)

\* Slip: the maps that are read come behind those that were there.
LoadBehind ==
    IF CanLoad
    THEN /\ maps' = maps \o Contents(dir)
         /\ needreload' = FALSE
         /\ files' = [files EXCEPT ![dir] = Contents(dir)]
         /\ mtime' = [mtime EXCEPT ![dir] = IF files[dir] = NoMaps THEN now ELSE @]
         /\ UNCHANGED loading
    ELSE /\ loading' = TRUE
         /\ UNCHANGED <<maps, needreload, disk>>

\* loadmapconfig.  It gives up when it is at work already, and when there is no
\* file and none can be made: then it leaves its own guard set.
Load ==
    IF CanLoad
    THEN /\ maps' = Contents(dir)
         /\ needreload' = FALSE
         /\ files' = [files EXCEPT ![dir] = Contents(dir)]
         /\ mtime' = [mtime EXCEPT ![dir] = IF files[dir] = NoMaps THEN now ELSE @]
         /\ UNCHANGED loading
    ELSE /\ loading' = TRUE
         /\ UNCHANGED <<maps, needreload, disk>>

\* savemapconfig of the list ms; the program ends when the file cannot be
\* written.  Of a map there is its name only: its place, scale and bounding box
\* are left out.
Save(ms) ==
    IF dir \in ReadOnly
    THEN running' = FALSE /\ UNCHANGED disk
    ELSE /\ files' = [files EXCEPT ![dir] = ms]
         /\ mtime' = [mtime EXCEPT ![dir] = now]
         /\ UNCHANGED running

Init ==
    /\ now = 1
    /\ \E f \in {<<>>} \cup {<<n>> : n \in Maps} :
         /\ files = [d \in Dirs |-> IF d = HomeDir THEN f ELSE NoMaps]
         /\ maps = f
    /\ mtime = [d \in Dirs |-> 1]
    /\ pictures = [d \in Dirs |-> {}]
    /\ running = TRUE /\ dir = HomeDir
    /\ stamp = 0 /\ needreload = FALSE /\ loading = FALSE /\ later = 0
    /\ asking = FALSE /\ wanted \in Maps /\ importing = FALSE /\ imports = 0
    /\ cropping = 0 /\ inner = FALSE

-----------------------------------------------------------------------------
Tick ==
    /\ now < MaxTime
    /\ now' = now + 1
    /\ UNCHANGED <<disk, pictures, running, dir, maps, state, windows, crop>>

\* Another program adds a map to a file.
Append_koords(d, n) ==
    /\ Len(Contents(d)) < MaxMaps
    /\ SameSecond \/ now # stamp
    /\ files' = [files EXCEPT ![d] = Append(Contents(d), n)]
    /\ mtime' = [mtime EXCEPT ![d] = now]
    /\ UNCHANGED <<now, pictures, running, dir, maps, state, windows, crop>>

\* Slip: the change is forgotten when it is found during a download.
CheckAndReloadForgets(st) ==
    /\ running
    /\ files[dir] # NoMaps => st = mtime[dir]
    /\ IF needreload \/ st # stamp
       THEN /\ stamp' = st
            /\ IF asking THEN UNCHANGED <<maps, needreload, loading, disk>> ELSE Load
       ELSE UNCHANGED <<maps, needreload, loading, stamp, disk>>
    /\ UNCHANGED <<now, pictures, running, dir, later, windows, crop>>

\* map_koord_check_and_reload, called by the timer of masteragent_cb (not while
\* Mapnik draws the maps).  When there is no file, st is what the stack holds.
CheckAndReload(st) ==
    /\ running
    /\ files[dir] # NoMaps => st = mtime[dir]
    /\ IF (needreload \/ st # stamp) /\ ~asking
       THEN Load /\ stamp' = st
       ELSE /\ needreload' = (needreload \/ st # stamp)
            /\ UNCHANGED <<maps, loading, stamp, disk>>
    /\ UNCHANGED <<now, pictures, running, dir, later, windows, crop>>

\* setmapdir_cb.  The name that is chosen has no slash at its end and the one
\* it is compared with has: choosing the same directory is a change too.
SetMapDir(d) ==
    /\ running /\ ~asking
    /\ later < MaxOpen
    /\ dir' = d
    /\ needreload' = TRUE
    /\ later' = later + 1
    /\ UNCHANGED <<now, disk, pictures, running, maps, stamp, loading, windows, crop>>

\* loadmapconfig, two seconds later.
LoadLater ==
    /\ running /\ later > 0
    /\ later' = later - 1
    /\ Load
    /\ UNCHANGED <<now, pictures, running, dir, stamp, windows, crop>>

-----------------------------------------------------------------------------
\* Slip: the list in memory is taken without reading the file again.
DownloadUnread(n, ok) ==
    /\ asking' = FALSE
    /\ IF ok \/ n \in pictures[dir]
       THEN /\ Len(maps) < MaxMaps
            /\ maps' = Append(maps, n)
            /\ Save(maps')
            /\ UNCHANGED <<needreload, loading>>
            /\ pictures' = [pictures EXCEPT ![dir] = @ \cup {n}]
       ELSE UNCHANGED <<maps, needreload, loading, pictures, running, disk>>
    /\ UNCHANGED <<now, dir, stamp, later, importing, imports, crop>>

\* mapdl_download: the commands that fetch and join the tiles (ok) or fail; then
\* the map is added if its picture is there, which may be the one of before.
Download(n, ok) ==
    /\ asking' = FALSE
    /\ IF ok \/ n \in pictures[dir]
       THEN LET loaded == IF CanLoad THEN Contents(dir) ELSE maps
            IN  /\ Len(loaded) < MaxMaps
                /\ maps' = Append(loaded, n)
                /\ Save(maps')
                /\ needreload' = (needreload /\ ~CanLoad)
                /\ loading' = ~CanLoad
                /\ pictures' = [pictures EXCEPT ![dir] = @ \cup {n}]
       ELSE UNCHANGED <<maps, needreload, loading, pictures, running, disk>>
    /\ UNCHANGED <<now, dir, stamp, later, importing, imports, crop>>

\* mapdl_start_cb.  When the picture is there the user is asked first.
StartDownload(n, ok) ==
    /\ running /\ ~asking
    /\ ok => dir \notin ReadOnly
    /\ wanted' = n
    /\ IF n \in pictures[dir]
       THEN /\ asking' = TRUE
            /\ UNCHANGED <<now, disk, pictures, running, dir, maps, state, importing, imports, crop>>
       ELSE Download(n, ok)

\* The answer is "no".
KeepMap ==
    /\ running /\ asking /\ ~inner
    /\ asking' = FALSE
    /\ UNCHANGED <<now, disk, pictures, running, dir, maps, state, wanted, importing, imports, crop>>

\* The answer is "yes", or the question is closed.
OverwriteMap(ok) ==
    /\ running /\ asking /\ ~inner
    /\ ok => dir \notin ReadOnly
    /\ Download(wanted, ok)
    /\ UNCHANGED wanted

-----------------------------------------------------------------------------
\* import1_cb, for the first window and, from import2_cb, for the second, which
\* leaves the first one open.  Meanwhile no map is looked for.
OpenImport ==
    /\ running /\ ~asking
    /\ imports < MaxOpen
    /\ imports' = imports + 1
    /\ importing' = TRUE
    /\ UNCHANGED <<now, disk, pictures, running, dir, maps, state, asking, wanted, crop>>

\* close_import_window_cb; or a window is finished and no file was chosen.
CloseImport ==
    /\ running /\ ~asking
    /\ imports > 0
    /\ imports' = imports - 1
    /\ importing' = FALSE
    /\ UNCHANGED <<now, disk, pictures, running, dir, maps, state, asking, wanted, crop>>

\* Slip: the map is put into the list and the file is not written.
ImportUnsaved(n) ==
    /\ running /\ ~asking
    /\ imports > 0 /\ Len(maps) < MaxMaps
    /\ imports' = imports - 1
    /\ importing' = FALSE
    /\ maps' = Append(maps, n)
    /\ UNCHANGED <<now, disk, pictures, running, dir, state, asking, wanted, crop>>

\* import3_cb, import_scale_cb: the list in memory is written over the file.
Import(n) ==
    /\ running /\ ~asking
    /\ imports > 0 /\ Len(maps) < MaxMaps
    /\ imports' = imports - 1
    /\ importing' = FALSE
    /\ maps' = Append(maps, n)
    /\ Save(maps')
    /\ UNCHANGED <<now, pictures, dir, state, asking, wanted, crop>>

-----------------------------------------------------------------------------
\* The loop that deletes NASA entries steps over what comes behind a deleted
\* one: of such entries in a row every second one stays.
WithoutNasa(ms) ==
    LET Row[i \in 0 .. Len(ms)] ==
          IF i = 0 \/ ms[i] # Nasa THEN 0 ELSE Row[i - 1] + 1
        First[i \in 0 .. Len(ms)] ==
          IF i = 0 THEN <<>>
          ELSE IF Row[i] % 2 = 1 THEN First[i - 1] ELSE Append(First[i - 1], ms[i])
    IN  First[Len(ms)]

\* test_and_load_newmap, create_nasa: an entry is made, and its name is written
\* when the picture is there; meanwhile the main loop runs.  Without a picture
\* the entry is for no file.
BeginNasa(ok) ==
    /\ HaveNasa
    /\ running /\ ~importing /\ cropping = 0
    /\ LET ms == WithoutNasa(maps)
       IN  /\ Len(ms) < MaxMaps
           /\ IF ok
              THEN maps' = Append(ms, Unwritten) /\ cropping' = Len(maps')
              ELSE maps' = Append(ms, NoFile) /\ UNCHANGED cropping
    /\ inner' = (ok /\ asking)
    /\ UNCHANGED <<now, disk, pictures, running, dir, state, windows>>

\* Or the first call, a test only, says that none can be made here: the pictures of that
\* side of the world are not installed.
SkipNasa ==
    /\ HaveNasa
    /\ running /\ ~importing /\ cropping = 0
    /\ maps' = WithoutNasa(maps)
    /\ UNCHANGED <<now, disk, pictures, running, dir, state, windows, crop>>

\* The rest of create_nasa: the entry is at the place where it was made.
EndNasa ==
    /\ running /\ (asking => inner)
    /\ cropping # 0
    /\ maps' = [i \in DOMAIN maps |-> IF i = cropping THEN Nasa ELSE maps[i]]
    /\ cropping' = 0 /\ inner' = FALSE
    /\ UNCHANGED <<now, disk, pictures, running, dir, state, windows>>

\* The program ends in the middle of savemapconfig, which empties the file and then writes
\* a line for every map: k lines of the list ms are there.
SaveCrashes(ms, k) ==
    /\ dir \notin ReadOnly /\ k \in 0 .. Len(ms)
    /\ files' = [files EXCEPT ![dir] = SubSeq(ms, 1, k)]
    /\ mtime' = [mtime EXCEPT ![dir] = now]
    /\ running' = FALSE

\* In the middle of an import or of a download, whose map n has been fetched.
CrashInSave(n, k) ==
    /\ running
    /\ \/ /\ ~asking /\ imports > 0 /\ Len(maps) < MaxMaps
          /\ SaveCrashes(Append(maps, n), k)
          /\ UNCHANGED pictures
       \/ /\ asking => (~inner /\ n = wanted)
          /\ CanLoad /\ Len(Contents(dir)) < MaxMaps
          /\ SaveCrashes(Append(Contents(dir), n), k)
          /\ pictures' = [pictures EXCEPT ![dir] = @ \cup {n}]
    /\ UNCHANGED <<now, dir, maps, state, windows, crop>>

\* The program ends, by itself or otherwise, and is started: main, with the
\* directory that the configuration names.  A file that is missing is copied
\* from the system's.
Restart(d) ==
    /\ files[d] # NoMaps \/ d \notin ReadOnly
    /\ running' = TRUE
    /\ dir' = d
    /\ maps' = Contents(d)
    /\ files' = [files EXCEPT ![d] = Contents(d)]
    /\ mtime' = [mtime EXCEPT ![d] = IF files[d] = NoMaps THEN now ELSE @]
    /\ stamp' = 0 /\ needreload' = FALSE /\ loading' = FALSE /\ later' = 0
    /\ asking' = FALSE /\ importing' = FALSE /\ imports' = 0
    /\ cropping' = 0 /\ inner' = FALSE
    /\ UNCHANGED <<now, pictures, wanted>>

Next ==
    \/ Tick
    \/ \E d \in Dirs, n \in Maps : Append_koords(d, n)
    \/ \E st \in 0 .. MaxTime : CheckAndReload(st)
    \/ LoadLater
    \/ \E d \in Dirs : SetMapDir(d) \/ Restart(d)
    \/ \E n \in Maps, ok \in BOOLEAN : StartDownload(n, ok)
    \/ KeepMap
    \/ \E ok \in BOOLEAN : OverwriteMap(ok)
    \/ OpenImport \/ CloseImport
    \/ \E n \in Maps : Import(n)
    \/ \E n \in Maps, k \in 0 .. MaxMaps : CrashInSave(n, k)
    \/ \E ok \in BOOLEAN : BeginNasa(ok)
    \/ SkipNasa \/ EndNasa

Spec == Init /\ [][Next]_vars

\* The timer of masteragent_cb goes on.
FairSpec == Spec /\ WF_vars(\E st \in 0 .. MaxTime : CheckAndReload(st))

-----------------------------------------------------------------------------
\* The list is that of the file.
Matches == maps = Contents(dir)

\* When nothing is to be read again the list has no map that the file has not,
\* other than those create_nasa makes: a map that a download or an import put
\* there is in the file as well.
NoPhantom ==
    (running /\ ~needreload /\ ~loading)
       => ToSet(maps) \ {Nasa, NoFile, Unwritten} \subseteq ToSet(Contents(dir))

\* A download never takes a map out of the file, though others write to it:
\* mapdl_download reads it before it writes.  (The import does not, a read that is
\* refused because one is at work does not help, and a crash while the file is
\* written loses maps.)
DownloadKeeps ==
    [][imports' = imports /\ ~loading /\ running'
         => \A d \in Dirs : files[d] # NoMaps => ToSet(files[d]) \subseteq ToSet(files'[d])]_vars

\* When the stamp that map_koord_check_and_reload compares is that of the file
\* and nothing is to be read again, the list is that of the file: what others
\* wrote is never overlooked, whatever directory was chosen and whatever was
\* downloaded or imported.  (While no NASA maps are made, and others do not
\* write within the second of the stamp.)
InSync ==
    (running /\ ~needreload /\ ~loading /\ stamp = mtime[dir] /\ files[dir] # NoMaps)
       => Matches

\* Again and again the list is that of the file, if from some time on the
\* program runs, no question is open and no read was given up.
Settles == <>[](running /\ ~loading /\ ~asking) => []<>Matches

\* "Check for changed map_koord.txt and reload if changed" (the comment in
\* map_koord_check_and_reload): a file that changed is read, unless the user
\* chooses another directory, lets a question stand or ends the program.
Reloads ==
    \A d \in Dirs :
       (running /\ dir = d /\ files[d] # NoMaps /\ stamp # mtime[d])
         ~> (Matches \/ asking \/ dir # d \/ ~running)

=============================================================================

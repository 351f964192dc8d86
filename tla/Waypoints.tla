------------------------------- MODULE Waypoints -------------------------------
(***************************************************************************)
(* Waypoints in way.txt (waypoint.c): the list in memory, the file that    *)
(* the user chose, and others who write to such files.  A timer of ten     *)
(* seconds reads the file when its time stamp is not the one remembered;   *)
(* every waypoint that is added writes the whole list over the file.       *)
(*                                                                         *)
(* A waypoint is a name and a comment.  Memory that was allocated and not  *)
(* written holds comments of its own, and so does an entry of which the    *)
(* file gives no comment.                                                  *)
(***************************************************************************)
EXTENDS Integers, Sequences

CONSTANTS
    Files, Names,
    NoComment, Comment,   \* what the user enters
    Garbage,              \* what new memory may hold
    Room,                 \* 1000: entries to begin with, and added at a time
    MaxLines,             \* bound: lines of a file
    MaxNow,               \* bound: seconds
    SameSecond            \* bound: FALSE when the user never changes to a file with the
                          \* time stamp of the one before

VARIABLES
    now,          \* the time in seconds
    files,        \* of each file its lines and its time stamp; 0 without a file
    wp_file,      \* local_config.wp_file
    waytxtstamp,
    wayp,         \* the entries allocated: none before the first load
    maxwp,
    use_database, \* local_config.use_database
    save_in_db,   \* current.save_in_db
    markwaypoint, \* the window to add a waypoint is shown; it keeps the others from input
    owned         \* history: what the user added to each file since others wrote to it

wayVars == <<now, files, wp_file, waytxtstamp, wayp, maxwp, use_database, save_in_db,
             markwaypoint, owned>>
window == <<use_database, save_in_db, markwaypoint>>
memory == <<waytxtstamp, wayp, maxwp>>

NamesIn(lines) == {lines[i][1] : i \in DOMAIN lines}

\* New memory.
Fresh(n) == UNION {[1 .. n -> {<<Garbage, c>>}] : c \in {NoComment, Garbage}}

WayInit ==
    /\ now = 1
    /\ files \in [Files -> {[lines |-> <<>>, mtime |-> 0],
                            [lines |-> <<>>, mtime |-> 1]}]
    /\ wp_file \in Files
    /\ waytxtstamp = 0 /\ wayp = <<>> /\ maxwp = 0
    /\ use_database \in BOOLEAN /\ save_in_db = TRUE /\ markwaypoint = FALSE
    /\ owned = [f \in Files |-> {}]

\* stat: without a file, the time stamp is what is on the stack.
Stamps(f) == IF files[f].mtime = 0 THEN 0 .. now ELSE {files[f].mtime}

\* Entries are added when the last one is in use.
Grown(n) == Room * (n \div Room + 1)

\* loadwaypoints, with the memory it begins with and the memory it adds.
LoadFrom(f, memory0, added) ==
    LET lines == files[f].lines
        old == memory0 \o SubSeq(added, 1, Grown(Len(lines)) - Len(memory0))
    IN /\ maxwp' = Len(lines)
       /\ wayp' = [i \in DOMAIN old |->
                      IF i > Len(lines) THEN old[i]
                      ELSE IF lines[i][2] = NoComment THEN <<lines[i][1], old[i][2]>>
                      ELSE lines[i]]

LoadWaypoints(f) ==
    \E new \in Fresh(Grown(MaxLines)) :
        LET memory0 == IF waytxtstamp = 0
                       THEN SubSeq(new, 1, IF wayp = <<>> THEN Room ELSE Len(wayp))
                       ELSE wayp
        IN \E stamp \in Stamps(f) :
              /\ waytxtstamp' = stamp
              /\ IF stamp = waytxtstamp THEN wayp' = memory0 /\ UNCHANGED maxwp
                 ELSE LoadFrom(f, memory0, new)

\* check_and_reload_way_txt, called by masteragent_cb
CheckAndReload ==
    /\ LoadWaypoints(wp_file)
    /\ UNCHANGED <<now, files, wp_file, window, owned>>

\* setwpfile_cb, setwpfilequick_cb
SetWpFile(f) ==
    /\ ~markwaypoint
    /\ f # wp_file
    /\ SameSecond \/ files[f].mtime \notin {0, waytxtstamp}
    /\ wp_file' = f
    /\ LoadWaypoints(f)
    /\ UNCHANGED <<now, files, window, owned>>

\* savewaypoints: the list is written over the file, when that can be opened.
Save(list) == files' = [files EXCEPT ![wp_file] = [lines |-> list, mtime |-> now]]

\* addwaypoint, into the list and the file.
AddToFile(w, comment) ==
    /\ wayp # <<>> /\ maxwp < MaxLines
    /\ w \notin UNION {NamesIn(files[f].lines) : f \in Files}
    /\ maxwp' = maxwp + 1
    /\ \E new \in Fresh(Room) :
          wayp' = [wayp EXCEPT ![maxwp'] = <<w, comment>>]
                      \o (IF maxwp' >= Len(wayp) THEN new ELSE <<>>)
    /\ \/ /\ Save(SubSeq(wayp', 1, maxwp'))
          /\ owned' = [owned EXCEPT ![wp_file] = @ \cup {w}]
       \/ UNCHANGED <<files, owned>>
    /\ UNCHANGED waytxtstamp

\* addwaypoint: with a data base, and when it is wanted there, it becomes a row (see
\* PoiStore).
Added(w, comment, in_db) ==
    /\ IF use_database /\ in_db THEN UNCHANGED <<files, owned, memory>>
       ELSE AddToFile(w, comment)
    /\ UNCHANGED <<now, wp_file, use_database, save_in_db>>

\* quickaddwaypoint, key P
QuickAdd(w) ==
    /\ ~markwaypoint
    /\ Added(w, Comment, use_database)
    /\ UNCHANGED markwaypoint

\* addwaypoint_cb: the window, which asks where to save when there is a data base.
OpenAdd ==
    /\ ~markwaypoint
    /\ markwaypoint' = TRUE
    /\ UNCHANGED <<now, files, wp_file, memory, use_database, save_in_db, owned>>

SaveIn ==
    /\ markwaypoint /\ use_database
    /\ save_in_db' = ~save_in_db
    /\ UNCHANGED <<now, files, wp_file, memory, use_database, markwaypoint, owned>>

\* addwaypoint_gtk_cb
ConfirmAdd(w, comment) ==
    /\ markwaypoint
    /\ Added(w, comment, save_in_db)
    /\ markwaypoint' = FALSE

\* addwaypointdestroy_cb
CancelAdd ==
    /\ markwaypoint
    /\ markwaypoint' = FALSE
    /\ UNCHANGED <<now, files, wp_file, memory, use_database, save_in_db, owned>>

\* Slip: the memory is there at once.
StartedWithRoom ==
    /\ waytxtstamp' = 0 /\ maxwp' = 0
    /\ wayp' = [i \in 1 .. Room |-> <<Garbage, NoComment>>]

\* The program starts, and reads nothing before the timer does.
Started == waytxtstamp' = 0 /\ wayp' = <<>> /\ maxwp' = 0

\* The program ends and starts again; it also ends when a waypoint is added before the
\* first load, for there is no memory yet.
RestartWay ==
    /\ Started
    /\ save_in_db' = TRUE /\ markwaypoint' = FALSE
    /\ UNCHANGED <<now, files, wp_file, use_database, owned>>

\* Another program takes a line out of a file, or adds one.
OthersWrite(f, lines) ==
    /\ files[f].mtime # 0
    /\ files' = [files EXCEPT ![f] = [lines |-> lines, mtime |-> now]]
    /\ owned' = [owned EXCEPT ![f] = {}]
    /\ UNCHANGED <<now, wp_file, memory, window>>

OthersEdit(f) ==
    LET lines == files[f].lines
    IN \/ lines # <<>> /\ OthersWrite(f, Tail(lines))
       \/ /\ Len(lines) < MaxLines
          /\ \E w \in Names \ UNION {NamesIn(files[g].lines) : g \in Files} :
                OthersWrite(f, Append(lines, <<w, NoComment>>))

Second ==
    /\ now < MaxNow
    /\ now' = now + 1
    /\ UNCHANGED <<files, wp_file, memory, window, owned>>

-----------------------------------------------------------------------------
\* What the user added to a file stays there while nobody else writes to it: the list is
\* written over the file by whatever adds to it, also after a restart, when the file was
\* not read yet, and after another file was chosen (waypoint.c:638, 708, settings.c:1024).
OwnKept == \A f \in Files : owned[f] \subseteq NamesIn(files[f].lines)

\* There is an entry for the next waypoint (waypoint.c:323, 760).
RoomForNext == wayp # <<>> => maxwp < Len(wayp)

\* A waypoint has the comment that it was given, if any.
CommentBelongs ==
    [][\A f \in Files :
          /\ NamesIn(files[f].lines) # {}
          /\ NamesIn(files[f].lines) \subseteq NamesIn(files'[f].lines)
          => \A i \in DOMAIN files[f].lines, j \in DOMAIN files'[f].lines :
                files[f].lines[i][1] = files'[f].lines[j][1]
                    => files[f].lines[i][2] = files'[f].lines[j][2]]_wayVars

=============================================================================

# gpsdrive in TLA+

TLA+ modules about the C code of gpsdrive, a car navigation program with a
GTK 2 window, and of `friendsd`, the server through which its users see each
other.  The modules are checked with TLC on small instances, and the most
important invariants are proved with TLAPS for every value of the constants.
All paths are relative to the root of the repository; C files without a path are in
`src/src/`.

Contents: 1 the system, 2 what is hard in it, 3 the modules, 4 the runs,
5 the proofs, 6 what is only model-checked, 7 disagreements found,
8 what is left out, 9 what could come next.


## 1. The system

Two programs.

**`friendsd`** (`friendsd.c`) is one process with one UDP socket.  It keeps an
array of entries (positions, messages, its own name) and answers every
datagram with the whole array, one datagram per entry.

**`gpsdrive`** is one process with one GTK main loop.  Nearly everything it does
is a callback of that loop: timers, widgets, keys.  Callbacks do not preempt
each other, but there are *nested main loops* (modal dialogs, and
`while (gtk_events_pending ()) gtk_main_iteration ()` in `gpsnasamap.c` and
`gui.c`) in which other callbacks run while one is in the middle of its work;
there is one thread, which draws maps (`mapnik.cpp`); and there is
one signal handler (`gpsdrive.c:2135`).  State is global: `coords`, `current`,
`route`, `local_config`, and the arrays `maps`, `trackcoord`, `wayp`,
`poi_list`.  Parts interact through these variables and through files and data bases that
other programs write as well.

| component | state | operations | what makes it correct | modules |
|---|---|---|---|---|
| friends server (`friendsd.c`) | `list[]`, `listnum`, `messagecounter`, clock, place in its loops | receive POS, SND, ACK; drop old entries; reply | an id is in the table once; the table never overflows; it behaves as a board of notices; old entries go | `FriendsProtocol`, `FriendsServer`, `FriendsBoard` |
| friends client (`friends.c`, dialog in `splash.c`) | `messagenumber`, `messageack`, `sockfd`, the friends | send position or message every 15 s, poll, show, acknowledge | a message is sent until the server has it, shown to its addressee, confirmed only then | `FriendsNet` |
| track (`track.c`) | `trackcoord`, `track`, their limits, `old_trackcoordnr`, `incremental.sav`, a timer | store a point, draw, clear, grow, load, export, save | the incremental file is in order; one timer; nothing is written behind the arrays | `Track` |
| GPX files (`gpx.c`) | none of its own | read and write tracks, routes | what was read replaces track or route as a whole | `Track`, `Routes` |
| routes (`routes.c`, `poi_gui.c`, `navigation*.c`) | `route_list_tree`, `route.items`, `.pointer`, `.active`, `.edit`, `.forcenext`, target, destination, two windows | edit, start, stop, discard, follow, compute, load | counters and flags agree with the list; the target is the point that is followed | `Routes` |
| map list (`map_handler.c`) with NASA maps (`gpsnasamap.c`) and what `map_download.c` and `import_map.c` do to it | `maps`, `map_koord.txt`, `maptxtstamp`, `needreloadmapconfig`, `mapdl_active`, `importactive` | load, save, compare stamps, change directory, download, import, make a NASA map | the list is the file; no map is lost | `MapStore` |
| settings and configuration file (`settings.c`, `gpsdrive_config.c`) | `local_config`, the file, the window's controls, a mark "to be saved", the timers of saving and of the night mode | read, write, one callback per value, keys that change values as well | what was set is shown, saved and found again | `Settings` |
| GPS (`gps_handler.c`) | connection to gpsd, its timer, simulation mode | connect, read, lose, reconnect by button, preference and signal | one connection, one timer; simulation steps in | `GpsHandler`, `Services` |
| speech (`speech.c`), battery (`battery.c`) | timer, counters, last announcements | announce, switch on and off | what is new is said once and is said | `Speech`, `Battery`, `Services` |
| points of interest (`poi.c`, `poi_gui.c`), data base (`database*.c`), kismet (`gpskismet.c`), waypoints (`waypoint.c`) | tables `poi`, `poi_extra`; `poi_list`, `poi_result`, `poi_nr`, `poi_limit`; a socket; `wayp`, `way.txt` | insert, update, clean up, search, select, delete; query for the view, draw; read lines; load, add, save | extras belong to their row; points fit into their buffers and belong to the section drawn; user's waypoints stay | `PoiStore`, `PoiView`, `Kismet`, `Waypoints`, `Poi` |
| display (`gpsdrive.c`, `map_handler.c`, `main_gui.c`, `import_map.c`, `mapnik.cpp`, `map_download.c`) | image, place, scale, zoom, shift, picture; `MapnikMap`; explored position; window to fetch maps | choose and load a map, follow the marker, zoom, resize, import; ask for, draw and cache a map; explore; choose what to fetch | the picture is that of image and place; the cache keeps what its names say; the marker is in view; the position returns; what is fetched is what is shown | `Mapnik`, `MapView`, `Explore`, `MapDownload`, `Display` |
| geometry (`geometry.c`, `gpsmisc.c`, `LatLong-UTMconversion.c`, `map_projection.c`) | none | floating-point conversions | - | - |
| `icons.c`, `screenshot.c`, `os_specific.c`, `draw_grid.c` | none | drawing, input and output | - | - |
| `lib_map/`, `util/`, `unit_test.c`, `scripts/`, `data/` | - | a library and viewers beside the program, tests, converters, pictures | - | - |

How they interact:

- Timers (`gpsdrive.c:2640-2675`, `main`): `storetrack_cb` adds track points,
  `masteragent_cb` (10 s) enlarges arrays, saves the configuration and looks for
  a changed `map_koord.txt`, `friendsagent_cb` (15 s) talks to the server,
  `drawmarker_cb` follows the route, looks for a better map and draws.
- Windows change the same state between any two timer calls, and hold copies of
  it (a button that says "stop", a saved target, an open question).
- Files are shared: `map_koord.txt` is also written by
  `scripts/gpsfetchmap.pl`, `way.txt` by the user.  The data base of points is written by the
  friends of a poll, by kismet, by waypoints and by routes.
- Client and server exchange datagrams that may be lost, repeated or late.


## 2. What is hard in it

- *State kept twice that is reset in one place only*: rows of the route and
  `route.items`; track points and `old_trackcoordnr`; timers and the variable
  that says whether there is one; the list of maps and the stamp of its file.
- *Long sequences of legal calls*: every callback may come between any two
  others, in states nobody wrote a test for.
- *Nested main loops*: a reload while an entry is unfinished; a poll in which a dialog is made;
  a change of mode in whose middle the map is drawn.
- *A thread without a lock*: the main loop and the drawing thread share one structure and two
  flags.
- *A signal* in the middle of a query, which closes the connection under it.
- *Arrays enlarged by somebody else*: `masteragent_cb` makes room for what
  `storepoint` will write.
- *Loops that delete from what they run over*: `friendsd.c:383`,
  `map_handler.c:384`.
- *Failure*: a file that cannot be written or made, a `sendto` that fails, a
  program that ends and starts again.
- *Others*: clients with wrong clocks, datagrams out of order, programs that
  write the same file.

`PROJECT.json` lists them under "hazards", each at its line and with the properties that would
show it go wrong.  Hazards that no property is about, because they lie in memory or in system
calls below the level of the modules, are in section 8.


## 3. The modules

### Friends server

`FriendsProtocol` has the entries, ids and datagrams both sides share.  An id is
a pair of a prefix (own, or a message number) and a suffix (the client's
number): the code writes `MSGnn` over the first five characters of an id and
compares what begins at the sixth.  `TwoDigits` is the first number with one
digit more than the format has room for (100 in the code): from there on the
suffix is shifted.

`FriendsServer` is `dg_echo` and `main`.  The C function has one endless loop; the
model cuts it where it reads the clock, changes the table or calls the network:

| action | code |
|---|---|
| `ReceivePos`, `ReceiveSnd`, `ReceiveOwnAck`, `ReceiveAck`, `ReceiveOther` | a datagram is parsed and the table changed, `friendsd.c:197-380` |
| `ReceiveFails` | `recvfrom` fails, `199-206` |
| `Scan`, `ScanDone` | one iteration of the loop that drops old entries, `382-403` |
| `Reply`, `ReplyEnd`, `ReplyFails` | one `sendto`, `430-493` |
| `Restart` | the daemon is started again |

`FriendsBoard` is the abstract specification: a set of notices, one per id, that
are posted, confirmed, withdrawn, taken down or lost together.  It has no
slots, indices or program counter.  `FriendsServer!BoardSpec` is
`FriendsBoard!Spec` under the mapping "board = the set of entries, clock = now,
up = the process runs, capacity = slots - 1".

### Friends client and network

`FriendsNet` is `friends.c` and the dialog of `splash.c` for several clients, with the network and a server
whose table changes by the operators of `FriendsServer` (its loops are one step here).
`AgentText` and `AgentPosition` are `friendsagent_cb`: a text is sent under a new number each
time, on a new socket, until the line that is waited for is read (`Acknowledges`).  `PollMessage` and `PollRest`
are the poll of `drawmarker_cb`: a message for the user ends it, is shown and acknowledged on another new socket,
and the rest of the reply is lost.  `SendFails` is a socket that cannot be made or written to.
The network loses requests (`Lose`) and lines of replies (`Serve(c, FALSE)`), and reorders nothing, because
one datagram of a client is under way at a time.  `stored` and `shown` are history variables:
what the server ever had and what was ever shown.

### Track

`Track` is `track.c` with the timers and limits it depends on.  A point carries a
number which the program does not store, so that properties can tell points
apart.  One action per callback: `StoreTrack` (the timer; with
`do_incremental_save` and the line segments), `MasterAgent` (makes room),
`ViewChanged` (zoom: the segments are computed anew), `TrackClear`,
`GetTrackFile`, `GpxRead`, `TrackAutosave` (with or without clearing), `SaveGpx`,
`SetTrackInterval`, `ToggleSaveTrack`.  Sizes of arrays are constants with the
code's values in their comments.

### Routes

`Routes` is the route of the program with a data base.  `rows` is
`route_list_tree`; the counters and flags beside it are variables of their own,
which each action sets as its callback does and no more.  Two windows are state:
the route window (with what its button says) and the window to look up a point,
which saves the target.  The rigid variable `uses` is the set of the habits a user has
besides the plain use: behaviours of all kinds of users are in one specification, and a
property can say of which it speaks.

### MapStore

`MapStore` is the list of maps: `map_koord.txt` in several directories, the list in
memory, the stamp and the flags.  `Append_koords` is what `gpsfetchmap.pl` does to the file;
`CheckAndReload` is the timer; `SetMapDir` and `LoadLater` a change of directory and
the timer it starts; `StartDownload`, `KeepMap`, `OverwriteMap` a download with its
question; `OpenImport`, `CloseImport`, `Import` the assistant; `BeginNasa` and `EndNasa`
the two ends of the nested main loop in which a NASA map is made, `SkipNasa` the test that says none can be.  Of two nested
loops the inner one ends first (`inner`).  `CrashInSave` is a crash while the file is written:
it has been truncated, and a prefix of the lines is in it.  A map is its name.  `Load` and `Save`
are `loadmapconfig` and `savemapconfig` and part of every action whose code calls
them.

### Settings

`Settings` is `settings.c` with the keys, buttons and messages that change settings too, and
`gpsdrive_config.c`.  A setting has the name of its field; a value is a small number (off and on,
the entry of a list, a magnitude, an empty and some other text).  The pages of the window are
tables of the settings on them by the kind of control, and one operator per kind of callback
(`Toggle`, `Choose`, `Spin`, `Enter`) says what such a callback does.  Callbacks that do more have actions of their own:
`ShowFriends`, `SpinMaxsecs`, `SpinAutosave`, `SpinInterval`, `ChooseNight`, `NextMessage`,
`QuickWaypoint`.  `Lines` is the order in which `writeconfig` writes, `CrashInWrite(n)` leaves the first n of them, and
`ReadConfig` with `Default` is `readconfig`.  A behaviour chooses a group of settings at the start and follows these:
a setting alone, or those that a handler relates.  Nothing in the code lets settings of different groups touch each other.

### Services

`GpsHandler`, `Speech` and `Battery` are components without a specification of their own;
`Services` composes them, with `main` starting and ending them.  What the one calls in the other is in the joint
action: a query that changes the status calls `saygpsfix`, the battery is announced by speech,
speech looks at position and simulation.  A query (`gps_query_data`) is two steps,
because it waits up to two seconds between looking at the connection and reading from it, and connecting is two; `Usr2`,
the signal handler, may come between them.  A behaviour follows one part: the connection, the fix and what is said of
it, what is said of the destination, or the battery.

### Points of interest

`Poi` composes `PoiStore` (tables `poi` and `poi_extra`, with all who write them and the
window that searches, selects and deletes), `PoiView` (the list on the map, its filter, its timer, and the two buffers with
one counter and one limit), `Kismet` (the connection to its server; what was read of a line when it is lost; a `select` that fails) and
`Waypoints` (list and file, the timer that compares time stamps, the user's and others' additions).
SQLite gives a new row the number max(id) + 1, so a number comes back when the last row was deleted (`IsNext`); an
insertion that fails yields -1 (`Failed`), under which extras are then stored.  `Kismet` and `PoiStore` meet in
`ReadKismet`, where a line becomes a row.  A map may be imported meanwhile (`Import`): selecting a result is then something else
and leaves the delete button alone, which `unchecked` remembers.

### Display

`Display` composes four parts, of which a behaviour follows one:

- `Mapnik`: the main loop asks (`Ask`), takes (`Take`) and switches day and night, the thread renders in
  steps (`Work`: paint, give back, set place and scale, inform, open the file, write it), as the C++ code orders them without a lock.
  Files of the cache outlive the program (`RestartMapnik`), a file that was being written is torn.
- `MapView`: `Draw` is the whole tick of `drawmarker_cb` for map and picture: choice of the best map, loading, the world map,
  the plain map, mapnik's picture, shift until the marker is in view, and whether the picture is made
  anew (`iszoomed`).  `fits` says whether it was made of the present image, zoom and shift.  `Closer`, `IsBest` and `Factor` are the
  comparison of maps with its integers.
- `Explore`: the receiver's and the explored position, with the main loop running in the middle of the switch (`switching`).
- `MapDownload`: the window in which a map is chosen, with the variables beside its entries and boxes, and a second window.

### What else is in a module

Definitions whose comment begins with "Slip" are plausible mistakes in the code:
each has the parameters of the definition behind it, and a property of a run
fails when it takes that definition's place (`PROJECT.json`, "mutants").  They
show that the properties can fail.  No specification uses them.

`MC*` modules give the constants of TLC's instances; `*Proofs` modules hold the
theorems.  There is no action for what the program does not do to the modelled
state (drawing, formatting, logging).


## 4. The runs

All of them: `tlc -config X.cfg M`, two workers, under five minutes.

| cfg (module) | checks | instance | states |
|---|---|---|---|
| `FriendsServer` (MCFriendsServer) | `UniqueIds`, refinement `BoardSpec` | 2 clients, 4 slots, ages of 1 and 0 ticks, clock to 2, message number 1, 3 confirmations, client clocks right or 2 slow; symmetric in the clients | 1,072,619 |
| `FriendsServerLive` | liveness `OldLeaves` | as above, clock to 1, 1 confirmation, slow clocks only, no symmetry | 25,268 |
| `FriendsNet` (MCFriendsNet) | `ForgottenIsStored`, `ConfirmedIsShown`, `AnswersArePolled`, liveness `MessagesAreShown` | one client that writes and one that reads, 2 texts, 2 numbers, 5 slots, 2 confirmations | 273,782 |
| `Track` (MCTrack) | `IncrementalOrdered`, `OneTimer`, `PointsFit`, `DrawnComplete` | 2 places, saves at every second point, room for 4, 5 points, 2 minutes, files of no and of 4 points, GPX files of no and of 2, writes may fail | 2,759,472 |
| `Routes` (MCRoutes) | `SaveSafe`, `EditInWindow`, `TargetIsPoint`, `DestinationIsEnd` | 2 places, routes of up to 3 points, all sets of habits, files with no and with 2 points | 831,348 |
| `MapStore` (MCMapStore) | `NoPhantom`, action property `DownloadKeeps` | 2 maps, 2 directories (one not writable), lists of up to 2, 1 window, clock 1 to 2, NASA maps, writes within a second; symmetric in the maps | 3,382,362 |
| `MapStoreSync` | `InSync`, liveness `Settles` | 1 map, 2 directories, lists of up to 2, clock 1 to 3, no NASA maps | 126,456 |
| `Settings` (MCSettings) | `NothingToLose`, `ShownIsSet`, `AutosaveArmed`, action property `Restored`, liveness `NightFollows` | every setting; the groups that a handler relates; the file as a set of lines | 49,702 |
| `Services` (MCServices) | `OneReader`, `SimulatesWithout`, `LevelKnown`, liveness `Announced` | 2 timers, 2 talkers, levels of 0, 10, 11, 20, 21, 95, 110 % | 164,624 |
| `Poi` (MCPoi) | `ExtrasBelong`, `DrawnBelongs`, `ListFits`, `OwnKept`, action property `DeletesChosen`, liveness `Reconnects` | one friend, network, waypoint and route point, 2 ids, 2 results, 2 sections, buffers of 1 and 2, 5 points, 2 files of 2 lines | 574,908 |
| `Display` (MCDisplay) | `CacheTrue`, `PictureFits`, `MarkerInView`, `FetchFits`, liveness `WantedIsRendered`, `PositionReturns` | 3 tiles, one thread by day; 2 maps (one with a box), 1 import, world and plain map, images of 12 pixels, windows of 5 and 14, zoom 1 and 2; 2 positions; 3 sources, 2 windows | 525,169 |
| `MapFollows` (MCDisplay) | `MapFollows`, which is violated | as `Display` | section 7 |

Why the bounds are enough for what is asked:

- The server's table of 4 slots holds its own entry, two positions and one
  message, and overflows with the next: every branch of the loops is taken, with
  deletions at the front, in the middle and at the end.  Two clients are needed for a
  message, its reader and the confirmation; `TwoDigits = 1` makes the second
  confirmation one with a shifted suffix.
- `FriendsNet`: two texts let the answer to the first be taken for one to the second; two numbers let a
  text be sent again while the answer to the first try is under way; five slots hold server, two positions and two
  messages, and a third message overflows.
- Five track points with saves at every second point (`SaveEvery = 2`, that is, at
  lengths 1, 3, 5) let the array be saved, cleared or replaced and saved again;
  `Start = Chunk = 4`, `Margin = 1` make both arrays grow, by the timer and, for a track file, while it is read.
- Three points of a route make a first, a middle and a last one, and allow a
  new route of two points behind the rows of an old one.
- Two maps tell a map that others added from the one that is downloaded.  A clock of two
  values makes a stamp older than a file.  `MapStoreSync` has three values, because
  a stamp that is kept across two directories and a change behind it needs them.
- `Settings`: the values of a number are none, a small one, the cap and more than the cap, those of a text the empty one,
  the placeholder and another: these are what the handlers tell apart.
- `Services`: a second timer is what could be one too many.  The levels lie on both sides of a decade, at the
  end of the scale and above it (which the kernel reports of old batteries); speech's counter has its real limit.
- `Poi`: two ids let the last one be deleted and used again while the other stays; two results let a point of OpenStreetMap and
  the user's row of the same number stand in one list, so that the number can come back behind a row that is still shown.  `Limit = 2`, `Grow = 1`, `ViewMax = 1`,
  `MaxPoints = 5` stand for 40000, 10000, 20000 and 99999: the limit is met, passed, and grown twice.  Two sections
  and two files are one that was left and one that is entered.
- `Display`: three tiles are one that is drawn, one asked for meanwhile, and one near the first, whose picture
  is used for it.  Two maps overlap at one of two positions, which the box of the smaller one reaches and the margin of its picture would not; with the file of
  the larger one missing there is a position without a map.
  A window of 5 in an image of 12 makes the shift stop at the image's end; in one of 14, larger than the image, the two limits
  of the shift cross and the second one wins, unless the zoom enlarges the image.

Fairness.

- `FriendsServer!FairSpec`: the process runs (weak fairness of the steps
  it takes by itself), and datagrams keep coming (strong fairness of `Receive`,
  because `recvfrom` may fail in between: every client sends one every 15
  seconds, `gpsdrive.c:2667`).
- `FriendsNet!FairSpec`, for clients that only read: their agent sends a datagram now and then although sockets may fail; some
  positions and some acknowledgements arrive and are answered whole; and of such answers not every one is missed by
  the seven polls between two calls of the agent (strong fairness of `Asks`, `Answers`, `PollWhole`).
- `MapStore!FairSpec`: the timer of `masteragent_cb`
  goes on (`gpsdrive.c:2655`, the callback returns TRUE).  `Settles` says what else it needs
  as its premise: from some time on the program runs, no question is open and no
  read was given up.
- `Settings!SettingsFairSpec`: the timer of the night mode (20 minutes) and the one that saves (10 seconds).
- `Services!FairSpec`: the timer that queries and the poll within it, a connection attempt that ends, and the timer of speech (strong, because
  it waits while something is still spoken).
- `Poi!FairSpec`: the map is drawn, which reads kismet (a map is not imported for ever), and time passes.
- `Display!Spec`: the map is drawn; the thread wakes up; the receiver reports; and a nested main loop ends.

Nothing is assumed of users, other programs, the network beyond the above, or restarts.

Deadlock is checked in all runs.


## 5. The proofs

`tlapm X.tla`; no statement is taken on trust.  The assumptions are those of the
modules' `ASSUME`s: constants are numbers and sets of the
kind the code has, nothing more.  Bounds of the runs are constants as well, so a theorem holds for each of them.

**FriendsServerProofs** (any number of clients, slots, message numbers, ages, clocks)

- `TypeCorrect`: `Spec => []TypeOK`, with `Len(list) < MAXLISTENTRIES`.
- `IdsStayUnique`: `Spec => []UniqueIds`.
- `ServerImplementsBoard`: `Spec => BoardSpec`.

`UniqueIds` is not inductive: that a confirmation's id is new rests on the counter,
and that it cannot be a client's on the shape of ids.  The inductive invariant adds
`ServerIds` (ids which are no client's carry a number the counter has passed), `Numbered`
(only messages have numbers in their ids) and `ScanIndex`.  The refinement uses it
step by step: each action maps to one action of the board or to a stutter.

**FriendsNetProofs** (any number of clients, slots, texts and tries)

- `RepliesAreRead`: `Spec => []AnswersArePolled`.  Inductive as it stands once sending is known to set the flag.
- `TextsAreNotLost`: `Spec => []ForgottenIsStored`.  The invariant follows a number from the client to the table and
  back: each number is used for one try, whatever carries the number that is waited for (datagram, entry or line of a reply)
  carries the text that waits, and an entry's text was stored.
- `ConfirmationsAreTrue`: `MaxCounter <= TwoDigits /\ Spec => []ConfirmedIsShown`.  Under one number there is one addressee
  (`OneAddressee`); an acknowledgement under way, an entry that was read and a confirmation all go back to a message shown to him
  (`Acks`, `Rows`, `Tells`).  The hypothesis is needed: from the hundredth confirmation of one life of the server on, an
  id is shifted, and an acknowledgement of a confirmation counts as that of a message.

**TrackProofs**

- `LogInOrder`: `Spec => []IncrementalOrdered`.
- `NeverTwoTimers`: `Spec => []OneTimer`.
- `NoOpenSegmentDrawn`: `Spec => []DrawnComplete`.
- `PointsHaveRoom`: if GPX files are short (`GpxTracksShort`), `Spec => []PointsFit`.

`IncrementalOrdered` needs that the recorded points in memory ascend and none is younger
than `count` (`PointsAscend`), and that whatever lies behind `old_trackcoordnr` in memory
is younger than every point in the file (`LogBehind`): this is what survives clearing and
loading although `old_trackcoordnr` does not fit the array any more.

`PointsFit` needs `RoomLeft`: between two calls of `masteragent_cb` no more points come than the margin holds.  A track file is read
into an array that is enlarged as lines come (`RoomFor`, a recursive function of the number of points, `track.c:615`).  That it has room for twice the
points and the margin (`RoomForEnough`) is shown without induction over data: were there a number of points for which it does not, there would be
a least one (`LeastNumber`, from the well-foundedness of the naturals), and the one before it leads to a contradiction.  The hypothesis is
needed: nothing is enlarged for a GPX file (`gpx.c:481`, section 7).  `DrawnComplete` needs that only the last
segment may lack its end (`SegmentsEnd`), also of those that are computed anew.

**RoutesProofs**

- `TypeCorrect`: `Spec => []TypeOK`.
- `SavingIsSafe`: `Spec => []SaveSafe`.
- `EditingIsInWindow`: `Spec => []EditInWindow`.
- `PlainUseFollowsRoute`: `Spec => []TargetIsPoint` (the property speaks of users without other habits).
- `DestinationFollows`: `Spec => []DestinationIsEnd` (of users who remove no point).

`SaveSafe` needs that the list has at least as many rows as the counter says
(`items <= Len(rows)`; it may have more).  For `TargetIsPoint` the invariant adds
that the pointer stands below `items` while there are points, that it is 0 while an empty route is
edited, and which buttons may be pressed while the route is followed or edited.

**StorageProofs** (what is kept on the disk: `MapStore` and `Settings`)

- `NothingOverlooked`: without NASA maps, and if nobody writes in the second of the
  stamp, `Spec => []InSync`.  The invariant adds the domains of the
  variables and that no NASA map is being made.
- `DownloadsKeepMaps`: `Spec => DownloadKeeps`: of no step but
  the import, and a crash while the file is written, can a file lose a map.  It needs that files and list are sequences
  of names.
- `ListIsInFile`: `Spec => []NoPhantom`.  A list that was saved is in the
  file because the program ends when it cannot be written.

The last two hold with NASA maps as well.  The loop of `create_nasa` that deletes their entries is a recursive function (`WithoutNasa`);
that it leaves a list of entries that were there (`WithoutNasaNames`) is shown by the least number of turns for which it would not, and so is that the
recursion has a value at all (`TurnsExist`).  `NothingOverlooked` needs its hypotheses: an unfinished NASA entry is in the list and not in
the file, and what is written within the second of the stamp leaves the stamp as it was.

- `SettingsAreSaved`: `SettingsFairSpec => []NothingToLose`, for every group of settings and on every screen.
- `ControlsShowSettings`: `SettingsFairSpec => []ShownIsSet`.
- `TimerIsArmed`: `SettingsFairSpec => []AutosaveArmed`.
- `RestartFindsSettings`: where the screen does not choose the mode (`~SmallScreen`), `SettingsFairSpec => Restored`.

The four about settings rest on `SettingTypes`: every setting, and every line of the file, has a value that its kind of control can
give (`Values`), which is looked up once in each table of the window (`TheChecks`, `TheLists`, `TheNumbers`, `TheEntries`); from there on
the proofs speak of kinds and no longer of names.  `NothingToLose` needs one thing more: the file holds the
time zone only together with the wish to keep it (`ZoneFits`), also when its end is missing after a crash, because the wish is
written first (`ZoneFollows`).  `AutosaveArmed` needs that also while the window is open, when the timer may be off, it does
not run without an interval (`TimerFits`).  The hypothesis of the last is needed: on a small screen the mode is set after the file was read, so that
a file written in one mode may be read in the other, and the fonts are exchanged only once.

**ServicesProofs**

- `TimerPerConnection`: `Spec => []OneReader`.  The invariant `Link` says for each phase of a query and of connecting how many timers
  there are and whether there is a connection, as long as no signal came in between.
- `SimulationStepsIn`: `Spec => []SimulatesWithout`.  Every action that gives up a connection starts the simulation in the same step; the
  invariant adds which steps a phase may come from.
- `AnnouncedIsShown`: `Spec => []LevelKnown`.  By integer division alone: the decade last announced is that of the level.

**PoiProofs**

- `KnownOfItsOwn`: `FairSpec => []ExtrasBelong`.  Rows have ids of `Ids`, extras are of friends and networks and of their own rows
  (`TablesInv`); a new row takes a number that no row has, and every deletion and clean-up takes the extras with it.
- `SelectedIsDeleted`: `FairSpec => DeletesChosen`.  As long as there was no route no row goes but by the window, and as long as none of
  OpenStreetMap was selected during an import the button is off on such a row, so the selected number still names the selected row (`WindowInv`).
- `DrawnInSection`: `FairSpec => []DrawnBelongs`.
- `ListsFit`: `FairSpec => []ListFits`, of the list on the map and of the waypoints: there is room for the
  next waypoint (`RoomForNext`) because the array is always made of whole pieces of `Room` entries and enlarged when one piece is left full (`ListInv`).
- `OwnWaypointsStay`: where no two files have the same time stamp (`~SameSecond`), `FairSpec => []OwnKept`.  Every addition writes the list over
  the file; what the user has in that file is in the list too (`OwnInv`), and a file without a time stamp has nothing of the user.

**DisplayProofs**

- `FetchedIsShown`: `Spec => []FetchFits`.  The invariant adds that the server, once one is known, is that of the source.
- `CacheKeepsTiles`: `Spec => []CacheTrue`, for any set of threads of which one is started by day.  The
  invariant follows the one tile from the request through the thread to the file: while the thread is at work
  nobody changes what it draws (`Asked`), and it alone owns the picture (`Owns`).
- `PictureIsRight`: `Spec => []PictureFits`.  An invariant of the record `screen` (`Right`) that each operator of `Draw` keeps.
- `MarkerComesIntoView`: `Spec => []MarkerInView`, for every size of view (of 5 pixels or more: `ViewAssumption`) and of image, every scale,
  zoom and place, in integer arithmetic.  The shift is made in steps until the marker is inside the
  margin; that this loop ends inside it is shown by the least number of steps that do (`StepsReach`, `ShiftedIn`); then the two limits are
  applied one after the other, in the code's order (`FollowedIn`).


## 6. What is only model-checked

Every invariant and every action property of a passing run is a theorem.  TLC alone vouches for:

- Liveness (`OldLeaves`, `MessagesAreShown`, `Settles`, `NightFollows`, `Announced`, `Reconnects`, `WantedIsRendered`,
  `PositionReturns`): fairness and ENABLED are out of the prover's reach.
- What the hypotheses of a theorem exclude: NASA maps and writes within a second (`MapStore`, `InSync`), more than `TwoDigits` confirmations (`FriendsNet`), small screens (`Settings`), equal stamps (`Waypoints`), long GPX files (`Track`).
  Section 7 has what becomes of the property without them, or TLC checks it for small instances (`MapStore`).
- The violation: a trace on a small instance.


## 7. Disagreements found

The run `MapFollows` gives a property that restates a comment and is violated.
"we test if we have to load a new map because we are outside the currently loaded map" (`gpsdrive.c:592`); but
`load_best_map` compares the name of the chosen map with `oldfilename`, which the plain map sets to the name of the map that was shown
before (`map_handler.c:439`, `664`).  All maps switched off and on again around one tick: the chosen map has the remembered name and is not
loaded, although it can be.

Other properties are stated in the modules and do not hold.  Each is shown by giving its name to TLC in
place of the properties of the cfg (as PROPERTY where marked *), without its SYMMETRY.

| property | cfg | the code | the text |
|---|---|---|---|
| `ReplyFresh`* | FriendsServer | the loop that drops old entries steps over the entry behind a dropped one (`friendsd.c:383`) | "sort out entries older than MAXSEC seconds" (`friendsd.c:382`) |
| `ConfirmationToSender`* | FriendsServer | the addressee is taken from the wrong kind of entry (`friendsd.c:352`) | "send ack message to sender" (`friendsd.c:303`) |
| `OwnMessageDeleted`* | FriendsServer | from the hundredth confirmation on the server does not know its own messages (`friendsd.c:363`) | "its the ack for myself, delete from list" (`friendsd.c:329`) |
| `RecordingGoesOn` | Track | setting the interval removes the timer that stores points and adds none (`settings.c:791`) | "Time interval between Track Points" (`settings.c:2033`) |
| `ExportKeepsTrack` | Track | the track is cleared after a failed export, or the next export of the minute overwrites it (`track.c:503-519`) | "Export track data to gpx and then clear" (`track.c:545`) |
| `BreaksRespected` | Track | a break is bridged (`track.c:216`) | "Track Break" (`track.c:246`) |
| `CapturesEntireTrack`* | Track, with SaveEvery 3, Start and Chunk 8, MaxPoints 7, MaxMinute 0, WritesFail FALSE | clearing the track keeps `old_trackcoordnr` (`track.c:574`) | "this routine will capture the entire track up to that point" (`track.c:445`) |
| `SegmentsFit` | Track, with SaveEvery, Start, Chunk 3, MaxPoints 6, MaxMinute 0, WritesFail FALSE | a view is computed into an array that was sized for another (`track.c:271`, `gpsdrive.c:712`) | "called every time ... whenever there are more than 30000 points" (`track.c:558`) |
| `PointsFit` | Track, with a file of five points in `GpxFiles` | a GPX file is read without enlarging the array (`gpx.c:481`) | - |
| `RowExists`, `DiscardStops`, `StopStops`*, `EndIsLast`*, `ForceOnlyWhileRouting` | Routes | counters and flags of the route stay behind the list (`poi_gui.c:445-522`, `routes.c:1081`) | "Check to see if the next route point exists", "Discard Route", "Stop the Route Mode", "endpoint reached, stop routing", "Force next Route Point" |
| `Reloads`* | MapStoreSync, with ReadOnly {system}, MaxTime 2 | a failed read leaves its guard set, no file is read any more (`map_handler.c:283`) | "Check for changed map_koord.txt and reload if changed" (`map_handler.c:191`) |
| `NamedWhenShown` | Settings | the name can be emptied, or the placeholder kept, while the user is shown to others | "don't use the default name!" (tooltip) |
| `PointerMoves`, `SimulationYields` | Services | what a preference, a reconnection and a fix do to the simulation leaves it off when it was chosen, or on with a fix | tooltips of the modes On and Auto |
| `Usr2Restarts` | Services | the handler closes the connection in the middle of a query, and the timer is then counted twice or not at all (`gpsdrive.c:2138`) | "on a USR2 signal, re-start the GPS connection" |
| `NoDuplicate` | Poi | after a failed insertion a network is inserted again | "duplicate macaddr in database" (`gpskismet.c:160`) |
| `DeletesSelected`* | Poi | the number of the selected row may be another's (`poi_gui.c:321`): with a route, when the source of a point is not looked at (`371-389`); and without one, when a row of the user's was selected, which makes the button sensitive, and then, during an import, a point of OpenStreetMap, which leaves it so (`347-359`). The test at `322` is for those that mapnik found (`poi.c:385`) | "Delete selected entry" |
| `UserOff` | Poi | with only a data base chosen that is not there the list stays what it was (`poi.c:1236`) | "Show Points Of Interest found in user database" |
| `ResultsFit` | Poi | the index may be equal to the limit, one behind the end (`poi.c:1014`) | - |
| `SocketOrNone` | Poi | the socket is 0, standard input, when there is no data base and it is never set, and after a `select` that failed (`gpskismet.c:124`, `gpsdrive.c:1004`) | "Kismet socket, -1 if not available" (`gpsdrive.h:345`) |
| `Reconnected`* | Poi | a socket of 0 is not below 0: after a `select` that failed, as when a signal interrupts it, no connection is tried any more while the standard input is open (`gpskismet.c:98`, `124`) | "If Kismet server connection failed, Try to reconnect" (`gpskismet.c:94`) |
| `CommentBelongs`* | Poi | an entry without a comment keeps what lay in its memory (`waypoint.c:733`) | - |
| `WindowFollows`, `ZoomOffered` | Display | closing one of two windows makes the other deaf; a source with fewer scales keeps the zoom of the one before (`map_download.c:582`) | "Select coordinates and scale" (`map_download.c:1223`) |
| `TrackTrue`* | Display | a point is stored with the explored position while the mode is switched (`gpsdrive.c:1818`) | "we have no valid position" (`track.c:163`) |

Two properties that a run checks stop holding with other constants: `OwnKept` with `SameSecond = TRUE` (two waypoint files
with equal time stamps: the list of the first is written over the second), and `CacheTrue` under `NightSpec` with two threads (the day's and the
night's draw into one structure, `gui.c:486`).

Met while modelling and not stated as a property:

- *Map list*: `savemapconfig` does not write the bounding
  boxes that `loadmapconfig` reads; the result of `stat` is not looked at (`map_handler.c:194`);
  a step-1 window of the import assistant stays open when step 2 is finished and can be used again;
  while a NASA map is made a reload moves the entries, and the name of another map is overwritten;
  an import writes the list over what others added to the file.
- *Friends*: a text that is sent again because the answer was lost has a second number, and the server and its addressee take it
  for another message: it is shown twice.
- *Mapnik*: a cache file that was torn by a crash exists, so it is taken for the picture at every start and never drawn again
  (`mapnik.cpp:100`); `CacheTrue` allows it.
- *Jump* (`select_jump_poi_cb`): the place is put into the position that is drawn, and the explored position is taken from there
  after the mode was switched, with the main loop running in between: a fix that comes then is where the map goes.
- *Download*: the stored scale is never restored when the window is opened.
- *Waypoints*: there is no array until the first tick of the timer (10 s), so a waypoint given as start position on the command line
  is never found (`gpsdrive.c:2524`); what others add between a load and the next save is lost.
- *Receiver*: the status is never set back to "no fix" by a report without one, and a daemon that dies without closing is not noticed.
- *Kismet*: the first line of a new connection is lost with the remainder of the old one.


## 8. What is left out, and why

- In the modelled parts: text and layout of datagrams and files, the position of bytes in
  memory, drawing, floating-point geometry (a place is a model value or lies on a line, "reached" is an input),
  the XML of GPX files, what a search compares.  Two callbacks
  are one action each unless a nested main loop or a system call that can fail lies inside.
- Memory errors are modelled where their outcome can be named: uninitialised names, comments and stamps
  are any value, rows that do not exist leave the target
  alone, a picture that was given back is a torn one.  Writes before or behind arrays are stated as bounds (`PointsFit`, `SegmentsFit`,
  `ListFits`, `ResultsFit`) and not followed further.
- Hazards below the level of the modules, therefore in no property: the byte before the buffer for an empty datagram (`friendsd.c:428`); a friend
  looked up behind the array (`friends.c:471`); the test before the first point of a computed route (`navigation.c:175`); two
  descriptors that stay open with every load of the NASA maps (`gpsnasamap.c:144`); a GPX file that ends inside a point, which keeps the
  reader in its loop for ever (`gpx.c:651`); whether a
  timer whose callback returns nothing goes on (`gpsdrive.c:2657`: in `PoiView` it may end at any call); and the notice of a new map that
  is cleared after the copy (`map_handler.c:696`: the steps are in `Mapnik`, but the wrong picture may stay until the position leaves
  it, so there is nothing that holds).
- `FriendsNet`: one datagram of a client under way at a time, at most one line of a reply lost, numbers that do not wrap, one text at
  a time.  No window of this version opens the dialog that sends (`gpsdrive.c:2086`): the texts are those of clients that have it.
- `Routes` leaves out the older route over waypoints (`routes.c`, an array of 100): no window
  calls it any more.
- `Services`: the variant for a mobile device (`gps_handler.c:126-256`), signals while the program starts or ends, the fields of a report.
  Temperature and the other systems' batteries only read and draw.
- `Poi`: deletions do not fail, a callback is not cut by a crash, the PostGIS variant and the tables of types are left out; so are the
  drawing of waypoints, a blank in a name and a crash while `way.txt` is written.
- `Display`: PDA mode, the loop inside the warning, the projection for mapnik; an import begins while maps of the list are shown.
  In `MapView` a tile of mapnik is one of the place and scale shown, and asking for scale and centre and copying the picture
  (`map_handler.c:690-696`) are one step; the thread that may come in between is in `Mapnik`, which has no image to shift.  That a
  tile cannot be read (it was torn) is an outcome in `MapView` only where another map's file is missing as well.
  In `Explore` no map is imported, so that selecting a point never returns early (`poi_gui.c:347-359`); `PoiStore` has that.
  In `MapDownload` the question whether to overwrite is modal, the branch that shows progress is for kinds of server that no source has, and of a window
  beside the newest only its closing is modelled.
- Not modelled at all: geometry and projections (floating point), icons, grids, screenshots, `lib_map`, the viewers in `util`,
  `unit_test.c`, and all scripts but the line `gpsfetchmap.pl` appends.  They keep no state that others rely on,
  or compute what TLA+'s integers do not have.


## 9. What could come next

Every component with a state of its own is modelled.  What remains is of three kinds: the memory of the C program (arrays as
bytes, for the hazards of section 8), the arithmetic of projections, and compositions that would join what now are separate
specifications: `Explore` with `Track` (the position that is stored), `MapStore` with `MapView` (the list from which
a map is chosen) and `Waypoints` with `Settings` (the file that is chosen).

Theorems: what compositions of those specifications would promise, and a weaker promise than `InSync` that holds
with NASA maps.

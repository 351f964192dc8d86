---------------------------- MODULE ServicesProofs ----------------------------
(***************************************************************************)
(* Theorems about the services for every set of directions, capacities and *)
(* bounds: one timer reads one connection to gpsd, simulation steps in     *)
(* when there is none, and what was announced of the battery is what is    *)
(* shown.  Each follows from an invariant of one component, and the steps  *)
(* of the others leave its variables alone.                                *)
(***************************************************************************)
EXTENDS Services, TLAPS

-----------------------------------------------------------------------------
(* The connection.                                                         *)

HasConnection == gpsdata \in {"open", "dead"}

\* What the callbacks between two steps of connecting or of a query rely on, as long as
\* no signal came in between: no timer runs while connecting, and a connection that is
\* about to be read is there.
Link ==
    ~interrupted =>
        /\ phase \in {"idle", "waiting", "connecting"}
        /\ phase = "idle" => /\ timers = (IF HasConnection THEN 1 ELSE 0)
                             /\ known = HasConnection
        /\ phase = "waiting" => HasConnection /\ timers = 1 /\ known
        /\ phase = "connecting" => timers = 0 /\ ~known /\ gpsdata \in {"null", "closed"}

ReaderInv ==
    /\ daemon \in BOOLEAN /\ interrupted \in BOOLEAN
    /\ known \in BOOLEAN
    /\ phase = "crashed" => interrupted
    /\ running = "starting" => /\ gpsdata = "null" /\ timers = 0 /\ ~known
                               /\ phase = "idle" /\ ~interrupted
    /\ running = "main" => Link

LEMMA InitReader == Init => ReaderInv
BY DEF Init, Gps!GpsInit, ReaderInv

\* Where no timer ran, opening leaves one exactly if it succeeds.
LEMMA OpenedReader ==
    ASSUME daemon \in BOOLEAN, Gps!Opened(0)
    PROVE  /\ known' \in BOOLEAN
           /\ timers' = (IF HasConnection' THEN 1 ELSE 0) /\ known' = HasConnection'
BY DEF Gps!Opened, HasConnection

LEMMA StartReader == ReaderInv /\ Start => ReaderInv'
<1> SUFFICES ASSUME ReaderInv, Start PROVE ReaderInv'
  OBVIOUS
<1>1. Gps!Opened(0) /\ UNCHANGED <<daemon, receiver, phase, interrupted>>
  BY DEF Start, Gps!Connect, Gps!world, ReaderInv
<1>2. running' = "main" /\ phase' = "idle" /\ ~interrupted'
  BY <1>1 DEF Start, ReaderInv
<1> QED BY <1>1, <1>2, OpenedReader DEF ReaderInv, Link

\* The query waits for data only where there is a connection, and then reads from it.
LEMMA QueryReader == ReaderInv /\ (Query \/ Poll) => ReaderInv'
<1> SUFFICES ASSUME ReaderInv, Query \/ Poll PROVE ReaderInv'
  OBVIOUS
<1>1. /\ running = "main" /\ running' = "main"
      /\ UNCHANGED <<daemon, interrupted, gpsdata, timers, known>>
  BY DEF Query, Poll, Main, Gps!Query, Gps!Poll, main, Gps!world, Gps!link
<1>2. CASE interrupted
  BY <1>1, <1>2 DEF ReaderInv, Link
<1>3. CASE ~interrupted /\ Query
  <2>1. phase = "idle" /\ timers > 0
    BY <1>3 DEF Query, Gps!Query
  <2>2. HasConnection /\ timers = 1 /\ known
    BY <1>1, <1>3, <2>1 DEF ReaderInv, Link
  <2>3. phase' = "waiting"
    BY <1>3, <2>2 DEF Query, Gps!Query, HasConnection
  <2> QED BY <1>1, <2>2, <2>3 DEF ReaderInv, Link, HasConnection
<1>4. CASE ~interrupted /\ Poll
  <2>1. HasConnection /\ timers = 1 /\ known
    BY <1>1, <1>4 DEF Poll, Gps!Poll, ReaderInv, Link
  <2>2. phase' = "idle"
    BY <1>4, <2>1 DEF Poll, Gps!Poll, HasConnection
  <2> QED BY <1>1, <2>1, <2>2 DEF ReaderInv, Link, HasConnection
<1> QED BY <1>2, <1>3, <1>4 DEF ReaderInv

\* The button first removes the timer that is known and then opens; a signal does both.
LEMMA ConnectingReader == ReaderInv /\ Connecting => ReaderInv'
<1> SUFFICES ASSUME ReaderInv, Connecting PROVE ReaderInv'
  OBVIOUS
<1>1. running = "main" /\ running' = "main" /\ phase # "crashed" /\ daemon' = daemon
  BY DEF Connecting, Main, main, Gps!Reconnect, Gps!Reconnected, Gps!Usr2, Gps!world
<1>2. CASE Gps!Reconnect
  BY <1>1, <1>2 DEF Gps!Reconnect, Gps!Dropped, ReaderInv, Link, HasConnection
<1>3. CASE Gps!Reconnected
  <2>1. phase = "connecting" /\ phase' = "idle" /\ interrupted' = interrupted
    BY <1>3 DEF Gps!Reconnected
  <2>2. CASE interrupted
    BY <1>1, <1>3, <2>1, <2>2 DEF Gps!Reconnected, Gps!Opened, ReaderInv, Link
  <2>3. CASE ~interrupted
    <3>1. timers = 0
      BY <1>1, <2>1, <2>3 DEF ReaderInv, Link
    <3> QED BY <1>1, <1>3, <2>1, <2>3, <3>1, OpenedReader DEF Gps!Reconnected, ReaderInv, Link
  <2> QED BY <2>2, <2>3
<1>4. CASE Gps!Usr2
  <2>1. phase' = phase /\ interrupted' = (interrupted \/ phase # "idle")
    BY <1>4 DEF Gps!Usr2
  <2>2. CASE interrupted'
    BY <1>1, <1>4, <2>1, <2>2 DEF Gps!Usr2, Gps!Opened, ReaderInv, Link
  <2>3. CASE ~interrupted'
    <3>1. ~interrupted /\ phase = "idle" /\ phase' = "idle"
      BY <2>1, <2>3
    <3>2. timers = (IF HasConnection THEN 1 ELSE 0) /\ known = HasConnection
      BY <1>1, <3>1 DEF ReaderInv, Link
    <3>3. Gps!Dropped = (IF HasConnection THEN 1 ELSE 0)
      BY <3>2 DEF HasConnection, Gps!Dropped
    <3>4. timers - Gps!Dropped = 0
      BY <3>2, <3>3
    <3>5. Gps!Opened(0)
      BY <1>4, <3>4 DEF Gps!Usr2
    <3> QED BY <1>1, <2>1, <2>3, <3>1, <3>5, OpenedReader DEF ReaderInv, Link
  <2> QED BY <2>1, <2>2, <2>3 DEF ReaderInv
<1> QED BY <1>2, <1>3, <1>4 DEF Connecting

LEMMA SurroundingsReader == ReaderInv /\ Surroundings => ReaderInv'
<1> SUFFICES ASSUME ReaderInv, Surroundings PROVE ReaderInv'
  OBVIOUS
<1>1. UNCHANGED <<running, phase, timers, known, interrupted>>
  BY DEF Surroundings, main, Gps!DaemonStops, Gps!DaemonStarts, Gps!Reception, Gps!link
<1>2. daemon' \in BOOLEAN
  BY DEF Surroundings, ReaderInv, Gps!DaemonStops, Gps!DaemonStarts, Gps!Reception
<1>3. gpsdata' = gpsdata \/ (gpsdata = "open" /\ gpsdata' = "dead")
  BY DEF Surroundings, Gps!DaemonStops, Gps!DaemonStarts, Gps!Reception, Gps!link
<1> QED BY <1>1, <1>2, <1>3 DEF ReaderInv, Link, HasConnection

\* One step per action.
LEMMA NextReader == ReaderInv /\ [Next]_vars => ReaderInv'
<1> SUFFICES ASSUME ReaderInv, [Next]_vars PROVE ReaderInv'
  OBVIOUS
<1>1. ASSUME UNCHANGED <<daemon, interrupted, known, phase, running, gpsdata, timers>>
      PROVE  ReaderInv'
  BY <1>1 DEF ReaderInv, Link, HasConnection
<1>2. CASE UNCHANGED vars
  BY <1>1, <1>2 DEF vars, main, gpsVars
<1>3. CASE Quit
  BY <1>3 DEF Quit, Gps!Disconnect, Gps!world, ReaderInv
<1>4. CASE ChooseSimulation
  BY <1>1, <1>4 DEF ChooseSimulation, main, Gps!ChooseSimulation, Gps!world, Gps!link
<1>5. CASE Import \/ Talk \/ TalkerEnds \/ Switches \/ Refresh \/ PowerSupply
  BY <1>1, <1>5 DEF Import, Talk, TalkerEnds, Switches, Refresh, PowerSupply, main, gpsVars
<1> QED
  BY <1>2, <1>3, <1>4, <1>5, StartReader, QueryReader, ConnectingReader,
     SurroundingsReader DEF Next

\* One timer reads one connection, and none is read where there is none: for any bounds,
\* however often the daemon goes and the connection is renewed by the button and by
\* signals, as long as none of them comes in the middle of a query or of connecting.
THEOREM TimerPerConnection == Spec => []OneReader
<1>1. ReaderInv => OneReader
  BY DEF ReaderInv, Link, OneReader, InMain, HasConnection, Gps!NothingRead,
         Gps!OneReader, Gps!HasConnection
<1> QED BY <1>1, InitReader, NextReader, PTL DEF Spec

-----------------------------------------------------------------------------
(* The simulation.                                                         *)

\* Without a connection nothing was seen of a receiver since: choosing automatic
\* simulation looks at that and not at the connection.
SimulationInv ==
    /\ daemon \in BOOLEAN
    /\ running = "main" /\ gpsdata = "null"
        => ~seen /\ (preference = Gps!SimAuto => simmode)

LEMMA OpenedSimulation ==
    ASSUME daemon \in BOOLEAN, NEW n, Gps!Opened(n), UNCHANGED <<daemon, preference>>
    PROVE  SimulationInv'
BY DEF Gps!Opened, Gps!Simulated, SimulationInv

LEMMA NextSimulation == SimulationInv /\ [Next]_vars => SimulationInv'
<1> SUFFICES ASSUME SimulationInv, [Next]_vars PROVE SimulationInv'
  OBVIOUS
<1>1. ASSUME UNCHANGED <<daemon, running, gpsdata, seen, preference, simmode>>
      PROVE  SimulationInv'
  BY <1>1 DEF SimulationInv
<1>2. CASE UNCHANGED vars
  BY <1>1, <1>2 DEF vars, main, gpsVars
<1>3. CASE Start
  BY <1>3, OpenedSimulation DEF Start, Gps!Connect, Gps!world, SimulationInv
<1>4. CASE Quit
  BY <1>4 DEF Quit, Gps!Disconnect, Gps!world, SimulationInv
<1>5. CASE Query
  BY <1>1, <1>5 DEF Query, main, Gps!Query, Gps!world, Gps!link, Gps!fix
<1>6. CASE Poll
  BY <1>6 DEF Poll, main, Gps!Poll, Gps!HasData, Gps!world, Gps!link, SimulationInv
<1>7. CASE Connecting
  <2>1. CASE Gps!Reconnect
    BY <1>7, <2>1 DEF Connecting, main, Gps!Reconnect, Gps!world, Gps!fix, SimulationInv
  <2>2. CASE Gps!Reconnected
    BY <2>2, OpenedSimulation DEF Gps!Reconnected, Gps!world, SimulationInv
  <2>3. CASE Gps!Usr2
    BY <2>3, OpenedSimulation DEF Gps!Usr2, Gps!world, SimulationInv
  <2> QED BY <1>7, <2>1, <2>2, <2>3 DEF Connecting
<1>8. CASE ChooseSimulation
  <2>1. UNCHANGED <<daemon, running, gpsdata, seen>>
    BY <1>8 DEF ChooseSimulation, main, Gps!ChooseSimulation, Gps!world, Gps!link, Gps!fix
  <2>2. preference' = Gps!SimAuto => simmode' = ~seen
    BY <1>8 DEF ChooseSimulation, Gps!ChooseSimulation, Gps!SimAuto, Gps!SimOn, Gps!SimOff
  <2> QED BY <2>1, <2>2 DEF SimulationInv
<1>9. CASE Surroundings
  <2>1. UNCHANGED <<running, seen, preference, simmode>>
    BY <1>9 DEF Surroundings, main, Gps!DaemonStops, Gps!DaemonStarts, Gps!Reception, Gps!fix
  <2>2. daemon' \in BOOLEAN /\ (gpsdata' = "null" => gpsdata = "null")
    BY <1>9 DEF Surroundings, Gps!DaemonStops, Gps!DaemonStarts, Gps!Reception, Gps!link,
                SimulationInv
  <2> QED BY <2>1, <2>2 DEF SimulationInv
<1>10. CASE Import \/ Talk \/ TalkerEnds \/ Switches \/ Refresh \/ PowerSupply
  BY <1>1, <1>10 DEF Import, Talk, TalkerEnds, Switches, Refresh, PowerSupply, main, gpsVars
<1> QED BY <1>2, <1>3, <1>4, <1>5, <1>6, <1>7, <1>8, <1>9, <1>10 DEF Next

\* Whoever chose automatic simulation has it where there is no connection: for any
\* bounds, however it was lost and whatever was chosen in between.
THEOREM SimulationStepsIn == Spec => []SimulatesWithout
<1>1. Init => SimulationInv
  BY DEF Init, Gps!GpsInit, SimulationInv
<1>2. SimulationInv => SimulatesWithout
  BY DEF SimulationInv, SimulatesWithout, InMain, Gps!SimulatesWithout
<1> QED BY <1>1, <1>2, NextSimulation, PTL DEF Spec

-----------------------------------------------------------------------------
(* The battery.                                                            *)

\* What is remembered as announced is what was heard, unless nobody could hear it, and
\* it is what is shown to ten percent; before the first announcement neither is known.
AnnouncedInv ==
    /\ ~swallowed => announced = batlevel_old
    /\ refreshing /\ ~batloading /\ announced # Power!NotYet
          => Power!Decade(batlevel_old) = Power!Decade(batlevel)

LEMMA RefreshAnnounced == AnnouncedInv /\ Refresh => AnnouncedInv'
<1> SUFFICES ASSUME AnnouncedInv, Refresh PROVE AnnouncedInv'
  OBVIOUS
<1> DEFINE level == Power!Capped(Power!Measured)
           audible == Voice!Audible
<1>1. Power!Refresh(audible)
  BY DEF Refresh
<1>2. CASE ~present
  BY <1>1, <1>2 DEF Power!Refresh, AnnouncedInv
<1>3. CASE present
  <2>1. /\ refreshing /\ batlevel' = level /\ batloading' = plugged
        /\ Power!Announces(level, audible)
    BY <1>1, <1>3 DEF Power!Refresh
  <2> HIDE DEF level, audible
  <2>2. CASE Power!Decade(level) # Power!Decade(batlevel_old) /\ ~plugged
    BY <2>1, <2>2 DEF Power!Announces, AnnouncedInv
  <2>3. CASE plugged
    BY <2>1, <2>3 DEF Power!Announces, AnnouncedInv
  <2>4. CASE Power!Decade(level) = Power!Decade(batlevel_old) /\ ~plugged
    BY <2>1, <2>4 DEF Power!Announces, AnnouncedInv
  <2> QED BY <2>2, <2>3, <2>4
<1> QED BY <1>2, <1>3

\* Whoever heard every announcement knows the level that is shown: for any capacities,
\* however the battery was charged and discharged between two refreshes.
THEOREM AnnouncedIsShown == Spec => []LevelKnown
<1>1. Init => AnnouncedInv
  BY DEF Init, Power!BatteryInit, AnnouncedInv
<1>2. AnnouncedInv /\ [Next]_vars => AnnouncedInv'
  <2> SUFFICES ASSUME AnnouncedInv, [Next]_vars PROVE AnnouncedInv'
    OBVIOUS
  <2>1. ASSUME UNCHANGED <<refreshing, batlevel, batloading, batlevel_old, announced, swallowed>>
        PROVE  AnnouncedInv'
    BY <2>1 DEF AnnouncedInv, Power!Decade
  <2>2. CASE PowerSupply
    BY <2>1, <2>2 DEF PowerSupply, Power!Plug, Power!Unreadable, Power!Discharge
  <2>3. CASE UNCHANGED powerVars
    BY <2>1, <2>3 DEF powerVars
  <2> QED
    BY <2>2, <2>3, RefreshAnnounced
    DEF Next, vars, Start, Quit, Import, Query, Poll, Connecting, ChooseSimulation,
        Surroundings, Talk, TalkerEnds, Switches
<1>3. AnnouncedInv => LevelKnown
  BY DEF AnnouncedInv, LevelKnown, Power!LevelKnown
<1> QED BY <1>1, <1>2, <1>3, PTL DEF Spec

=============================================================================

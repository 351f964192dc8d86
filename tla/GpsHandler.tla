------------------------------ MODULE GpsHandler ------------------------------
(***************************************************************************)
(* The connection to gpsd (gps_handler.c) and the simulation mode that     *)
(* depends on it.  A query is two steps, because it waits for data up to   *)
(* two seconds between looking at the connection and reading from it, and  *)
(* so is connecting; SIGUSR2 is handled in the middle of either.           *)
(***************************************************************************)
EXTENDS Naturals

CONSTANTS
    None, Fix, Dgps,   \* the status of the receiver: GPS_NO_FIX, GPS_FIX, GPS_DGPS_FIX
    MaxTimers          \* bound: no signal reconnects when so many timers run

VARIABLES
    daemon,       \* whether gpsd answers
    receiver,     \* the status that it reports
    phase,        \* what the main thread is doing with gpsd
    gpsdata,      \* the connection: null, open, dead (gpsd went away), closed
    timers,       \* how many timers call gps_query_data_cb
    known,        \* whether gps_timeout_source is one of them
    interrupted,  \* whether a signal came in the middle of a query or of connecting
    preference,   \* local_config.simmode
    simmode,      \* current.simmode
    simulating,   \* whether the timer of simulated_pos runs
    gps_status,   \* current.gps_status
    seen          \* current.gps_mode is at least GPSMODE_2D

gpsVars == <<daemon, receiver, phase, gpsdata, timers, known, interrupted, preference,
             simmode, simulating, gps_status, seen>>

world == <<daemon, receiver>>
link == <<gpsdata, timers, known>>
fix == <<gps_status, seen>>

SimOff == "off"
SimOn == "on"
SimAuto == "auto"

GpsInit ==
    /\ daemon \in BOOLEAN
    /\ receiver = None
    /\ phase = "idle"
    /\ gpsdata = "null"
    /\ timers = 0
    /\ known = FALSE
    /\ interrupted = FALSE
    /\ preference \in {SimOff, SimOn, SimAuto}
    /\ simmode = (preference = SimOn)
    /\ simulating = FALSE
    /\ gps_status = None
    /\ seen = FALSE

-----------------------------------------------------------------------------
\* As Dropped, when the timer of the closed connection is left.
NothingDropped == 0

\* The timers that end when the connection is closed for another one.  The source is
\* removed by its number, which does nothing when that timer has gone already.
Dropped == IF gpsdata # "null" /\ known THEN 1 ELSE 0

\* As Simulated, when a failed connection leaves the simulation as it is.
SimulatedUnlessConnected == IF preference = SimAuto /\ daemon THEN FALSE ELSE simmode

Simulated == IF preference = SimAuto THEN ~daemon ELSE simmode

\* What gpsd_connect leaves behind, when n timers ran before it opened.
Opened(n) ==
    /\ gpsdata' = IF daemon THEN "open" ELSE "null"
    /\ timers' = IF daemon THEN n + 1 ELSE n
    /\ known' = daemon
    /\ simmode' = Simulated
    /\ seen' = (seen /\ daemon)

\* At the start of the program; the timer of the simulation is started here or never.
Connect ==
    /\ Opened(timers)
    /\ simulating' = simmode'
    /\ UNCHANGED <<world, phase, interrupted, preference, gps_status>>

\* The button in the settings.
Reconnect ==
    /\ phase = "idle"
    /\ phase' = "connecting"
    /\ timers' = timers - Dropped
    /\ known' = (known /\ gpsdata = "null")
    /\ gpsdata' = IF gpsdata = "null" THEN "null" ELSE "closed"
    /\ UNCHANGED <<world, interrupted, preference, simmode, simulating, fix>>

Reconnected ==
    /\ phase = "connecting"
    /\ phase' = "idle"
    /\ Opened(timers)
    /\ UNCHANGED <<world, interrupted, preference, simulating, gps_status>>

\* usr2handler, at whatever the main thread is doing.
Usr2 ==
    /\ phase # "crashed"
    /\ timers < MaxTimers
    /\ Opened(timers - Dropped)
    /\ interrupted' = (interrupted \/ phase # "idle")
    /\ UNCHANGED <<world, phase, preference, simulating, gps_status>>

\* gps_query_data_cb up to gps_waiting.
Query(importactive) ==
    /\ phase = "idle" /\ timers > 0 /\ ~importactive
    /\ phase' = IF gpsdata = "null" THEN "crashed" ELSE "waiting"
    /\ UNCHANGED <<world, link, interrupted, preference, simmode, simulating, fix>>

\* gps_hook_cb takes over the status, unless there is no fix.
HasData == gpsdata = "open" /\ receiver # None

Poll ==
    /\ phase = "waiting"
    /\ phase' = IF gpsdata = "null" THEN "crashed" ELSE "idle"
    /\ gps_status' = IF HasData THEN receiver ELSE gps_status
    /\ seen' = (seen \/ HasData)
    /\ UNCHANGED <<world, link, interrupted, preference, simmode, simulating>>

\* The button of the simulation in the settings.
ChooseSimulation(p) ==
    /\ phase = "idle"
    /\ preference' = p
    /\ simmode' = CASE p = SimAuto -> ~seen
                    [] p = SimOn -> TRUE
                    [] p = SimOff -> FALSE
    /\ UNCHANGED <<world, phase, link, interrupted, simulating, fix>>

\* A connection does not survive its daemon.
DaemonStops ==
    /\ daemon
    /\ daemon' = FALSE
    /\ gpsdata' = IF gpsdata = "open" THEN "dead" ELSE gpsdata
    /\ UNCHANGED <<receiver, phase, timers, known, interrupted, preference, simmode,
                   simulating, fix>>

DaemonStarts ==
    /\ ~daemon
    /\ daemon' = TRUE
    /\ UNCHANGED <<receiver, phase, link, interrupted, preference, simmode, simulating, fix>>

Reception(r) ==
    /\ receiver' = r
    /\ UNCHANGED <<daemon, phase, link, interrupted, preference, simmode, simulating, fix>>

\* gpsd_disconnect, when the main loop has ended: the timer is not removed, but never
\* called again.
Disconnect ==
    /\ phase = "idle"
    /\ gpsdata' = IF gpsdata = "null" THEN "null" ELSE "closed"
    /\ UNCHANGED <<world, phase, timers, known, interrupted, preference, simmode,
                   simulating, fix>>

-----------------------------------------------------------------------------
HasConnection == gpsdata \in {"open", "dead"}

\* Between the callbacks, exactly one timer reads an open connection, and none does when
\* there is none: as long as no signal comes in the middle of a query or of connecting,
\* however often the connection is lost, renewed by the button and by signals.
OneReader ==
    phase = "idle" /\ ~interrupted =>
        /\ timers = (IF HasConnection THEN 1 ELSE 0)
        /\ known = HasConnection

\* Only such a signal can take the connection from under a query.
NothingRead == phase = "crashed" => interrupted

\* Simulation is automatic "when no GPS is available" (tooltip of the button): without a
\* connection the position is simulated, however it was lost and whatever was chosen in
\* the settings in between.
SimulatesWithout ==
    preference = SimAuto /\ gpsdata = "null" /\ phase = "idle" => simmode

=============================================================================

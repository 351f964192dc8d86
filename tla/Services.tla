------------------------------- MODULE Services -------------------------------
(***************************************************************************)
(* The services around the main loop of the program: the connection to     *)
(* gpsd, the speech output and the battery display, as main() starts them, *)
(* the timers of the main loop call them and its end closes them.  The GPS *)
(* tells speech of every change of the status; speech looks at the status  *)
(* and at the simulation; the battery is announced by speech.              *)
(*                                                                         *)
(* A behaviour follows one of the services, with what it needs of the      *)
(* others; the rest stands still.                                          *)
(***************************************************************************)
EXTENDS Integers, FiniteSets

CONSTANTS Parts, None, Fix, Dgps, MaxTimers, Directions, MaxTalkers,
          Capacities, Full

VARIABLES
    part,         \* the service that is followed
    running,      \* "starting", "main" or "ended"
    importactive, \* current.importactive: a map is being imported
    daemon, receiver, phase, gpsdata, timers, known, interrupted, preference, simmode,
    simulating, gps_status, seen,
    have_speech, speech, mute, sounds, talkers, speechcount, oldangle, old_gps_status,
    spoken, heard,
    capacity, full, present, plugged, refreshing, batlevel, batloading, batlevel_old,
    announced, swallowed

Gps == INSTANCE GpsHandler
Voice == INSTANCE Speech
Power == INSTANCE Battery

gpsVars == <<daemon, receiver, phase, gpsdata, timers, known, interrupted, preference,
             simmode, simulating, gps_status, seen>>
switches == <<have_speech, speech, mute, sounds>>
turn == <<speechcount, oldangle, spoken>>
told == <<old_gps_status, heard>>
voiceVars == <<switches, talkers, turn, told>>
powerVars == <<capacity, full, present, plugged, refreshing, batlevel, batloading,
               batlevel_old, announced, swallowed>>
main == <<part, running, importactive>>
vars == <<main, gpsVars, voiceVars, powerVars>>

\* What is not followed starts in one way only.
Still ==
    /\ part # "gps" => daemon /\ preference # Gps!SimAuto
    /\ part \in {"fix", "battery"} => preference = Gps!SimOff
    /\ part # "voice" => have_speech
    /\ part = "gps" => ~speech /\ sounds # Voice!Sounds
    /\ part \in {"fix", "battery"} => sounds = Voice!Sounds
    /\ part # "battery" => ~present /\ ~plugged /\ capacity = 0 /\ full = Full

Init ==
    /\ part \in Parts
    /\ running = "starting"
    /\ importactive = FALSE
    /\ Gps!GpsInit /\ Voice!SpeechInit /\ Power!BatteryInit
    /\ Still

\* main() connects, and starts the timers.
Start ==
    /\ running = "starting"
    /\ running' = "main"
    /\ Gps!Connect
    /\ Voice!StartTalking
    /\ UNCHANGED <<part, importactive, powerVars>>

\* The main loop runs, for one of these services.
Main(p) == running = "main" /\ part \in p /\ phase # "crashed"

\* The end of main().
Quit ==
    /\ Main({"gps", "fix", "voice"})
    /\ running' = "ended"
    /\ Gps!Disconnect
    /\ UNCHANGED <<part, importactive, voiceVars, powerVars>>

Import ==
    /\ Main({"gps", "fix", "voice"})
    /\ importactive' = ~importactive
    /\ UNCHANGED <<part, running, gpsVars, voiceVars, powerVars>>

-----------------------------------------------------------------------------
(* The connection to gpsd.                                                 *)

Query ==
    /\ Main({"gps", "fix", "voice"})
    /\ Gps!Query(importactive)
    /\ UNCHANGED <<main, voiceVars, powerVars>>

\* The hook is called in the middle of reading.
Poll ==
    /\ Main({"gps", "fix", "voice"})
    /\ Gps!Poll
    /\ IF Gps!HasData THEN Voice!SayGpsfix(receiver) ELSE UNCHANGED told
    /\ UNCHANGED <<main, switches, talkers, turn, powerVars>>

Connecting ==
    /\ Main({"gps", "fix"})
    /\ Gps!Reconnect \/ Gps!Reconnected \/ (part = "gps" /\ Gps!Usr2)
    /\ UNCHANGED <<main, voiceVars, powerVars>>

ChooseSimulation ==
    /\ Main({"gps"})
    /\ \E p \in {Gps!SimOff, Gps!SimOn, Gps!SimAuto} : Gps!ChooseSimulation(p)
    /\ UNCHANGED <<main, voiceVars, powerVars>>

\* What the receiver does where it is followed; which fix it has matters to announcements.
Statuses == CASE part = "fix" -> {None, Fix, Dgps}
              [] part \in {"gps", "voice"} -> {None, Fix}
              [] part = "battery" -> {}

Surroundings ==
    /\ \/ part \in {"gps", "fix"} /\ (Gps!DaemonStops \/ Gps!DaemonStarts)
       \/ \E r \in Statuses \ {receiver} : Gps!Reception(r)
    /\ UNCHANGED <<main, voiceVars, powerVars>>

-----------------------------------------------------------------------------
(* Speech.                                                                 *)

\* There is something to speak of: a position, by the receiver or simulated.
Located == simmode \/ gps_status # None

Talk ==
    /\ Main({"voice"}) /\ phase = "idle"
    /\ \E angle \in Directions, near, fast \in BOOLEAN :
          Voice!Talk(Located, importactive, angle, near, fast)
    /\ UNCHANGED <<main, gpsVars, powerVars>>

TalkerEnds ==
    /\ Main({"voice"}) /\ phase = "idle"
    /\ Voice!TalkerEnds
    /\ UNCHANGED <<main, gpsVars, powerVars>>

Switches ==
    /\ Main({"fix", "voice", "battery"}) /\ phase = "idle"
    /\ \/ part # "battery" /\ Voice!ToggleSpeech
       \/ Voice!ToggleMute
       \/ part = "fix" /\ Voice!ToggleSound("gps")
    /\ UNCHANGED <<main, gpsVars, powerVars>>

-----------------------------------------------------------------------------
(* The battery.                                                            *)

Refresh ==
    /\ Main({"battery"})
    /\ Power!Refresh(Voice!Audible)
    /\ UNCHANGED <<main, gpsVars, voiceVars>>

PowerSupply ==
    /\ Main({"battery"})
    /\ Power!Plug \/ Power!Unreadable \/ \E n \in Capacities : Power!Discharge(n)
    /\ UNCHANGED <<main, gpsVars, voiceVars>>

-----------------------------------------------------------------------------
Next ==
    \/ Start \/ Quit \/ Import
    \/ Query \/ Poll \/ Connecting \/ ChooseSimulation \/ Surroundings
    \/ Talk \/ TalkerEnds \/ Switches
    \/ Refresh \/ PowerSupply

Spec == Init /\ [][Next]_vars

\* The timers of the main loop, which calls every timer that is due before it waits
\* again, and a connection attempt that comes to an end.
FairSpec == Spec /\ WF_vars(Query) /\ WF_vars(Poll) /\ SF_vars(Talk)
                 /\ WF_vars(Main({"gps", "fix"}) /\ Gps!Reconnected /\ UNCHANGED <<main, voiceVars, powerVars>>)

-----------------------------------------------------------------------------
InMain == running = "main"

\* See GpsHandler.
OneReader == Gps!NothingRead /\ (InMain => Gps!OneReader)
SimulatesWithout == InMain => Gps!SimulatesWithout

\* See Battery.
LevelKnown == Power!LevelKnown

Listening(s) == Voice!Audible /\ s \in sounds /\ ~importactive /\ Main({"fix"})

\* A new status of the receiver is announced, to a driver who wants to hear it, as long as
\* the connection lives: also one that came while speech was muted, while a map was
\* imported or before the connection was renewed.
Announceable(s) ==
    /\ gpsdata = "open" /\ receiver = s /\ Listening("gps")

FixIsHeard ==
    \A s \in {Fix, Dgps} : Announceable(s) /\ old_gps_status # s ~> (heard = s \/ ~Announceable(s))

\* Whoever has a position is told the distance to the destination again and again, however
\* long there was none, and speech was muted or a map imported, before.
Waiting == Located /\ Voice!Audible /\ "distance" \in sounds /\ ~importactive
           /\ Main({"voice"})

DistanceIsSaid == Waiting ~> ("distance" \in spoken \/ ~Waiting)

\* Both: what is new is heard by whoever has speech switched on, also when it was switched
\* off and on again before the timer noticed.
Announced == FixIsHeard /\ DistanceIsSaid

\* "the position pointer moves towards the selected target simulating a moving vehicle
\* always" (tooltip of the simulation mode On): who switches simulation on has a timer
\* that moves the pointer.
PointerMoves == InMain /\ preference = Gps!SimOn => simulating

\* "... simulating a moving vehicle, when no GPS is available" (tooltip of the simulation
\* mode Auto): with a fix nothing is simulated.
SimulationYields ==
    InMain /\ phase = "idle" /\ preference = Gps!SimAuto /\ gpsdata = "open" /\ seen
        => ~simmode

\* "on a USR2 signal, re-start the GPS connection" (comment of usr2handler): one timer
\* reads the new connection.
Usr2Restarts ==
    InMain /\ phase = "idle" => timers = (IF Gps!HasConnection THEN 1 ELSE 0)

=============================================================================

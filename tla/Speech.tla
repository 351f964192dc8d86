-------------------------------- MODULE Speech --------------------------------
(***************************************************************************)
(* Speech output (speech.c): what is said, when, and which timers say it.  *)
(* What is spoken is one of a few kinds of sentences.                      *)
(***************************************************************************)
EXTENDS Naturals

CONSTANTS
    None, Fix, Dgps,  \* the status of the receiver
    Directions,       \* where the destination can be, seen from the driver
    MaxTalkers        \* bound: speech is not enabled again when so many timers run

VARIABLES
    have_speech,    \* current.have_speech
    speech,         \* local_config.speech
    mute,           \* local_config.mute
    sounds,         \* the sentences that are wanted: local_config.sound_...
    talkers,        \* how many timers call speech_out_cb
    speechcount,
    oldangle,
    old_gps_status, \* of speech_say_gpsfix, None before its first call
    spoken,         \* what the last call of speech_out_cb said
    heard           \* the last status of the receiver that was spoken

switches == <<have_speech, speech, mute, sounds>>
turn == <<speechcount, oldangle, spoken>>
told == <<old_gps_status, heard>>

Sounds == {"gps", "direction", "distance", "speed"}

\* speech_saytext succeeds.
Audible == have_speech /\ speech /\ ~mute

\* speech_init: without a speech dispatcher the setting is switched off.
SpeechInit ==
    /\ have_speech \in BOOLEAN
    /\ speech \in {FALSE, have_speech}
    /\ mute \in BOOLEAN
    /\ sounds \in {Sounds, {"distance", "speed"}}
    /\ talkers = 0
    /\ speechcount = 0
    /\ oldangle = "none"
    /\ old_gps_status = "unknown"
    /\ spoken = {}
    /\ heard = "unknown"

-----------------------------------------------------------------------------
\* The start of the main loop.
StartTalking ==
    /\ talkers' = IF speech THEN 1 ELSE 0
    /\ UNCHANGED <<switches, turn, told>>

\* The end of gps_hook_cb and speech_say_gpsfix: a status is announced once, and when
\* it is, it counts as announced even where speech is switched off.
SayGpsfix(status) ==
    IF status # old_gps_status /\ ~mute /\ "gps" \in sounds
    THEN /\ old_gps_status' = status
         /\ heard' = IF Audible THEN status ELSE heard
    ELSE UNCHANGED told

\* The number of calls since the last turn began; beyond eleven all are the same.
Reset == 10
Counted == IF speechcount > Reset + 1 THEN Reset + 2 ELSE speechcount + 1

\* The turn ends where its last call has passed.
NextTurn(c) == IF c > Reset THEN 0 ELSE c

\* What is said in the c-th call of a turn.
SpokenTurn(c, angle, near, fast) ==
    {s \in sounds : \/ s = "direction" /\ (c = 1 \/ angle # oldangle)
                    \/ s = "speed" /\ c = 3 /\ fast
                    \/ s = "distance" /\ (c = 2 \/ (c = 7 /\ near))}

\* speech_out_cb.  Without a position it counts, but no turn ends.
Talk(located, importactive, angle, near, fast) ==
    /\ talkers > 0 /\ speech /\ ~mute /\ ~importactive
    /\ IF located
       THEN /\ spoken' = SpokenTurn(Counted, angle, near, fast)
            /\ oldangle' = angle
            /\ speechcount' = NextTurn(Counted)
       ELSE /\ spoken' = {s \in sounds : s = "gps" /\ Counted = 1}
            /\ speechcount' = Counted
            /\ UNCHANGED oldangle
    /\ UNCHANGED <<switches, talkers, told>>

\* A timer that finds speech switched off ends.
TalkerEnds ==
    /\ talkers > 0 /\ ~speech
    /\ talkers' = talkers - 1
    /\ UNCHANGED <<switches, turn, told>>

\* As ToggleSpeech, when the timer is taken to go on.
ToggleSpeechOnly ==
    /\ have_speech
    /\ speech' = ~speech
    /\ UNCHANGED <<have_speech, mute, sounds, talkers, turn, told>>

\* setspeechenable_cb: every time that speech is enabled another timer is started.
ToggleSpeech ==
    /\ have_speech
    /\ speech \/ talkers < MaxTalkers
    /\ speech' = ~speech
    /\ talkers' = IF speech' THEN talkers + 1 ELSE talkers
    /\ UNCHANGED <<have_speech, mute, sounds, turn, told>>

ToggleMute ==
    /\ mute' = ~mute
    /\ UNCHANGED <<have_speech, speech, sounds, talkers, turn, told>>

ToggleSound(s) ==
    /\ have_speech
    /\ sounds' = IF s \in sounds THEN sounds \ {s} ELSE sounds \cup {s}
    /\ UNCHANGED <<have_speech, speech, mute, talkers, turn, told>>

=============================================================================

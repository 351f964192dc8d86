-------------------------------- MODULE Battery -------------------------------
(***************************************************************************)
(* The battery display (battery.c): what is read from the kernel, what is  *)
(* shown, and the announcement of every ten percent.                       *)
(***************************************************************************)
EXTENDS Integers

CONSTANTS
    Capacities,  \* the remaining capacities that the kernel reports
    Full         \* the capacity of the full battery

VARIABLES
    capacity,      \* what the battery holds
    full,          \* its capacity, as far as the info file tells: 0 when it does not
    present,       \* whether there is a battery to read
    plugged,       \* whether it is charging
    refreshing,    \* whether the display is refreshed
    batlevel,
    batloading,
    batlevel_old,
    announced,     \* the last level that was spoken
    swallowed      \* whether an announcement was made when nobody could hear it

power == <<capacity, full, present, plugged>>

Highest == 99
NotYet == 125   \* batlevel_old at the start

\* The conversion of a quotient by zero to an integer is undefined; this is what the
\* processor answers.
Overflow == -2147483647 - 1

Capped(n) == IF n > Highest THEN Highest ELSE n

\* battery_get_values: an empty battery leaves the level as it was.
Measured ==
    IF capacity = 0 THEN batlevel
    ELSE IF full = 0 THEN Overflow
    ELSE (capacity * 100) \div full

\* C divides towards zero; one less than the smallest integer is the largest one.
Decade(n) == CASE n = Overflow -> 2147483647 \div 10
               [] n = 0 -> 0
               [] OTHER -> (n - 1) \div 10

\* At the start the display is only refreshed if there is a battery, and never in PDA
\* mode.
BatteryInit ==
    /\ capacity \in Capacities
    /\ full \in {0, Full}
    /\ present \in BOOLEAN
    /\ plugged \in BOOLEAN
    /\ refreshing \in {FALSE, present}
    /\ batlevel = IF capacity = 0 \/ ~present THEN NotYet ELSE
                  IF full = 0 THEN Overflow ELSE (capacity * 100) \div full
    /\ batloading = (present /\ plugged)
    /\ batlevel_old = NotYet
    /\ announced = NotYet
    /\ swallowed = FALSE

\* As Announces, when the level is remembered while it is charging.
AnnouncesAndForgets(level, audible) ==
    IF Decade(level) # Decade(batlevel_old)
    THEN /\ batlevel_old' = level
         /\ announced' = IF audible /\ ~plugged THEN level ELSE announced
         /\ swallowed' = (swallowed \/ ~audible)
    ELSE UNCHANGED <<batlevel_old, announced, swallowed>>

\* The level is remembered when it is announced, also when nobody hears it.
Announces(level, audible) ==
    IF Decade(level) # Decade(batlevel_old) /\ ~plugged
    THEN /\ batlevel_old' = level
         /\ announced' = IF audible THEN level ELSE announced
         /\ swallowed' = (swallowed \/ ~audible)
    ELSE UNCHANGED <<batlevel_old, announced, swallowed>>

\* expose_display_battery, by its timer; a display without a battery is never refreshed
\* again.
Refresh(audible) ==
    /\ refreshing
    /\ IF present
       THEN /\ batlevel' = Capped(Measured)
            /\ batloading' = plugged
            /\ Announces(Capped(Measured), audible)
            /\ UNCHANGED refreshing
       ELSE /\ refreshing' = FALSE
            /\ UNCHANGED <<batlevel, batloading, batlevel_old, announced, swallowed>>
    /\ UNCHANGED power

\* The battery, the cord and the files of the kernel.
Discharge(n) ==
    /\ present /\ n # capacity
    /\ n > capacity <=> plugged
    /\ capacity' = n
    /\ UNCHANGED <<full, present, plugged, refreshing, batlevel, batloading, batlevel_old,
                   announced, swallowed>>

Plug ==
    /\ present
    /\ plugged' = ~plugged
    /\ UNCHANGED <<capacity, full, present, refreshing, batlevel, batloading, batlevel_old,
                   announced, swallowed>>

Unreadable ==
    /\ present' = ~present
    /\ UNCHANGED <<capacity, full, plugged, refreshing, batlevel, batloading, batlevel_old,
                   announced, swallowed>>

-----------------------------------------------------------------------------
\* Whoever hears every announcement knows the level that is shown to ten percent whenever
\* the battery is not charging, also after it was charged, plugged and unplugged between
\* two refreshes.
LevelKnown ==
    refreshing /\ ~batloading /\ ~swallowed /\ announced # NotYet =>
        Decade(announced) = Decade(batlevel)

=============================================================================

-------------------------------- MODULE Explore --------------------------------
(***************************************************************************)
(* The position shown, coords.current, has two writers: the receiver, and  *)
(* the mode to explore the map, which keeps a position of its own.         *)
(* Drawing copies that one over the other while the mode is on; buttons,   *)
(* keys, clicks and the window to look up points set the one or the other. *)
(*                                                                         *)
(* Switching the mode lets the main loop run before it takes over the      *)
(* position (explore_cb, set_cursor_style): what is pending then is        *)
(* handled in between, the button being down already.                      *)
(***************************************************************************)
EXTENDS Integers

CONSTANTS Spots   \* positions

VARIABLES
    current,      \* coords.current_lat, coords.current_lon
    fix,          \* where the receiver is
    expmode,      \* gui_status.expmode
    exp,          \* coords.expmode_lat, coords.expmode_lon
    switching,    \* explore_cb waits for the main loop
    then,         \* the target that is set after it, Nowhere without
    target,       \* coords.target_lat, coords.target_lon
    lookup,       \* the window to look up points is shown
    savedTarget,  \* wp_saved_target_lat, wp_saved_target_lon
    savedExp,     \* wp_saved_expmode_lat, wp_saved_expmode_lon
    simmode,      \* current.simmode: no receiver, the position moves to the target
    stored        \* the point of the track stored last, Nowhere without

Nowhere == "nowhere"

modes == <<expmode, switching, then>>
window == <<lookup, savedTarget, savedExp>>
exploreVars == <<current, fix, exp, modes, target, window, simmode, stored>>

ExploreInit ==
    /\ current \in Spots /\ fix = current /\ exp \in Spots
    /\ expmode = FALSE /\ switching = FALSE /\ then = Nowhere
    /\ target = current
    /\ lookup = FALSE /\ savedTarget = target /\ savedExp = exp
    /\ simmode \in BOOLEAN
    /\ stored = Nowhere

-----------------------------------------------------------------------------
(* What the main loop does on its own, between the steps of explore_cb,    *)
(* too.                                                                    *)

\* Slip: the explored position is copied whatever the mode.
CopiesAlways == exp

Copied == IF expmode THEN exp ELSE current

\* drawmarker_cb, expose_cb: what is drawn is the explored position.
Redraw ==
    /\ current' = Copied
    /\ UNCHANGED <<fix, exp, modes, target, window, simmode, stored>>

\* gpsd_hook: the position is written whatever the mode.
Report(p) ==
    /\ ~simmode
    /\ fix' = p /\ current' = p
    /\ UNCHANGED <<exp, modes, target, window, simmode, stored>>

\* simulated_pos: from where current is, a step towards the target.
Simulate ==
    /\ simmode /\ current # target
    /\ current' = target /\ fix' = target
    /\ UNCHANGED <<exp, modes, target, window, simmode, stored>>

\* storetrack_cb, storepoint: not while exploring.
StoreTrack ==
    /\ ~expmode
    /\ stored' = current
    /\ UNCHANGED <<current, fix, exp, modes, target, window, simmode>>

\* The second half of explore_cb, and what its caller does after it.
Switched ==
    /\ switching
    /\ switching' = FALSE
    /\ exp' = current
    /\ target' = IF then = Nowhere THEN target ELSE then
    /\ then' = Nowhere
    /\ UNCHANGED <<current, fix, expmode, window, simmode, stored>>

-----------------------------------------------------------------------------
(* What the user does, while explore_cb does not wait.                     *)

\* The button is pressed, or set by the program: nothing happens when it is so already.
\* after is the target the caller sets then.
SetMode(on, after) ==
    /\ expmode' = on
    /\ IF on = expmode
       THEN /\ target' = (IF after = Nowhere THEN target ELSE after)
            /\ UNCHANGED <<switching, then>>
       ELSE switching' = TRUE /\ then' = after /\ UNCHANGED target

\* explore_bt, insensitive while points are looked up.
ExploreButton ==
    /\ ~switching /\ ~lookup
    /\ SetMode(~expmode, Nowhere)
    /\ UNCHANGED <<current, fix, exp, window, simmode, stored>>

\* key_press_cb: key E toggles the button (while points are looked up, too) ...
KeyE ==
    /\ ~switching
    /\ SetMode(~expmode, Nowhere)
    /\ UNCHANGED <<current, fix, exp, window, simmode, stored>>

\* ... and while the map is explored any key takes over the position shown, which the
\* arrows have moved to p.
Key(p) ==
    /\ ~switching /\ expmode
    /\ current' = p /\ exp' = p
    /\ UNCHANGED <<fix, modes, target, window, simmode, stored>>

\* mapclick_cb and minimapclick_cb, left button.
LeftClick(p) ==
    /\ ~switching /\ expmode
    /\ exp' = p
    /\ UNCHANGED <<current, fix, modes, target, window, simmode, stored>>

\* Middle button: the mode ends.
MiddleClick ==
    /\ ~switching
    /\ SetMode(FALSE, Nowhere)
    /\ UNCHANGED <<current, fix, exp, window, simmode, stored>>

\* Right button: the mode ends, and the place becomes the target.
RightClick(p) ==
    /\ ~switching
    /\ SetMode(FALSE, p)
    /\ UNCHANGED <<current, fix, exp, window, simmode, stored>>

\* show_poi_lookup_cb
OpenLookup ==
    /\ ~switching /\ ~lookup
    /\ lookup' = TRUE
    /\ savedTarget' = target
    /\ savedExp' = IF expmode THEN exp ELSE savedExp
    /\ UNCHANGED <<current, fix, exp, modes, target, simmode, stored>>

\* select_poi_cb, without a route (and no map is imported: it would return early).
SelectPoi(p) ==
    /\ ~switching /\ lookup
    /\ target' = p
    /\ exp' = IF expmode THEN p ELSE exp
    /\ UNCHANGED <<current, fix, modes, window, simmode, stored>>

\* close_poi_lookup_window_cb
CloseLookup ==
    /\ ~switching /\ lookup
    /\ lookup' = FALSE
    /\ target' = savedTarget
    /\ exp' = IF expmode THEN savedExp ELSE exp
    /\ UNCHANGED <<current, fix, modes, savedTarget, savedExp, simmode, stored>>

\* select_jump_poi_cb
Jump ==
    /\ ~switching /\ lookup
    /\ lookup' = FALSE
    /\ current' = target
    /\ SetMode(TRUE, Nowhere)
    /\ UNCHANGED <<fix, exp, savedTarget, savedExp, simmode, stored>>

\* select_target_poi_cb
SelectTarget ==
    /\ ~switching /\ lookup
    /\ lookup' = FALSE
    /\ SetMode(FALSE, Nowhere)
    /\ UNCHANGED <<current, fix, exp, savedTarget, savedExp, simmode, stored>>

ExploreNext ==
    \/ Redraw \/ Simulate \/ StoreTrack \/ Switched
    \/ ExploreButton \/ KeyE \/ MiddleClick
    \/ OpenLookup \/ CloseLookup \/ Jump \/ SelectTarget
    \/ \E p \in Spots :
          Report(p) \/ LeftClick(p) \/ RightClick(p) \/ SelectPoi(p) \/ Key(p)

-----------------------------------------------------------------------------
(* When the exploring has ended for good, the receiver's position is the   *)
(* one shown again, whatever was drawn in between (gpsdrive.c:585, 1561).  *)
PositionReturns == <>[](~expmode /\ ~simmode) => <>[](current = fix)

(* "we have no valid position" (track.c:163): what makes the program store *)
(* a break instead of a point of the track is that the map is explored or  *)
(* there is no fix.  No point is stored where the receiver was not.        *)
TrackTrue == [][StoreTrack => stored' = fix]_exploreVars

================================================================================

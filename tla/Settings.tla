------------------------------- MODULE Settings -------------------------------
(***************************************************************************)
(* The settings: local_config, the window that edits them (settings.c),    *)
(* the keys and buttons that change some of them behind its back, the      *)
(* configuration file (gpsdrive_config.c) and what a restart makes of it.  *)
(*                                                                         *)
(* A setting has the name of its field.  Its value is a small number: 0    *)
(* and 1 for what is on or off, the entry chosen from a list, a magnitude  *)
(* (0, small, the cap, beyond the cap), and for a text 0 is the empty one. *)
(* A behaviour follows the settings of one group, which it chooses at the  *)
(* start: settings of different groups do not touch each other.            *)
(***************************************************************************)
EXTENDS Naturals, Sequences

CONSTANTS
    Groups,     \* sets of settings that are followed together
    Absent,     \* the value of a line that is not in the file
    SmallScreen \* whether the screen makes the program choose PDA mode itself

ASSUME SettingsAssumption == Absent \notin 0 .. 3 /\ SmallScreen \in BOOLEAN

-----------------------------------------------------------------------------
(* The tabs of the window, by the kind of control that edits a setting.    *)

GeneralTab == [check |-> {"mapnik_caching"}, list |-> {"simmode"},
               number |-> {"maxcpuload"}, text |-> {"dir_maps"}]

MapFeatures ==
    [check |-> {"showgrid", "showshadow", "showzoom", "showscalebar",
                "rotating_compass", "showdestline", "showway"},
     list |-> {"posmarker"}, number |-> {}, text |-> {}]

OtherFeatures ==
    [check |-> {"showbatt", "showtemp"},
     list |-> {"distmode", "altmode", "coordmode"}, number |-> {}, text |-> {}]

MainButtons ==
    [check |-> {"showbutton_zoom", "showbutton_scaler", "showbutton_mute",
                "showbutton_find", "showbutton_route", "showbutton_map"},
     list |-> {"buttonsmode"}, number |-> {}, text |-> {}]

TrackButtons ==
    [check |-> {"showbutton_trackrestart", "showbutton_trackclear",
                "showbutton_explore", "showbutton_addwpt"},
     list |-> {}, number |-> {}, text |-> {}]

TrackTab == [check |-> {"track_autoclean"}, list |-> {},
             number |-> {"track_interval", "track_autointerval"},
             text |-> {"dir_tracks", "track_autoprefix"}]

ColorsTab ==
    [check |-> {}, list |-> {"style_track", "style_route"}, number |-> {},
     text |-> {"color_track", "color_route", "color_friends", "color_wplabel",
               "color_dashboard", "font_friends", "font_wplabel", "font_dashboard"}]

NightFrame == [check |-> {}, list |-> {"nightmode"}, number |-> {}, text |-> {}]

NavigationTab == [check |-> {}, list |-> {"travelmode"}, number |-> {}, text |-> {}]

WaypointFrames ==
    [check |-> {}, list |-> {"quickpoint_mode"}, number |-> {"quickpoint_num"},
     text |-> {"wp_file", "quickpoint_text", "quickpoint_type"}]

PoiFrames == [check |-> {}, list |-> {"icon_theme"},
              number |-> {"poi_results_max", "poi_searchradius"},
              text |-> {"poi_filter", "poi_label"}]

FriendsFrame == [check |-> {"showfriends"}, list |-> {},
                 number |-> {"friends_maxsecs"}, text |-> {"friends_name"}]

FriendsServerFrame == [check |-> {}, list |-> {}, number |-> {},
                       text |-> {"friends_serverfqn", "friends_serverip"}]

SpeechFrame == [check |-> {"speech"}, list |-> {"speech_module", "speech_voice"},
                number |-> {"speech_speed", "speech_pitch"}, text |-> {}]

SpeechOutput == [check |-> {"sound_direction", "sound_distance", "sound_speed", "sound_gps"},
                 list |-> {}, number |-> {}, text |-> {}]

\* What only the main window, the other dialogs and the program itself change.
Elsewhere ==
    [check |-> {"showwaypoints", "showtrack", "savetrack", "mute", "autobestmap",
                "displaymap_top", "show_controls", "show_dashboard", "show_compass",
                "use_database", "storetz", "showmaptype", "showwlan", "display_map"},
     list |-> {"dashboard_1", "dashboard_2", "dashboard_3", "dashboard_4", "showpoi",
               "mapsource_type", "mapsource_scale", "MapnikStatusInt", "nav_type"},
     number |-> {"scale_wanted", "messagenumber", "timezone", "poi_dbdistance"},
     text |-> {"dir_routes", "friends_id", "nav_moduledir", "nav_module", "geoinfo_file",
               "osm_dbfile", "dir_mbrola", "color_map_day", "color_map_night",
               "font_tmp_friends", "font_tmp_wplabel", "font_tmp_dashboard"}]

Window == {GeneralTab, MapFeatures, OtherFeatures, MainButtons, TrackButtons, TrackTab,
           ColorsTab, NightFrame, NavigationTab, WaypointFrames, PoiFrames, FriendsFrame,
           FriendsServerFrame, SpeechFrame, SpeechOutput}

Checks   == UNION {t.check  : t \in Window}
Lists    == UNION {t.list   : t \in Window}
Numbers  == UNION {t.number : t \in Window}
Entries  == UNION {t.text   : t \in Window}
Controls == Checks \cup Lists \cup Numbers \cup Entries

AllChecks == Checks \cup Elsewhere.check
Texts     == Entries \cup Elsewhere.text
Values(k) == IF k \in AllChecks THEN 0 .. 1
             ELSE IF k \in Numbers \cup Elsewhere.number THEN 0 .. 3
             ELSE 0 .. 2

Fonts == {"font_friends", "font_wplabel", "font_dashboard"}
TmpFonts == {"font_tmp_friends", "font_tmp_wplabel", "font_tmp_dashboard"}
OtherFont(k) == CASE k = "font_friends" -> "font_tmp_friends"
                  [] k = "font_wplabel" -> "font_tmp_wplabel"
                  [] k = "font_dashboard" -> "font_tmp_dashboard"
                  [] k = "font_tmp_friends" -> "font_friends"
                  [] k = "font_tmp_wplabel" -> "font_wplabel"
                  [] k = "font_tmp_dashboard" -> "font_dashboard"

-----------------------------------------------------------------------------
(* The configuration file.                                                 *)

\* The lines in the order in which they are written.
FirstLines ==
    <<"showwaypoints", "travelmode", "nav_type", "showtrack", "showdestline",
      "track_interval", "track_autointerval", "track_autoprefix", "track_autoclean",
      "show_dashboard", "show_compass", "show_controls", "showbutton_zoom",
      "showbutton_scaler", "showbutton_mute", "showbutton_find", "showbutton_route",
      "showbutton_map", "showbutton_trackrestart", "showbutton_trackclear",
      "showbutton_explore", "showbutton_addwpt", "buttonsmode", "mute",
      "displaymap_top", "autobestmap", "distmode", "altmode", "savetrack",
      "mapsource_type", "mapsource_scale", "scale_wanted", "showshadow", "wp_file",
      "geoinfo_file", "osm_dbfile">>

LastLines ==
    <<"dir_maps", "dir_tracks", "dir_routes", "nav_moduledir", "nav_module",
      "MapnikStatusInt", "mapnik_caching", "simmode", "coordmode", "posmarker",
      "nightmode", "maxcpuload", "use_database", "poi_dbdistance", "font_dashboard",
      "font_wplabel", "font_friends", "font_tmp_dashboard", "font_tmp_wplabel",
      "font_tmp_friends", "friends_serverip", "friends_serverfqn", "friends_name",
      "friends_id", "showfriends", "friends_maxsecs", "poi_results_max",
      "poi_searchradius", "storetz", "timezone", "dashboard_1", "dashboard_2",
      "dashboard_3", "dashboard_4", "color_dashboard", "color_track", "style_track",
      "color_route", "style_route", "color_friends", "color_wplabel", "color_map_day",
      "color_map_night", "messagenumber", "speech", "speech_module", "speech_voice",
      "dir_mbrola", "speech_speed", "speech_pitch", "sound_direction",
      "sound_distance", "sound_speed", "sound_gps", "icon_theme", "poi_filter",
      "poi_label", "quickpoint_mode", "quickpoint_num", "quickpoint_text",
      "quickpoint_type", "showgrid", "showmaptype", "showzoom", "showscalebar",
      "showbatt", "showtemp", "rotating_compass", "showway", "showpoi", "showwlan",
      "display_map">>

Lines == FirstLines \o LastLines
Position == [k \in {Lines[i] : i \in DOMAIN Lines} |-> CHOOSE i \in DOMAIN Lines : Lines[i] = k]

\* The defaults: what is on, and the numbers, entries and texts that are not the first.
DefaultOn ==
    {"mapnik_caching", "showzoom", "showscalebar", "rotating_compass", "showwaypoints",
     "show_controls", "show_dashboard", "show_compass", "autobestmap", "displaymap_top",
     "use_database", "sound_direction", "sound_distance", "sound_speed", "sound_gps"}
        \cup MainButtons.check \cup TrackButtons.check

Default(k) ==
    IF k \in AllChecks THEN IF k \in DefaultOn THEN 1 ELSE 0
    ELSE IF k \in {"friends_name", "friends_id", "poi_filter", "poi_label"} THEN 0
    ELSE IF k \in {"simmode", "nightmode", "posmarker", "MapnikStatusInt", "nav_type",
                   "mapsource_type", "mapsource_scale", "travelmode", "icon_theme"} THEN 0
    ELSE IF k = "friends_maxsecs" THEN 3
    ELSE IF k \in TmpFonts \cup {"coordmode"} THEN 2
    ELSE 1

\* What writeconfig puts on the line of k, from the settings v.
Written(v, p, k) ==
    CASE k = "show_compass" /\ "show_dashboard" \in DOMAIN v
           -> IF v["show_compass"] = 1 /\ v["show_dashboard"] = 1 THEN 1 ELSE 0
      [] k = "MapnikStatusInt" -> IF v[k] > 1 THEN 1 ELSE 0
      [] k = "timezone" /\ "storetz" \in DOMAIN v
           -> IF v["storetz"] = 1 THEN v[k] ELSE Absent
      [] k \in Fonts \cup TmpFonts /\ OtherFont(k) \in DOMAIN v
           -> IF p THEN v[OtherFont(k)] ELSE v[k]
      [] OTHER -> v[k]

\* What a line says to a program that reads it: a line without a value is passed over.
Line(f, k) == IF f[k] = Absent \/ (k \in Texts /\ f[k] = 0) THEN Default(k) ELSE f[k]

\* As ReadConfig, when the lines of the fonts are not exchanged in PDA mode.
ReadAsWritten(f, p, k) == Line(f, k)

\* The settings after reading the file f.
ReadConfig(f, p, k) ==
    IF p /\ k \in Fonts \cup TmpFonts /\ OtherFont(k) \in DOMAIN f
    THEN IF f[OtherFont(k)] \in {Absent, 0} THEN Default(k) ELSE f[OtherFont(k)]
    ELSE Line(f, k)

-----------------------------------------------------------------------------
VARIABLES
    focus,      \* the settings that are followed
    value,      \* local_config
    open,       \* whether the settings window is open
    shown,      \* what its controls show
    needtosave, \* current.needtosave
    started,    \* whether the program runs
    pda,        \* local_config.guimode = GUI_PDA
    file,       \* the configuration file
    autosave,   \* the interval of the autosave timer, 0 when there is none
    dark,       \* whether it is dark outside
    night       \* gui_status.nightmode

settingsVars == <<focus, value, open, shown, needtosave, started, pda, file, autosave, dark, night>>

window == <<open, shown>>
process == <<started, pda, file>>
view == <<dark, night>>

On == 1
AutoMode == 2

Cap == 2         \* friends_maxsecs: seven days; track_autointerval: 600 half hours
YourName == 2    \* "EnterYourName"

Image(v, p) == [k \in DOMAIN v |-> Written(v, p, k)]

Missing(g) == [k \in g |-> Absent]

SettingsInit ==
    /\ focus \in Groups
    /\ value = [k \in focus |-> Default(k)]
    /\ file \in {Missing(focus)} \cup
                {Image(v, FALSE) : v \in {w \in [focus -> 0 .. 3] : \A k \in focus : w[k] \in Values(k)}}
    /\ open = FALSE
    /\ shown = value
    /\ needtosave = FALSE
    /\ started = FALSE
    /\ pda = FALSE
    /\ autosave = 0
    /\ dark \in BOOLEAN
    /\ night = FALSE

-----------------------------------------------------------------------------
(* Start and end of the program.                                           *)

\* The config file is read in the mode the options ask for; a small screen changes
\* the mode afterwards.  Without a data base or a speech server the settings for them
\* are switched off, and who has no identity gets one.
Start(option, works) ==
    /\ ~started
    /\ LET got == [k \in focus |-> ReadConfig(file, option, k)]
       IN value' = [k \in focus |->
                      IF k \in {"use_database", "speech"} /\ ~works THEN 0
                      ELSE IF k = "friends_id" /\ got[k] = 0 THEN 1
                      ELSE got[k]]
    /\ needtosave' = ("friends_id" \in focus /\ ReadConfig(file, option, "friends_id") = 0)
    /\ pda' = (option \/ SmallScreen)
    /\ started' = TRUE
    /\ autosave' = IF "track_autointerval" \in focus THEN value'["track_autointerval"] ELSE 0
    /\ night' = FALSE
    /\ UNCHANGED <<focus, window, file, dark>>

Stop ==
    /\ started' = FALSE
    /\ open' = FALSE
    /\ needtosave' = FALSE
    /\ autosave' = 0
    /\ night' = FALSE
    /\ UNCHANGED <<focus, value, shown, pda, dark>>

\* The orderly end, by the menu or by a signal.
Quit == started /\ file' = Image(value, pda) /\ Stop

Crash == started /\ file' = file /\ Stop

\* masteragent_cb writes the file when something has changed.
SaveConfig ==
    /\ started /\ needtosave
    /\ file' = Image(value, pda)
    /\ needtosave' = FALSE
    /\ UNCHANGED <<focus, value, window, started, pda, autosave, view>>

\* The file was truncated when it was opened, and holds a part of the lines.
CrashInWrite(n) ==
    /\ started /\ needtosave
    /\ file' = [k \in focus |-> IF Position[k] <= n THEN Written(value, pda, k) ELSE Absent]
    /\ Stop

-----------------------------------------------------------------------------
(* The settings window.                                                    *)

\* The controls whose callback was connected before they were preset: presetting
\* them is a change.
Armed(k) == \/ k \in {"simmode", "nightmode"} /\ value[k] # AutoMode
            \/ k = "quickpoint_mode"

\* What a control shows when it is made.
Preset(k) == IF k = "quickpoint_num" /\ value[k] = 3 THEN 2 ELSE value[k]

OpenWindow ==
    /\ started /\ ~open
    /\ open' = TRUE
    /\ shown' = [k \in focus |-> Preset(k)]
    \* the entry of the number takes four digits, and tells so when it is filled
    /\ value' = [k \in focus |->
          IF k = "quickpoint_num" /\ "quickpoint_mode" \in focus
             /\ value["quickpoint_mode"] = 1 THEN Preset(k) ELSE value[k]]
    /\ needtosave' = (needtosave \/ \E k \in focus : Armed(k))
    /\ night' = IF "nightmode" \in focus /\ value["nightmode"] # AutoMode
                THEN value["nightmode"] = On ELSE night
    /\ UNCHANGED <<focus, process, autosave, dark>>

\* As CloseWindow, when the timer is left as it is.
CloseWithoutTimer ==
    /\ open
    /\ open' = FALSE
    /\ shown' = value
    /\ UNCHANGED <<focus, value, needtosave, process, autosave, view>>

CloseWindow ==
    /\ open
    /\ open' = FALSE
    /\ shown' = value
    /\ autosave' = IF autosave = 0 /\ "track_autointerval" \in focus
                   THEN value["track_autointerval"] ELSE autosave
    /\ UNCHANGED <<focus, value, needtosave, process, view>>

\* The callbacks that set a value and mark it, with the settings they change besides.
Set(changes) ==
    /\ value' = [k \in focus |-> IF k \in DOMAIN changes THEN changes[k] ELSE value[k]]
    /\ shown' = [k \in focus |-> IF k \in DOMAIN changes THEN changes[k] ELSE shown[k]]
    /\ needtosave' = TRUE
    /\ UNCHANGED <<focus, open, process>>

One(k, v) == [x \in {k} |-> v]

\* A check button shows its new state; the callback negates the value.
Toggle(k) ==
    /\ open
    /\ k \in Checks \ {"showfriends"}
    /\ shown' = [shown EXCEPT ![k] = 1 - @]
    /\ value' = [value EXCEPT ![k] = 1 - @]
    /\ needtosave' = TRUE
    /\ UNCHANGED <<focus, open, process, autosave, view>>

\* As ShowFriends, when the button is not put back after the warning.
ShowFriendsWarned ==
    /\ open
    /\ "showfriends" \in focus
    /\ LET refused == "friends_name" \in focus /\ value["friends_name"] = YourName
                      /\ value["showfriends"] = 0
       IN /\ value' = [value EXCEPT !["showfriends"] = IF refused THEN @ ELSE 1 - @]
          /\ shown' = [shown EXCEPT !["showfriends"] = 1 - @]
          /\ needtosave' = (needtosave \/ ~refused)
    /\ UNCHANGED <<focus, open, process, autosave, view>>

\* An empty name becomes the placeholder, and with the placeholder nobody is shown.
ShowFriends ==
    /\ open
    /\ "showfriends" \in focus
    /\ LET name == IF "friends_name" \notin focus THEN 1
                   ELSE IF value["friends_name"] = 0 THEN YourName ELSE value["friends_name"]
           refused == name = YourName /\ value["showfriends"] = 0
           named == [k \in focus |-> IF k = "friends_name" THEN name ELSE value[k]]
       IN /\ value' = IF refused THEN named
                      ELSE [named EXCEPT !["showfriends"] = 1 - @]
          /\ shown' = [k \in focus |->
                CASE k = "friends_name" /\ name # value[k] -> name
                  [] k = "showfriends" -> IF refused THEN 0 ELSE 1 - shown[k]
                  [] OTHER -> shown[k]]
          /\ needtosave' = (needtosave \/ ~refused)
    /\ UNCHANGED <<focus, open, process, autosave, view>>

\* A list or a group of radio buttons.
Choose(k, v) ==
    /\ open
    /\ k \in Lists \ {"nightmode", "speech_module"} /\ v # value[k]
    /\ Set(One(k, v))
    /\ UNCHANGED <<autosave, view>>

\* Another speech module comes with other voices, and the first of them is taken.
ChooseModule(v) ==
    /\ open
    /\ "speech_module" \in focus /\ v # value["speech_module"]
    /\ Set([k \in {"speech_module", "speech_voice"} |-> IF k = "speech_voice" THEN 0 ELSE v])
    /\ UNCHANGED <<autosave, view>>

\* The button that is left calls back first, with its own mode; "automatic" then looks
\* whether the mode is automatic before it is.
ChooseNight(v) ==
    /\ open
    /\ "nightmode" \in focus /\ v # value["nightmode"]
    /\ Set(One("nightmode", v))
    /\ night' = IF v = AutoMode THEN value["nightmode"] = On ELSE v = On
    /\ UNCHANGED <<autosave, dark>>

\* Numbers: no load is a default load, no result is one result.
Spin(k, v) ==
    /\ open
    /\ k \in Numbers \ {"track_interval", "track_autointerval", "friends_maxsecs"}
    /\ value' = [value EXCEPT ![k] = IF v = 0 /\ k \in {"maxcpuload", "poi_results_max"}
                                     THEN 1 ELSE v]
    /\ shown' = [shown EXCEPT ![k] = v]
    /\ needtosave' = TRUE
    /\ UNCHANGED <<focus, open, process, autosave, view>>

\* The age of friends is capped, and nobody is told that it has to be saved.
SpinMaxsecs(v) ==
    /\ open
    /\ "friends_maxsecs" \in focus
    /\ LET capped == IF v > Cap THEN Cap ELSE v
       IN /\ value' = [value EXCEPT !["friends_maxsecs"] = capped]
          /\ shown' = [shown EXCEPT !["friends_maxsecs"] = capped]
    /\ UNCHANGED <<focus, open, needtosave, process, autosave, view>>

\* The timer stops when its interval is changed.
SpinAutosave(v) ==
    /\ open
    /\ "track_autointerval" \in focus
    /\ Set(One("track_autointerval", v))
    /\ autosave' = 0
    /\ UNCHANGED view

\* The cap is for the interval of the points, and is put on the one of the autosave.
SpinInterval(v) ==
    /\ open
    /\ {"track_interval", "track_autointerval"} \subseteq focus
    /\ LET over == value["track_autointerval"] > Cap
       IN /\ value' = [value EXCEPT !["track_interval"] = IF over THEN Cap ELSE v,
                                    !["track_autointerval"] = IF over THEN Cap ELSE @]
          /\ shown' = [shown EXCEPT !["track_interval"] = IF over THEN Cap ELSE v]
    /\ needtosave' = TRUE
    /\ UNCHANGED <<focus, open, process, autosave, view>>

\* Texts, colours, fonts, files and directories.
Enter(k, v) ==
    /\ open
    /\ k \in Entries
    /\ Set(One(k, v))
    /\ UNCHANGED <<autosave, view>>

\* The address of the server is looked up, and nobody is told that it has to be saved.
Lookup(v) ==
    /\ open
    /\ "friends_serverip" \in focus
    /\ value' = [value EXCEPT !["friends_serverip"] = v]
    /\ shown' = [shown EXCEPT !["friends_serverip"] = v]
    /\ UNCHANGED <<focus, open, needtosave, process, autosave, view>>

-----------------------------------------------------------------------------
(* Changes from elsewhere.  The window is modal: while it is open no button *)
(* and no key reaches the main window.                                      *)

Change(k, v, marks) ==
    /\ started
    /\ value' = [value EXCEPT ![k] = v]
    /\ shown' = IF open THEN shown ELSE [shown EXCEPT ![k] = v]
    /\ needtosave' = (needtosave \/ marks)
    /\ UNCHANGED <<focus, open, process, autosave, view>>

\* The buttons of the main window, the dashboard menus and the other dialogs.
MainButton(k, v) ==
    /\ ~open
    /\ k \in {"showwaypoints", "showtrack", "savetrack", "mute", "autobestmap", "display_map",
              "dashboard_1", "dashboard_2", "dashboard_3", "dashboard_4", "showpoi",
              "mapsource_type", "mapsource_scale", "scale_wanted", "dir_routes", "dir_tracks"}
    /\ Change(k, v, TRUE)

\* As MarkedKey, when the change is forgotten.
ForgottenKey(k) ==
    /\ ~open
    /\ k \in {"showgrid", "showfriends"}
    /\ Change(k, 1 - value[k], FALSE)

\* The keys G and F.
MarkedKey(k) ==
    /\ ~open
    /\ k \in {"showgrid", "showfriends"}
    /\ Change(k, 1 - value[k], TRUE)

\* The keys M, C and D: the compass belongs to the dashboard.
UnmarkedKey(k) ==
    /\ ~open /\ ~pda
    /\ k \in {"show_controls", "show_compass", "show_dashboard"}
    /\ k = "show_compass" /\ "show_dashboard" \in focus => value["show_dashboard"] = 1
    /\ Change(k, 1 - value[k], FALSE)

\* A click on the coordinates and the button of the street maps.
UnmarkedButton(k, v) ==
    /\ ~open
    /\ \/ k = "coordmode" /\ v = (value[k] + 1) % 3
       \/ k = "MapnikStatusInt"
    /\ Change(k, v, FALSE)

\* A message to a friend takes the next number; a new waypoint does, unmarked.
NextMessage ==
    /\ "messagenumber" \in focus
    /\ Change("messagenumber", (value["messagenumber"] + 1) % 4, TRUE)

QuickWaypoint ==
    /\ ~open
    /\ "quickpoint_num" \in focus /\ value["quickpoint_num"] < 3
    /\ "quickpoint_mode" \in focus => value["quickpoint_mode"] = 1
    /\ Change("quickpoint_num", value["quickpoint_num"] + 1, FALSE)

\* As NightTimer, when only the night is looked for.
NightTimerSleeps ==
    /\ started
    /\ "nightmode" \in focus /\ value["nightmode"] = AutoMode
    /\ night' = (night /\ dark)
    /\ UNCHANGED <<focus, value, window, needtosave, process, autosave, dark>>

\* check_if_night_cb, every twenty minutes.
NightTimer ==
    /\ started
    /\ "nightmode" \in focus /\ value["nightmode"] = AutoMode
    /\ night' = dark
    /\ UNCHANGED <<focus, value, window, needtosave, process, autosave, dark>>

Twilight ==
    /\ "nightmode" \in focus
    /\ dark' = ~dark
    /\ UNCHANGED <<focus, value, window, needtosave, process, autosave, night>>

-----------------------------------------------------------------------------
InWindow(k) ==
    \/ Toggle(k)
    \/ \E v \in Values(k) : Choose(k, v) \/ Spin(k, v) \/ Enter(k, v)

FromElsewhere(k) ==
    \/ MarkedKey(k) \/ UnmarkedKey(k)
    \/ \E v \in Values(k) : MainButton(k, v) \/ UnmarkedButton(k, v)

Special(v) == ChooseModule(v) \/ ChooseNight(v) \/ Lookup(v)

SettingsNext ==
    \/ \E option, works \in BOOLEAN : Start(option, works)
    \/ Quit \/ Crash \/ SaveConfig
    \/ \E n \in 0 .. Len(Lines) : CrashInWrite(n)
    \/ OpenWindow \/ CloseWindow
    \/ \E k \in focus : InWindow(k) \/ FromElsewhere(k)
    \/ ShowFriends
    \/ \E v \in 0 .. 2 : Special(v)
    \/ \E v \in 0 .. 3 : SpinMaxsecs(v) \/ SpinAutosave(v)
    \/ \E v \in 1 .. 2 : SpinInterval(v)
    \/ NextMessage \/ QuickWaypoint
    \/ NightTimer \/ Twilight

SettingsSpec == SettingsInit /\ [][SettingsNext]_settingsVars
SettingsFairSpec == SettingsSpec /\ WF_settingsVars(NightTimer) /\ WF_settingsVars(SaveConfig)

-----------------------------------------------------------------------------
(* Properties.                                                             *)

\* What is changed without a word to masteragent_cb: it is saved only if something else
\* is changed, or at the end of the program.
Unmarked == {"friends_maxsecs", "friends_serverip", "coordmode", "show_controls",
             "show_compass", "show_dashboard", "quickpoint_num", "MapnikStatusInt",
             "speech", "use_database"}

\* What a setting of k would be after a restart is what it is now, whenever nothing is
\* marked to be saved: no handler loses a change of the settings it is asked to keep,
\* whatever crashed before and however little of the file was left.
NothingToLose ==
    started /\ ~needtosave =>
        \A k \in focus \ (Unmarked \cup IF pda THEN Fonts \cup TmpFonts ELSE {}) :
            \/ Line(file, k) = Line(Image(value, pda), k)
            \/ k = "friends_name" /\ value[k] = YourName   \* the placeholder

\* The settings that a restart changes although they were saved: empty texts become the
\* default, the compass of a hidden dashboard is hidden, the street maps are
\* written as on when they were drawn, and what could not be started is switched off.
Volatile(k) ==
    \/ k \in Texts /\ value[k] = 0
    \/ k = "show_compass"
    \/ k = "MapnikStatusInt" /\ value[k] > 0
    \/ k = "timezone"
    \/ k \in {"speech", "use_database"}

\* Whoever quits and starts again in the same mode finds the settings as they were: what
\* writeconfig writes under one name, readconfig finds under the same name, also where
\* PDA mode exchanges the fonts.
Restored ==
    [][~started /\ started' /\ file = Image(value, pda) /\ pda' = pda =>
         \A k \in focus : Volatile(k) \/ value'[k] = value[k]]_settingsVars

\* The controls that may show something else than what is set: the two whose zero means
\* one, the number whose entry is too short, and the interval that the spin button of
\* another one caps.
Loose == {"maxcpuload", "poi_results_max", "quickpoint_num", "track_autointerval"}

\* The window shows what is set.  The check buttons do not set what they show, they
\* negate the setting: with a button that was once wrong, every later click does the
\* opposite of what it says.
ShownIsSet == open => \A k \in (focus \cap Controls) \ Loose : shown[k] = value[k]

\* Outside the window the track is saved automatically exactly when an interval is set:
\* changing the interval stops the timer, and only the end of the window starts it again.
AutosaveArmed ==
    started /\ ~open /\ "track_autointerval" \in focus =>
        (autosave > 0) = (value["track_autointerval"] > 0)

\* The mode that looks at the sun.
Automatic == started /\ "nightmode" \in focus /\ value["nightmode"] = AutoMode

\* In automatic mode the screen follows the sun, if it does not rise or set again before
\* the timer looks, and the mode is left alone.
NightFollows ==
    \A b \in BOOLEAN : Automatic /\ dark = b ~> (night = b \/ dark # b \/ ~Automatic)

\* "You have to enter a username, don't use the default name!" (tooltip of the check
\* button for the friends): who is shown to the others has a name.
NamedWhenShown ==
    started /\ {"showfriends", "friends_name"} \subseteq focus /\ value["showfriends"] = 1
        => value["friends_name"] \notin {0, YourName}

=============================================================================

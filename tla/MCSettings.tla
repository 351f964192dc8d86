------------------------------ MODULE MCSettings ------------------------------
(* Settings for TLC: every setting by itself, and those that one handler relates. *)
EXTENDS Settings

NoLine == 9   \* no value of a setting

Related == {{"show_dashboard", "show_compass"}, {"track_interval", "track_autointerval"},
            {"friends_name", "showfriends"}, {"friends_serverfqn", "friends_serverip"},
            {"font_friends", "font_tmp_friends"}, {"font_dashboard", "font_tmp_dashboard"},
            {"font_wplabel", "font_tmp_wplabel"}, {"quickpoint_mode", "quickpoint_num"},
            {"speech", "speech_module", "speech_voice"}, {"storetz", "timezone"}}

AllGroups == Related \cup {{Lines[i]} : i \in DOMAIN Lines}

=============================================================================

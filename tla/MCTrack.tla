-------------------------------- MODULE MCTrack --------------------------------
(***************************************************************************)
(* Small instances of Track for TLC: two places, arrays of a few entries   *)
(* and an incremental save at every second point.                          *)
(***************************************************************************)
EXTENDS Track, TLC

CONSTANTS home, away  \* places

Here  == [valid |-> TRUE, at |-> home]
There == [valid |-> TRUE, at |-> away]

\* A file that the array at start has room for, and one for which it grows.
TrackFiles == {<<>>, <<Here, There, Here, There>>}

\* GPX files as short as the array the program allocates for them.
ShortFiles == {<<>>, <<Here, There>>}

=============================================================================

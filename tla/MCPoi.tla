--------------------------------- MODULE MCPoi ---------------------------------
(* The points of interest for TLC. *)
EXTENDS Poi

AllParts == {"store", "view", "kismet", "waypoints"}
TwoIds == 1 .. 2

===============================================================================

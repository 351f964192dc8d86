------------------------------- MODULE MCDisplay -------------------------------
(***************************************************************************)
(* Display for TLC: two places and two scales for mapnik, one thread; a    *)
(* small and a large map, whose files may be missing, and one to import;   *)
(* two positions of the receiver; three sources of maps, one with fewer    *)
(* scales than the others, and two windows to fetch them.                  *)
(***************************************************************************)
EXTENDS Display

CONSTANTS p1, p2, r1

MCDemands == {<<p1, 1>>, <<p2, 1>>, <<p2, 2>>}
MCNear == {<<p1, p2>>}
MCRenderers == {r1}

Map(mapname, c, s) == [name |-> mapname, centre |-> c, scale |-> s]

MCMaps == {Map("a", 0, 1), Map("b", 8, 2)}
MCFragile == {Map("b", 8, 2)}
MCBoxes == [m \in {Map("a", 0, 1)} |-> <<-6, 6>>]
MCImports == {Map("c", 10, 1)}
MCWorld == Map("world", 0, 4)
MCPlain == Map("plain", 0, 1)
MCWidths == {5, 14}
MCPositions == {5, 10}
MCScales == {2}
MCSpots == {"here", "there"}
MCSources == {"landsat", "aerial", "osm"}
MCTiled == {"landsat"}
MCZooms == [landsat |-> <<197, 198>>, aerial |-> <<11>>, osm |-> <<12, 11>>]

=============================================================================

-------------------------------- MODULE MCRoutes --------------------------------
(***************************************************************************)
(* Small instances of Routes for TLC: two places, routes of up to three    *)
(* points.                                                                 *)
(***************************************************************************)
EXTENDS Routes, TLC

CONSTANTS a, b   \* places

\* A file without a route, and one with two points.
MCFiles == {<<>>, <<a, b>>}

MCCalculated == {<<>>, <<b, a>>}

=============================================================================

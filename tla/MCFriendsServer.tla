--------------------------- MODULE MCFriendsServer ---------------------------
(***************************************************************************)
(* Small instances of FriendsServer for TLC: two clients with one message  *)
(* number each, a table that overflows, ages of one tick and none, and a   *)
(* client clock that may be more than MAXSEC slow.                         *)
(***************************************************************************)
EXTENDS FriendsServer, TLC

MCSkews == {0, -2}

\* Clocks that are all so slow that a position is too old when it arrives.
MCSlow == {-2}

Symmetry == Permutations(Clients)
=============================================================================

------------------------------- MODULE MCMapStore -------------------------------
(***************************************************************************)
(* Small instances of MapStore for TLC.                                    *)
(***************************************************************************)
EXTENDS MapStore, TLC

CONSTANTS
    m1, m2,   \* names of maps
    own,      \* the directory of the user
    system    \* another directory

\* The names of maps can be exchanged.
Renamings == Permutations(Maps)

=================================================================================

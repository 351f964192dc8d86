----------------------------- MODULE FriendsBoard -----------------------------
(***************************************************************************)
(* What the friends server (src/src/friendsd.c) promises to its clients,   *)
(* without its table, its loops and its datagrams: a board with at most    *)
(* one notice for every id.  A notice stays up until it is replaced,       *)
(* acknowledged or too old; all of them are lost together when the board   *)
(* overflows and when the process ends.                                    *)
(***************************************************************************)
EXTENDS FriendsProtocol, FiniteSets

CONSTANT Capacity   \* notices there is room for

VARIABLES
    board,          \* the notices that are up, a set of entries
    clock,
    up              \* the process runs

boardVars == <<board, clock, up>>

Ids(b) == {x.id : x \in b}

Init ==
    /\ clock = 0
    /\ up = TRUE
    /\ board = {ServerEntry(0)}

\* A client posts x; it takes the place of the notice with the same id.
Post ==
    /\ up
    /\ \E x \in board' :
        /\ x.id.suf \in Clients
        /\ board' = {y \in board : y.id # x.id} \cup {x}
    /\ UNCHANGED <<clock, up>>

\* There is no room for one notice more.
Overflow ==
    /\ up
    /\ Cardinality(board) = Capacity
    /\ board' = {}
    /\ UNCHANGED <<clock, up>>

\* A message was read: a confirmation under an id of its own replaces it.
Confirm ==
    /\ up
    /\ \E x \in board, y \in board' :
        /\ x.kind = "SND" /\ y.kind = "SND"
        /\ y.id \notin Ids(board) /\ y.id.suf \notin Clients
        /\ y.about = x.to
        /\ board' = (board \ {x}) \cup {y}
    /\ UNCHANGED <<clock, up>>

\* A confirmation was read.
Withdraw ==
    /\ up
    /\ \E x \in board :
        /\ x.kind = "SND" /\ x.id.suf = Server
        /\ board' = board \ {x}
    /\ UNCHANGED <<clock, up>>

TakeDown ==
    /\ up
    /\ \E x \in board : TooOld(x, clock) /\ board' = board \ {x}
    /\ UNCHANGED <<clock, up>>

Stop ==
    /\ up' = FALSE
    /\ board' = {}
    /\ UNCHANGED clock

Start ==
    /\ ~up
    /\ up' = TRUE
    /\ board' = {ServerEntry(clock)}
    /\ UNCHANGED clock

Pass == clock' > clock /\ UNCHANGED <<board, up>>

Next ==
    \/ Post \/ Overflow \/ Confirm \/ Withdraw \/ TakeDown
    \/ Stop \/ Start \/ Pass

Spec == Init /\ [][Next]_boardVars

=============================================================================

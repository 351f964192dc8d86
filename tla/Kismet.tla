-------------------------------- MODULE Kismet --------------------------------
(***************************************************************************)
(* The connection to a kismet server (gpskismet.c), read whenever the map  *)
(* is drawn: a line that names a network goes to the data base; a lost     *)
(* connection is opened again, at most every 30 seconds.  What was read of *)
(* a line when the connection was lost stays in the buffer, and the first  *)
(* line of the next connection is appended to it.  When select fails, as   *)
(* when a signal interrupts it, readkismet returns FALSE: the caller takes *)
(* the 0 for the socket, and the standard input is read from then on.      *)
(***************************************************************************)
EXTENDS Integers

CONSTANTS Networks, NoLine

VARIABLES
    kismetsock,   \* "none" (-1), "open", "lost" when the server has closed its end, or
                  \* "stdin" (0, as long as it was never set, and after select failed)
    recent,       \* the last attempt is not yet 30 seconds ago
    partial,      \* kbuffer holds the beginning of a line
    server        \* the server is there

\* initkismet.
Opened == IF server THEN "open" ELSE "none"

\* main() connects if there is a data base.
KismetInit(use_database) ==
    /\ server \in BOOLEAN
    /\ kismetsock = (IF use_database THEN Opened ELSE "stdin")
    /\ recent = use_database
    /\ partial = FALSE

kismetVars == <<kismetsock, recent, partial, server>>

-----------------------------------------------------------------------------
\* Slip: the comparison of the times is the wrong way round.
RetriesSoon == kismetsock = "none" /\ recent

\* The socket that a call reads from, after the attempt to open it.
Retries == kismetsock = "none" /\ ~recent
Socket == IF Retries THEN Opened ELSE kismetsock
Attempted == recent' = (recent \/ Retries)

\* A line that was received and is complete: it names a network, or it is appended to the
\* remainder of another connection and names none.
Understood(line) == IF partial THEN NoLine ELSE line

\* What becomes of the socket: the end of what it reads from closes it, and a select that
\* fails returns another one.
After == [stays |-> Socket, ends |-> "none", fails |-> "stdin"]

\* readkismet, with the line that has come, if one has, and with what then happens to
\* the connection: it stays, it ends, or select fails, perhaps in the middle of a line.
\* The loop over several lines is several steps (bound: a lost connection has one line
\* left).  Nothing sensible comes from the standard input; it, and the variable c without
\* a value, may clear the buffer.
ReadKismet(line, end, torn) ==
    /\ line # NoLine => Socket \in {"open", "lost"}
    /\ end = "stays" => Socket # "lost"
    /\ end = "ends" => Socket \in {"lost", "stdin"}
    /\ end = "fails" => Socket # "none"
    /\ torn => end = "fails" \/ Socket \in {"lost", "stdin"}
    /\ Attempted
    /\ kismetsock' = After[end]
    /\ \/ partial' = (torn \/ (partial /\ line = NoLine))
       \/ Socket # "none" /\ partial' = torn
    /\ UNCHANGED server

\* Half a minute after the last attempt.
Elapse == recent /\ recent' = FALSE /\ UNCHANGED <<kismetsock, partial, server>>

\* The server.
ServerStops ==
    /\ server /\ server' = FALSE
    /\ kismetsock' = IF kismetsock = "open" THEN "lost" ELSE kismetsock
    /\ UNCHANGED <<recent, partial>>

ServerStarts == ~server /\ server' = TRUE /\ UNCHANGED <<kismetsock, recent, partial>>

-----------------------------------------------------------------------------
\* "Kismet socket, -1 if not available" (gpsdrive.h:345).
SocketOrNone == kismetsock # "stdin"

=============================================================================

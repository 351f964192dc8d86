---------------------------- MODULE FriendsProtocol ----------------------------
(***************************************************************************)
(* The data the friends server and its clients exchange: ids, the entries  *)
(* of the server's table and the datagrams (src/src/friendsd.c,            *)
(* src/src/friends.c).                                                     *)
(***************************************************************************)
EXTENDS Integers

CONSTANTS
    Clients,         \* the clients; one name stands for friends_id and friends_name
    Server,          \* the suffix of serverid
    Shifted,         \* what id + 5 is when the message number has three digits
    Noname,          \* a string that is no client's name: uninitialised memory
    MAXSEC,          \* maximum age of an entry (one week)
    MAXMSGTIME,      \* maximum age of a message (two days)
    TwoDigits        \* message numbers that "%02d" prints in two digits (100)

ASSUME ProtocolAssumption ==
    /\ Server \notin Clients
    /\ Shifted \notin Clients \cup {Server}
    /\ Noname \notin Clients
    /\ MAXSEC \in Nat /\ MAXMSGTIME \in Nat /\ MAXMSGTIME < MAXSEC
    /\ TwoDigits \in Nat /\ TwoDigits > 0

-----------------------------------------------------------------------------
(* An id is five characters and a suffix.  The five characters are those   *)
(* of the client's own id (OwnPrefix) or "MSG" and the two digits of a     *)
(* message number.  A third digit pushes the suffix out of its place: then *)
(* what stands at id + 5 is nobody's suffix (Shifted).                     *)

OwnPrefix == -1
Suffixes  == Clients \cup {Server, Shifted}
Names     == Clients \cup {Noname}

Id == [pre : Nat \cup {OwnPrefix}, suf : Suffixes]

OwnId(c)    == [pre |-> OwnPrefix, suf |-> c]
MsgId(n, c) == [pre |-> n, suf |-> c]

\* Slip: the number starts again at 0 when it would need a third digit.
ConfirmationIdWraps(n) == MsgId(n % TwoDigits, Server)

\* The id of a confirmation: g_snprintf (sid, ..., "MSG%02d%s", ...)
ConfirmationId(n) == MsgId(n, IF n < TwoDigits THEN Server ELSE Shifted)

\* A table entry: what the code tells apart of txt, and times.
\* to is the addressee of a SND, about the user a confirmation speaks of.
Entry == [id : Id, kind : {"SRV", "POS", "SND"}, to : Names, about : Names,
          times : Int]

Position(c, t) ==
    [id |-> OwnId(c), kind |-> "POS", to |-> Noname, about |-> Noname,
     times |-> t]

\* Messages are stored at t with a time that lets them expire after MAXMSGTIME.
MessageTime(t) == t - MAXSEC + MAXMSGTIME

Message(n, c, to, t) ==
    [id |-> MsgId(n, c), kind |-> "SND", to |-> to, about |-> Noname,
     times |-> MessageTime(t)]

\* "The user ... has read your message!"
Confirmation(n, to, about, t) ==
    [id |-> ConfirmationId(n), kind |-> "SND", to |-> to, about |-> about,
     times |-> MessageTime(t)]

ServerEntry(t) ==
    [id |-> OwnId(Server), kind |-> "SRV", to |-> Noname, about |-> Noname,
     times |-> t]

\* The entry is too old at time t; the server's own entry never is.
TooOld(e, t) == e.kind # "SRV" /\ t - e.times > MAXSEC

\* The datagrams a client sends.
Datagram ==
         [type : {"POS"}, id : Id, time : Int]
    \cup [type : {"SND"}, id : Id, to : Names]
    \cup [type : {"ACK"}, id : Id]
    \cup [type : {"other"}]

Other == [type |-> "other"]

=============================================================================

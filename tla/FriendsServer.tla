---------------------------- MODULE FriendsServer ----------------------------
(***************************************************************************)
(* The friends server, src/src/friendsd.c: one process that receives UDP   *)
(* datagrams, keeps the positions and the messages of the clients in a     *)
(* table in memory, and answers every datagram with the whole table.       *)
(*                                                                         *)
(* The loop of dg_echo is cut where the code reads a clock, touches the    *)
(* table or calls the network: Receive* (the datagram is parsed and the    *)
(* table changed), Scan (one iteration of the loop that drops old          *)
(* entries), Reply (one sendto).  pc says which of them comes next, so no  *)
(* step of an iteration can be left out.                                   *)
(***************************************************************************)
EXTENDS FriendsProtocol, Sequences

CONSTANTS
    MAXLISTENTRIES,  \* slots of the table (500)
    MsgNums,         \* message numbers the clients use, a subset of 0..99
    Skews,           \* how far off a client's clock may be
    MaxTime,         \* bound: the clock stops there
    MaxCounter       \* bound: confirmations the server ever writes

ASSUME ServerAssumption ==
    /\ MAXLISTENTRIES \in Nat /\ MAXLISTENTRIES > 1
    /\ MsgNums \subseteq Nat
    /\ Skews \subseteq Int
    /\ MaxTime \in Nat /\ MaxCounter \in Nat

VARIABLES
    list,            \* the entries in use, in table order; Len(list) is listnum
    messagecounter,  \* number of the next confirmation
    now,             \* time (NULL)
    pc,              \* "recv", "scan", "reply" or "exit"
    i,               \* index of the running loop
    peer,            \* the client whose datagram is being handled
    mesg             \* that datagram

vars == <<list, messagecounter, now, pc, i, peer, mesg>>

-----------------------------------------------------------------------------
\* The entries with this id.
Holding(id) == {k \in DOMAIN list : list[k].id = id}

\* Replace what is stored under the entry's id, or append the entry; the
\* last slot is never used: filling it sets listnum back to 0.
Upsert(e) ==
    IF Holding(e.id) # {}
    THEN [k \in DOMAIN list |-> IF list[k].id = e.id THEN e ELSE list[k]]
    ELSE IF Len(list) + 1 >= MAXLISTENTRIES THEN <<>> ELSE Append(list, e)

\* The list without entry k: for (j = k; j < listnum; j++) list[j] = list[j + 1]
Without(k) ==
    [j \in 1 .. Len(list) - 1 |-> IF j < k THEN list[j] ELSE list[j + 1]]

\* The first entry with this suffix: a set of at most one index.
FirstOf(suf) ==
    {k \in DOMAIN list :
        list[k].id.suf = suf /\ \A j \in 1 .. k - 1 : list[j].id.suf # suf}

\* The name the confirmation of a message with this suffix is sent to: the
\* code reads it from the first entry with the suffix if that is a
\* position, and leaves msgname uninitialised if it is something else.
SenderNames(suf) ==
    UNION {IF list[k].kind = "POS" THEN {suf} ELSE Names : k \in FirstOf(suf)}

-----------------------------------------------------------------------------
Init ==
    /\ now = 0
    /\ list = <<ServerEntry(now)>>
    /\ messagecounter = 0
    /\ pc = "recv"
    /\ i = 0
    /\ peer = Noname
    /\ mesg = Other

\* Slip: the expiry loop starts behind the server's entry, as if it were always first.
ArrivedSecond(c, m) ==
    /\ pc = "recv"
    /\ pc' = "scan"
    /\ i' = 2
    /\ peer' = c
    /\ mesg' = m
    /\ UNCHANGED now

\* A datagram has arrived and has been dealt with: the expiry loop is next.
Arrived(c, m) ==
    /\ pc = "recv"
    /\ pc' = "scan"
    /\ i' = 1
    /\ peer' = c
    /\ mesg' = m
    /\ UNCHANGED now

\* POS: the time stamp is the client's, whose clock may be off.
ReceivePos(c, t) ==
    /\ Arrived(c, [type |-> "POS", id |-> OwnId(c), time |-> t])
    /\ list' = Upsert(Position(c, t))
    /\ UNCHANGED messagecounter

\* SND: a message from c, under a number of its own, to a user's name.
ReceiveSnd(c, n, to) ==
    /\ Arrived(c, [type |-> "SND", id |-> MsgId(n, c), to |-> to])
    /\ list' = Upsert(Message(n, c, to, now))
    /\ UNCHANGED messagecounter

\* ACK of one of the server's own messages: the entry is deleted.
ReceiveOwnAck(c, id) ==
    /\ Arrived(c, [type |-> "ACK", id |-> id])
    /\ id.suf = Server
    /\ \E k \in Holding(id) : list' = Without(k)
    /\ UNCHANGED messagecounter

\* ACK of a client's message: its entry becomes the confirmation for the sender.
ReceiveAck(c, id) ==
    /\ Arrived(c, [type |-> "ACK", id |-> id])
    /\ id.suf # Server
    /\ messagecounter < MaxCounter
    /\ \E k \in Holding(id) : \E to \in SenderNames(id.suf) :
           list' = [list EXCEPT ![k] =
                       Confirmation(messagecounter, to, list[k].to, now)]
    /\ messagecounter' = messagecounter + 1

\* ACK of something that is not in the table, a query, or anything else.
ReceiveOther(c, m) ==
    /\ Arrived(c, m)
    /\ m.type = "ACK" => Holding(m.id) = {}
    /\ UNCHANGED <<list, messagecounter>>

\* recvfrom fails: nothing is parsed or dropped, but the peer that was
\* served last is sent the table once more.
ReceiveFails ==
    /\ pc = "recv"
    /\ pc' = "reply"
    /\ i' = 0
    /\ UNCHANGED <<list, messagecounter, now, peer, mesg>>

\* Slip: the expiry loop drops the server's own entry as well.
ScanAnyKind ==
    /\ pc = "scan"
    /\ i <= Len(list)
    /\ list' = IF now - list[i].times > MAXSEC THEN Without(i) ELSE list
    /\ i' = i + 1
    /\ UNCHANGED <<messagecounter, now, pc, peer, mesg>>

\* One iteration of the expiry loop; i grows even when the entry at i was
\* deleted and another has moved to its place.
Scan ==
    /\ pc = "scan"
    /\ i <= Len(list)
    /\ list' = IF TooOld(list[i], now) THEN Without(i) ELSE list
    /\ i' = i + 1
    /\ UNCHANGED <<messagecounter, now, pc, peer, mesg>>

ScanDone ==
    /\ pc = "scan"
    /\ i > Len(list)
    /\ pc' = "reply"
    /\ i' = 0
    /\ mesg' = Other                    \* it is not read any more
    /\ UNCHANGED <<list, messagecounter, now, peer>>

\* sendto: number 0 is $START:$, Len(list) + 1 is $END:$, the others the entries.
Reply ==
    /\ pc = "reply"
    /\ i <= Len(list)
    /\ i' = i + 1
    /\ UNCHANGED <<list, messagecounter, now, pc, peer, mesg>>

ReplyEnd ==
    /\ pc = "reply"
    /\ i = Len(list) + 1
    /\ pc' = "recv"
    /\ i' = 0
    /\ UNCHANGED <<list, messagecounter, now, peer, mesg>>

\* A sendto that fails ends dg_echo, and main with it: the table is gone.
ReplyFails ==
    /\ pc = "reply"
    /\ pc' = "exit"
    /\ list' = <<>>
    /\ i' = 0
    /\ peer' = Noname
    /\ UNCHANGED <<messagecounter, now, mesg>>

\* The daemon is started again: main makes the table with the server's entry.
Restart ==
    /\ pc = "exit"
    /\ list' = <<ServerEntry(now)>>
    /\ messagecounter' = 0
    /\ pc' = "recv"
    /\ UNCHANGED <<now, i, peer, mesg>>

\* Time passes between datagrams.
Tick ==
    /\ pc = "recv"
    /\ now < MaxTime
    /\ now' = now + 1
    /\ UNCHANGED <<list, messagecounter, pc, i, peer, mesg>>

-----------------------------------------------------------------------------
\* The ids of messages and confirmations that a client may have been sent.
MsgIds ==
         {MsgId(n, c) : n \in MsgNums, c \in Clients}
    \cup {ConfirmationId(n) : n \in 0 .. MaxCounter - 1}

Receive ==
    \E c \in Clients :
        \/ \E s \in Skews : ReceivePos(c, now + s)
        \/ \E n \in MsgNums, to \in Clients : ReceiveSnd(c, n, to)
        \/ \E id \in MsgIds : ReceiveOwnAck(c, id) \/ ReceiveAck(c, id)
        \/ ReceiveOther(c, Other)
        \/ \E id \in MsgIds : ReceiveOther(c, [type |-> "ACK", id |-> id])

\* The steps the process takes by itself once it has a datagram.
Handle == Scan \/ ScanDone \/ Reply \/ ReplyEnd

Next == Receive \/ ReceiveFails \/ Handle \/ ReplyFails \/ Restart \/ Tick

Spec == Init /\ [][Next]_vars

\* The process runs, and datagrams keep coming: every client that is switched
\* on sends one every 15 seconds, and recvfrom does not always fail.
FairSpec == Spec /\ WF_vars(Handle) /\ SF_vars(Receive)

-----------------------------------------------------------------------------
(* Every variable has its type, and listnum stays below the size of the    *)
(* array: no slot behind it is ever read or written (friendsd.c:244-254).  *)
TypeOK ==
    /\ list \in Seq(Entry) /\ Len(list) < MAXLISTENTRIES
    /\ messagecounter \in Nat
    /\ now \in Nat
    /\ pc \in {"recv", "scan", "reply", "exit"}
    /\ i \in Nat
    /\ peer \in Names
    /\ mesg \in Datagram

(* No two entries have the same id.  The loops over the table (update,     *)
(* acknowledge) and the clients count on it; it has to survive updates,    *)
(* confirmations that take over a slot, deletions and wrap-around.         *)
UniqueIds ==
    \A j, k \in DOMAIN list : list[j].id = list[k].id => j = k

(* What the server promises, in terms of a board of notices without slots  *)
(* or loops: a notice stays until it is replaced, acknowledged, too old,   *)
(* or until all notices are lost because the board is full or the process  *)
(* ends.                                                                   *)
Board == INSTANCE FriendsBoard WITH
    board    <- {list[k] : k \in DOMAIN list},
    clock    <- now,
    up       <- pc # "exit",
    Capacity <- MAXLISTENTRIES - 1

BoardSpec == Board!Spec

(* An entry that is too old does not stay for ever although the loop steps *)
(* over the entry behind a deleted one (friendsd.c:383-402): while         *)
(* datagrams keep coming it is dropped, or renewed by its client.          *)
HasOld(id) == \E k \in DOMAIN list : list[k].id = id /\ TooOld(list[k], now)

ClientIds == {OwnId(c) : c \in Clients} \cup MsgIds

OldLeaves == \A id \in ClientIds : HasOld(id) ~> ~HasOld(id)

(* "sort out entries older than MAXSEC seconds" (friendsd.c:382): after    *)
(* the loop that does so the table sent to the client has no such entry.   *)
ReplyFresh ==
    [][pc = "scan" /\ pc' = "reply" =>
          \A k \in DOMAIN list' : ~TooOld(list'[k], now)]_vars

(* "send ack message to sender" (friendsd.c:303): the message that         *)
(* confirms that a user has read a message is addressed to its sender.     *)
ConfirmationToSender ==
    [][\A id \in MsgIds : \A c \in Clients, k \in DOMAIN list :
          /\ pc = "recv" /\ pc' = "scan"
          /\ mesg' = [type |-> "ACK", id |-> id]
          /\ id.suf = c /\ list[k].id = id
          => list'[k].to = c]_vars

(* "its the ack for myself, delete from list" (friendsd.c:329): when a     *)
(* client acknowledges a message the server has written, the server        *)
(* deletes it instead of answering it with one more message.               *)
OwnMessageDeleted ==
    [][\A n \in 0 .. MaxCounter - 1 :
          mesg = Other /\ mesg' = [type |-> "ACK", id |-> ConfirmationId(n)]
          => Len(list') <= Len(list) /\ messagecounter' = messagecounter]_vars

=============================================================================

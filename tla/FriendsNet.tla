------------------------------ MODULE FriendsNet ------------------------------
(***************************************************************************)
(* The clients of the friends server (friends.c and the dialog that shows  *)
(* a message, splash.c), the server's table and the datagrams in between.  *)
(*                                                                         *)
(* A client is one thread: the agent sends a datagram every 15 seconds on  *)
(* a socket of its own, the redraw timer polls that socket, and a message  *)
(* is shown and acknowledged in the middle of the poll.  The server        *)
(* handles a datagram and replies in one step here, with the operators of  *)
(* FriendsServer; FriendsServer has its loops.                             *)
(*                                                                         *)
(* No window of this version calls setmessage_cb, so the texts stand for   *)
(* those of clients that still have the dialog.                            *)
(***************************************************************************)
EXTENDS FriendsProtocol, Sequences, FiniteSets

CONSTANTS
    MAXLISTENTRIES,  \* slots of the server's table
    Writers,         \* the clients whose users write
    MaxTexts,        \* bound: texts a user writes
    MaxNumber,       \* bound: message numbers a client uses; they do not wrap
    MaxCounter       \* bound: confirmations of one life of the server

ASSUME NetAssumption ==
    /\ Writers \subseteq Clients
    /\ MAXLISTENTRIES \in Nat /\ MAXLISTENTRIES > 1
    /\ {MaxTexts, MaxNumber, MaxCounter} \subseteq Nat

VARIABLES
    text,       \* messagesendtext: the number of the text, 0 when there is none
    texts,      \* texts the user has written
    number,     \* messagenumber
    awaited,    \* messageack: the number that is waited for, 0 when there is none
    sock,       \* whether sockfd is a socket
    polling,    \* pleasepollme
    inbox,      \* what has arrived at sockfd
    request,    \* the datagram under way to the server
    table,      \* the server's list
    counter,    \* its messagecounter
    stored,     \* the texts that the server has ever had (history)
    shown       \* the users' messages that clients have shown (history)

clientVars == <<text, texts, number, awaited, sock, polling>>
vars == <<text, texts, number, awaited, sock, polling, inbox, request,
          table, counter, stored, shown>>

S == INSTANCE FriendsServer WITH
        list <- table, messagecounter <- counter, now <- 0, pc <- "recv", i <- 0,
        peer <- Noname, mesg <- Other, MsgNums <- 1 .. MaxNumber, Skews <- {0},
        MaxTime <- 0

Nothing == [type |-> "nothing"]

Init ==
    /\ text = [c \in Clients |-> 0]
    /\ texts = [c \in Clients |-> 0]
    /\ number = [c \in Clients |-> 0]
    /\ awaited = [c \in Clients |-> 0]
    /\ sock = [c \in Clients |-> FALSE]
    /\ polling = [c \in Clients |-> FALSE]
    /\ inbox = [c \in Clients |-> <<>>]
    /\ request = [c \in Clients |-> Nothing]
    /\ table = <<ServerEntry(0)>>
    /\ counter = 0
    /\ stored = {}
    /\ shown = {}

-----------------------------------------------------------------------------
(* The client.                                                             *)

\* setmessage_cb and accepttext: nothing keeps the user from writing the next text while
\* one waits; here he waits.
Write(c) ==
    /\ c \in Writers
    /\ text[c] = 0 /\ texts[c] < MaxTexts
    /\ text' = [text EXCEPT ![c] = texts[c] + 1]
    /\ texts' = [texts EXCEPT ![c] = @ + 1]
    /\ UNCHANGED <<number, awaited, sock, polling, inbox, request,
                   table, counter, stored, shown>>

\* Slip: the answer is not asked to be polled for.
SendUnpolled(c, d) ==
    /\ sock' = [sock EXCEPT ![c] = TRUE]
    /\ inbox' = [inbox EXCEPT ![c] = <<>>]
    /\ request' = [request EXCEPT ![c] = d]
    /\ UNCHANGED polling

\* friends_sendmsg with a message: a new socket, on which nothing has arrived.  What was
\* under way from the old one is taken for lost.
Send(c, d) ==
    /\ sock' = [sock EXCEPT ![c] = TRUE]
    /\ inbox' = [inbox EXCEPT ![c] = <<>>]
    /\ request' = [request EXCEPT ![c] = d]
    /\ polling' = [polling EXCEPT ![c] = TRUE]

\* The socket cannot be made (then sockfd is -1), bound or written to.
SendFails(c) ==
    /\ \E made \in BOOLEAN : sock' = [sock EXCEPT ![c] = made]
    /\ inbox' = [inbox EXCEPT ![c] = <<>>]
    /\ request' = [request EXCEPT ![c] = Nothing]
    /\ UNCHANGED polling

\* friendsagent_cb with a text: every try has a number of its own.
AgentText(c) ==
    /\ text[c] > 0 /\ number[c] < MaxNumber
    /\ number' = [number EXCEPT ![c] = @ + 1]
    /\ \/ \E to \in Clients \ {c} :
             Send(c, [type |-> "SND", id |-> MsgId(number'[c], c), to |-> to, text |-> text[c]])
       \/ SendFails(c)
    /\ awaited' = [awaited EXCEPT ![c] = number'[c]]
    /\ UNCHANGED <<text, texts, table, counter, stored, shown>>

\* Slip: the socket of an answer that has not come is kept, and nothing is sent on it.
AgentPositionOnce(c) ==
    /\ text[c] = 0 /\ ~sock[c]
    /\ Send(c, [type |-> "POS", id |-> OwnId(c)]) \/ SendFails(c)
    /\ UNCHANGED <<text, texts, number, awaited, table, counter, stored, shown>>

\* friendsagent_cb without one.
AgentPosition(c) ==
    /\ text[c] = 0
    /\ Send(c, [type |-> "POS", id |-> OwnId(c)]) \/ SendFails(c)
    /\ UNCHANGED <<text, texts, number, awaited, table, counter, stored, shown>>

-----------------------------------------------------------------------------
(* The poll, calldrawmarker_cb: friends_sendmsg without a message reads what has *)
(* arrived, until nothing is left, $END:$ comes, or a message for the user is    *)
(* found: message_cb shows it and acknowledges it on a new socket, where nothing *)
(* has arrived.  The old one is left open with the rest of the reply.            *)

\* Slip: without a number to compare with, any message is taken for the answer.
AcknowledgesAny(c, x) ==
    x.kind = "SND" /\ (awaited[c] = 0 \/ x.id = MsgId(awaited[c], c))

\* strlen (messageack) > 0 && strncmp (recvline, messageack, ...) == 0
Acknowledges(c, x) ==
    x.kind = "SND" /\ awaited[c] > 0 /\ x.id = MsgId(awaited[c], c)

\* Slip: the name of the addressee is not compared.
ForAnybody(c, x) == x.kind = "SND" /\ ~Acknowledges(c, x)

\* A message for the user, and the places of those that have arrived.
ForUser(c, x) == x.kind = "SND" /\ ~Acknowledges(c, x) /\ x.to = c
Messages(c) == {k \in DOMAIN inbox[c] : ForUser(c, inbox[c][k])}

\* The answer to the own text is read if it comes before the place k.
TakeAnswer(c, k) ==
    IF \E j \in 1 .. k - 1 : Acknowledges(c, inbox[c][j])
    THEN /\ text' = [text EXCEPT ![c] = 0]
         /\ awaited' = [awaited EXCEPT ![c] = 0]
    ELSE UNCHANGED <<text, awaited>>

FromServer == [pre : Nat, suf : {Server, Shifted}]

PollMessage(c) ==
    /\ polling[c] /\ sock[c]
    /\ \E k \in Messages(c) :
        /\ \A j \in Messages(c) : k <= j
        /\ TakeAnswer(c, k)
        /\ shown' = shown \cup {<<id, c>> : id \in {inbox[c][k].id} \ FromServer}
        /\ Send(c, [type |-> "ACK", id |-> inbox[c][k].id]) \/ SendFails(c)
    /\ UNCHANGED <<texts, number, table, counter, stored>>

\* All is read; $END:$ closes the socket, without it the polls go on.
PollRest(c) ==
    /\ polling[c] /\ sock[c]
    /\ inbox[c] # <<>> /\ Messages(c) = {}
    /\ TakeAnswer(c, Len(inbox[c]) + 1)
    /\ inbox' = [inbox EXCEPT ![c] = <<>>]
    /\ LET ends == \E k \in DOMAIN inbox[c] : inbox[c][k].kind = "END"
       IN /\ sock' = [sock EXCEPT ![c] = ~ends]
          /\ polling' = [polling EXCEPT ![c] = ~ends]
    /\ UNCHANGED <<texts, number, request, table, counter, stored, shown>>

Poll(c) == PollMessage(c) \/ PollRest(c)

-----------------------------------------------------------------------------
(* The network and the server.                                             *)

Lose(c) ==
    /\ request[c] # Nothing
    /\ request' = [request EXCEPT ![c] = Nothing]
    /\ UNCHANGED <<clientVars, inbox, table, counter, stored, shown>>

\* What the server does with a datagram before it replies.
Served(c, d) ==
    \/ /\ d.type = "POS"
       /\ table' = S!Upsert(Position(c, 0))
       /\ UNCHANGED <<counter, stored>>
    \/ /\ d.type = "SND"
       /\ table' = S!Upsert(Message(d.id.pre, c, d.to, 0))
       /\ stored' = stored \cup {<<c, d.text>>}
       /\ UNCHANGED counter
    \/ /\ d.type = "ACK" /\ S!Holding(d.id) = {}
       /\ UNCHANGED <<table, counter, stored>>
    \/ /\ d.type = "ACK" /\ d.id.suf = Server
       /\ \E k \in S!Holding(d.id) : table' = S!Without(k)
       /\ UNCHANGED <<counter, stored>>
    \/ /\ d.type = "ACK" /\ d.id.suf # Server
       /\ counter < MaxCounter
       /\ \E k \in S!Holding(d.id) : \E to \in S!SenderNames(d.id.suf) :
             table' = [table EXCEPT ![k] = Confirmation(counter, to, table[k].to, 0)]
       /\ counter' = counter + 1
       /\ UNCHANGED stored

End == [kind |-> "END"]

\* The datagrams of a reply: the table, and $END:$.
Reply(t) == Append(t, End)

\* Those whose loss matters: the lines with positions only fill the list of friends.
Losable(t) == {k \in DOMAIN Reply(t) : Reply(t)[k].kind \in {"SND", "END"}}

\* What arrives of a reply; bound: at most one datagram is lost.
Without(t, k) == [j \in DOMAIN t |-> IF j < k THEN Reply(t)[j] ELSE Reply(t)[j + 1]]
Arriving(t, whole) == IF whole THEN {Reply(t)} ELSE {Without(t, k) : k \in Losable(t)}

\* The server handles the request of c and sends its table to the socket it came from.
Serve(c, whole) ==
    /\ request[c] # Nothing
    /\ Served(c, request[c])
    /\ request' = [request EXCEPT ![c] = Nothing]
    /\ \E reply \in Arriving(table', whole) :
          inbox' = [inbox EXCEPT ![c] = IF sock[c] THEN reply ELSE <<>>]
    /\ UNCHANGED <<clientVars, shown>>

\* A message gets too old; positions are renewed before they do.
Expire ==
    /\ \E k \in DOMAIN table : table[k].kind = "SND" /\ table' = S!Without(k)
    /\ UNCHANGED <<clientVars, inbox, request, counter, stored, shown>>

\* The server is started again.
RestartServer ==
    /\ table' = <<ServerEntry(0)>>
    /\ counter' = 0
    /\ UNCHANGED <<clientVars, inbox, request, stored, shown>>

-----------------------------------------------------------------------------
Client(c) == Write(c) \/ AgentText(c) \/ AgentPosition(c) \/ Poll(c)

Next ==
    \/ \E c \in Clients : Client(c) \/ Lose(c) \/ \E whole \in BOOLEAN : Serve(c, whole)
    \/ Expire \/ RestartServer

Spec == Init /\ [][Next]_vars

\* What is fair to a client that only reads: the agent's timer does not stop, and its
\* datagrams are sent now and then; some of them, and some acknowledgements, arrive and
\* are answered without loss; and the seven polls between two calls of the agent do not
\* miss all of those answers.
Asks(c) == AgentPosition(c) /\ request'[c] # Nothing
Answers(c, type) == request[c].type = type /\ Serve(c, TRUE)
PollWhole(c) ==
    inbox[c] = Reply(table) /\ PollMessage(c) /\ request'[c] # Nothing

FairSpec ==
    /\ Spec
    /\ \A c \in Clients \ Writers :
          /\ SF_vars(Asks(c)) /\ SF_vars(PollWhole(c))
          /\ SF_vars(Answers(c, "POS")) /\ SF_vars(Answers(c, "ACK"))

-----------------------------------------------------------------------------
(* Properties.                                                             *)

\* A client forgets a text (friends.c:444-449) only when the server has had it: lost
\* datagrams, replies to other requests and other clients' messages never count as the
\* answer.
ForgottenIsStored ==
    \A c \in Clients : \A n \in 1 .. texts[c] : n = text[c] \/ <<c, n>> \in stored

\* "The user ... has read your message!": when the server says so that user's client has
\* shown a message, whatever was lost, repeated under another number or asked again.
ConfirmedIsShown ==
    \A k \in DOMAIN table :
        table[k].kind = "SND" /\ table[k].id.suf \notin Clients =>
            \E x \in shown : x[2] = table[k].about

\* What arrives is read: whenever a reply waits at the socket, or is going to, the timer
\* polls it.
AnswersArePolled ==
    \A c \in Clients : inbox[c] # <<>> \/ request[c] # Nothing => polling[c] /\ sock[c]

\* A message that stays at the server is shown to its addressee, although the poll that
\* finds it drops the rest of the reply, and its acknowledgement may be lost.
Waits(id, c) == \E k \in DOMAIN table : table[k].id = id /\ table[k].kind = "SND"
                                          /\ table[k].to = c

MessagesAreShown ==
    \A c \in Clients \ Writers, d \in Writers, n \in 1 .. MaxNumber :
        Waits(MsgId(n, d), c) ~> (<<MsgId(n, d), c>> \in shown \/ ~Waits(MsgId(n, d), c))

=============================================================================

---------------------------- MODULE FriendsNetProofs ----------------------------
(***************************************************************************)
(* Proofs about FriendsNet, for every number of clients, slots, texts and  *)
(* tries: a text is forgotten only when the server has had it, what the    *)
(* server confirms was shown, and what arrives is polled.  Both of the     *)
(* first follow messages by their numbers, of which each is used once.     *)
(***************************************************************************)
EXTENDS FriendsNet, TLAPS

-----------------------------------------------------------------------------
(* Types, and the lines that are about.                                    *)

Pos == [type : {"POS"}, id : Id]
Snd == [type : {"SND"}, id : Id, to : Clients, text : Nat]
Ack == [type : {"ACK"}, id : Id]
\* An entry of the table; a name may be what memory held.
Row == [id : Id, kind : {"SRV", "POS", "SND"}, to : Names \cup Suffixes, about : Names \cup Suffixes,
        times : Int]
Line == Row \cup {End}

TypeOK ==
    /\ text \in [Clients -> Nat] /\ texts \in [Clients -> Nat]
    /\ number \in [Clients -> Nat] /\ awaited \in [Clients -> Nat]
    /\ sock \in [Clients -> BOOLEAN] /\ polling \in [Clients -> BOOLEAN]
    /\ inbox \in [Clients -> Seq(Line)]
    /\ request \in [Clients -> Pos \cup Snd \cup Ack \cup {Nothing}]
    /\ table \in Seq(Row)
    /\ counter \in Nat /\ counter <= MaxCounter

\* The lines in the table and in the inboxes, and the messages among them.
Lines == {table[k] : k \in DOMAIN table}
            \cup UNION {{inbox[c][k] : k \in DOMAIN inbox[c]} : c \in Clients}
Msgs == {e \in Lines : e.kind = "SND"}

LEMMA EntryTypes ==
  /\ ServerEntry(0) \in Row
  /\ \A c \in Clients : Position(c, 0) \in Row
  /\ \A n \in Nat, c \in Clients, to \in Names : Message(n, c, to, 0) \in Row
  /\ \A n \in Nat, to, about \in Names \cup Suffixes : Confirmation(n, to, about, 0) \in Row
<1>1. MessageTime(0) \in Int
  BY ProtocolAssumption DEF MessageTime
<1>2. QED
  BY <1>1, ProtocolAssumption
     DEF Row, ServerEntry, Position, Message, Confirmation, Id, OwnId, MsgId, ConfirmationId,
         OwnPrefix, Suffixes, Names

\* What becomes of the table: every entry was there before, or is the new one.
LEMMA UpsertLines ==
  ASSUME table \in Seq(Row), NEW e \in Row
  PROVE  /\ S!Upsert(e) \in Seq(Row)
         /\ \A k \in DOMAIN S!Upsert(e) :
               S!Upsert(e)[k] = e \/ \E j \in DOMAIN table : S!Upsert(e)[k] = table[j]
<1>1. CASE S!Holding(e.id) # {}
  BY <1>1 DEF S!Upsert
<1>2. CASE S!Holding(e.id) = {}
  BY <1>2 DEF S!Upsert
<1>3. QED
  BY <1>1, <1>2

LEMMA WithoutLines ==
  ASSUME table \in Seq(Row), NEW k \in DOMAIN table
  PROVE  /\ S!Without(k) \in Seq(Row)
         /\ \A i \in DOMAIN S!Without(k) : \E j \in DOMAIN table : S!Without(k)[i] = table[j]
  BY DEF S!Without

LEMMA ReplyLines ==
  ASSUME NEW t \in Seq(Row), NEW whole \in BOOLEAN, NEW reply \in Arriving(t, whole)
  PROVE  /\ reply \in Seq(Line)
         /\ \A k \in DOMAIN reply : reply[k] = End \/ \E j \in DOMAIN t : reply[k] = t[j]
<1>1. /\ Reply(t) \in Seq(Line) /\ Len(Reply(t)) = Len(t) + 1
      /\ \A k \in 1 .. Len(t) + 1 : Reply(t)[k] = End \/ \E j \in DOMAIN t : Reply(t)[k] = t[j]
  BY DEF Reply, Line
<1>2. CASE reply = Reply(t)
  BY <1>1, <1>2
<1>3. CASE \E k \in Losable(t) : reply = Without(t, k)
  BY <1>1, <1>3 DEF Without, Losable
<1>4. QED
  BY <1>2, <1>3 DEF Arriving

\* A client that reads or asks adds no message; its inbox is emptied.
LEMMA ClientLines ==
  ASSUME TypeOK, NEW c \in Clients, inbox' \in {inbox, [inbox EXCEPT ![c] = <<>>]}, UNCHANGED table
  PROVE  inbox' \in [Clients -> Seq(Line)] /\ Msgs' \subseteq Msgs
<1>1. inbox' \in [Clients -> Seq(Line)]
  <2>1. <<>> \in Seq(Line)
    OBVIOUS
  <2>2. QED
    BY <2>1 DEF TypeOK
<1>2. ASSUME NEW d \in Clients, NEW k \in DOMAIN inbox'[d]
      PROVE  k \in DOMAIN inbox[d] /\ inbox'[d][k] = inbox[d][k]
  BY DEF TypeOK
<1>3. Lines' \subseteq Lines
  BY <1>2 DEF Lines
<1>4. QED
  BY <1>1, <1>3 DEF Msgs

\* The server adds the entry that it writes.
LEMMA ServedLines ==
  ASSUME TypeOK, NEW c \in Clients, NEW e, table' \in Seq(Row),
         \A k \in DOMAIN table' : table'[k] = e \/ \E j \in DOMAIN table : table'[k] = table[j],
         NEW whole \in BOOLEAN, NEW reply \in Arriving(table', whole),
         inbox' \in {inbox, [inbox EXCEPT ![c] = <<>>], [inbox EXCEPT ![c] = reply]}
  PROVE  inbox' \in [Clients -> Seq(Line)] /\ Msgs' \subseteq Msgs \cup {e}
<1>1. /\ reply \in Seq(Line)
      /\ \A k \in DOMAIN reply : reply[k] = End \/ \E j \in DOMAIN table' : reply[k] = table'[j]
  BY ReplyLines
<1>2. inbox' \in [Clients -> Seq(Line)]
  <2>1. <<>> \in Seq(Line)
    OBVIOUS
  <2>2. ASSUME NEW line \in Seq(Line) PROVE [inbox EXCEPT ![c] = line] \in [Clients -> Seq(Line)]
    BY DEF TypeOK
  <2>3. QED
    BY <1>1, <2>1, <2>2 DEF TypeOK
<1>3. \A k \in DOMAIN table' : table'[k] \in Lines \cup {e}
  BY DEF Lines
<1>4. ASSUME NEW d \in Clients, NEW k \in DOMAIN inbox'[d]
      PROVE  inbox'[d][k] \in Lines \cup {e, End}
  <2>1. inbox'[d] \in {inbox[d], <<>>, reply}
    BY DEF TypeOK
  <2>2. CASE inbox'[d] = inbox[d]
    BY <2>2 DEF Lines
  <2>3. CASE inbox'[d] = reply
    BY <1>1, <1>3, <2>3
  <2>4. QED
    BY <2>1, <2>2, <2>3
<1>5. Lines' \subseteq Lines \cup {e, End}
  BY <1>3, <1>4 DEF Lines
<1>6. QED
  BY <1>2, <1>5 DEF Msgs, End

\* What the server does with a datagram, by what it writes.
OnlyEntry(e) ==
    \A k \in DOMAIN table' : table'[k] = e \/ \E j \in DOMAIN table : table'[k] = table[j]

WritesNoMessage(c) ==
    /\ request[c].type # "SND" /\ UNCHANGED stored
    /\ \E e : e.kind # "SND" /\ (e = End \/ e.id.pre = OwnPrefix) /\ OnlyEntry(e)

WritesMessage(c) ==
    /\ request[c].type = "SND"
    /\ stored' = stored \cup {<<c, request[c].text>>}
    /\ OnlyEntry(Message(request[c].id.pre, c, request[c].to, 0))

WritesConfirmation(c) ==
    /\ request[c].type = "ACK" /\ request[c].id.suf # Server /\ UNCHANGED stored
    /\ counter \in Nat /\ counter < MaxCounter
    /\ \E k \in S!Holding(request[c].id), to \in Names \cup Suffixes :
          OnlyEntry(Confirmation(counter, to, table[k].to, 0))

LEMMA ServedTable ==
  ASSUME TypeOK, NEW c \in Clients, request[c] # Nothing, Served(c, request[c])
  PROVE  /\ table' \in Seq(Row) /\ counter' \in Nat /\ counter' <= MaxCounter
         /\ WritesNoMessage(c) \/ WritesMessage(c) \/ WritesConfirmation(c)
<1> DEFINE d == request[c]
<1>1. d \in Pos \cup Snd \cup Ack
  BY DEF TypeOK
<1>2. CASE d.type = "POS"
  <2>1. table' = S!Upsert(Position(c, 0)) /\ UNCHANGED <<counter, stored>>
    BY <1>2 DEF Served
  <2>2. /\ Position(c, 0) \in Row /\ Position(c, 0).kind # "SND"
        /\ Position(c, 0).id.pre = OwnPrefix
    BY EntryTypes DEF Position, OwnId
  <2>3. QED
    BY <1>2, <2>1, <2>2, UpsertLines DEF TypeOK, WritesNoMessage, OnlyEntry
<1>3. CASE d.type = "SND"
  <2>1. /\ table' = S!Upsert(Message(d.id.pre, c, d.to, 0)) /\ UNCHANGED counter
        /\ stored' = stored \cup {<<c, d.text>>}
    BY <1>3 DEF Served
  <2>2. d.id \in Id /\ d.to \in Clients /\ d.to \in Names
    BY <1>1, <1>3 DEF Pos, Snd, Ack, Names
  <2>3. Message(d.id.pre, c, d.to, 0) \in Row
    BY <2>2, ProtocolAssumption
       DEF Row, Message, MessageTime, MsgId, Id, Suffixes, Names
  <2>4. QED
    BY <1>3, <2>1, <2>3, UpsertLines DEF TypeOK, WritesMessage, OnlyEntry
<1>4. CASE d.type = "ACK"
  <2>0. End.kind # "SND"
    BY DEF End
  <2>1. CASE UNCHANGED <<table, counter, stored>>
    BY <1>4, <2>0, <2>1 DEF TypeOK, WritesNoMessage, OnlyEntry
  <2>2. CASE (\E k \in S!Holding(d.id) : table' = S!Without(k)) /\ UNCHANGED <<counter, stored>>
    BY <1>4, <2>0, <2>2, WithoutLines DEF TypeOK, S!Holding, WritesNoMessage, OnlyEntry
  <2>3. CASE /\ d.id.suf # Server /\ counter < MaxCounter /\ counter' = counter + 1
             /\ UNCHANGED stored
             /\ \E k \in S!Holding(d.id), to \in S!SenderNames(d.id.suf) :
                   table' = [table EXCEPT ![k] = Confirmation(counter, to, table[k].to, 0)]
    <3>1. PICK k \in S!Holding(d.id), to \in S!SenderNames(d.id.suf) :
             table' = [table EXCEPT ![k] = Confirmation(counter, to, table[k].to, 0)]
      BY <2>3
    <3>2. k \in DOMAIN table /\ table[k] \in Row /\ table[k].to \in Names \cup Suffixes
      <4>1. k \in DOMAIN table /\ table[k] \in Row
        BY DEF S!Holding, TypeOK
      <4>2. QED
        BY <4>1 DEF Row
    <3>3. to \in Names \cup Suffixes
      <4>1. d.id.suf \in Suffixes
        BY <1>1, <1>4 DEF Pos, Snd, Ack, Id
      <4>2. \A j : (IF table[j].kind = "POS" THEN {d.id.suf} ELSE S!Names) \subseteq Names \cup Suffixes
        BY <4>1 DEF S!Names, Names
      <4>3. QED
        BY <4>2 DEF S!SenderNames
    <3>4. Confirmation(counter, to, table[k].to, 0) \in Row
      BY <3>2, <3>3, EntryTypes DEF TypeOK
    <3>5. table' \in Seq(Row)
      BY <3>1, <3>2, <3>4 DEF TypeOK
    <3>6. OnlyEntry(Confirmation(counter, to, table[k].to, 0))
      BY <3>1, <3>2 DEF TypeOK, OnlyEntry
    <3>7. counter' \in Nat /\ counter' <= MaxCounter
      BY <2>3, NetAssumption DEF TypeOK
    <3>8. QED
      BY <1>4, <2>3, <3>3, <3>5, <3>6, <3>7 DEF TypeOK, WritesConfirmation
  <2>4. QED
    BY <1>4, <2>1, <2>2, <2>3 DEF Served
<1>5. QED
  BY <1>1, <1>2, <1>3, <1>4 DEF Pos, Snd, Ack

-----------------------------------------------------------------------------
(* What each step does, as far as it matters here.                         *)

\* A new request, or none, on a socket of its own.
Requests(c, ds) ==
    /\ inbox' = [inbox EXCEPT ![c] = <<>>]
    /\ \E d \in ds : request' = [request EXCEPT ![c] = d]

LEMMA AsksOf ==
  ASSUME NEW c, NEW d, Send(c, d) \/ SendFails(c)
  PROVE  Requests(c, {d, Nothing})
  BY DEF Send, SendFails, Requests

\* An answer is taken only for the number that is waited for.
Taken(c) ==
    \/ UNCHANGED <<text, awaited>>
    \/ /\ text' = [text EXCEPT ![c] = 0] /\ awaited' = [awaited EXCEPT ![c] = 0]
       /\ awaited[c] > 0
       /\ \E e \in Msgs : e.id = MsgId(awaited[c], c)

LEMMA TakesAnswer ==
  ASSUME TypeOK, NEW c \in Clients, NEW k \in Nat, k <= Len(inbox[c]) + 1, TakeAnswer(c, k)
  PROVE  Taken(c)
<1>1. ASSUME NEW j \in 1 .. k - 1, Acknowledges(c, inbox[c][j])
      PROVE  awaited[c] > 0 /\ \E e \in Msgs : e.id = MsgId(awaited[c], c)
  <2>1. j \in DOMAIN inbox[c]
    BY DEF TypeOK
  <2>2. inbox[c][j] \in Lines
    BY <2>1 DEF Lines
  <2>3. QED
    BY <1>1, <2>2 DEF Acknowledges, Msgs
<1>2. QED
  BY <1>1 DEF TakeAnswer, Taken

\* The poll that finds a message for the user.
LEMMA PollsMessage ==
  ASSUME TypeOK, NEW c \in Clients, PollMessage(c)
  PROVE  /\ Taken(c) /\ UNCHANGED <<texts, number, table, counter, stored>>
         /\ \E e \in Msgs : /\ e.to = c
                            /\ shown' = shown \cup {<<id, c>> : id \in {e.id} \ FromServer}
                            /\ Requests(c, {[type |-> "ACK", id |-> e.id], Nothing})
                            /\ e \in Row
<1>1. PICK k \in Messages(c) :
         /\ TakeAnswer(c, k)
         /\ shown' = shown \cup {<<id, c>> : id \in {inbox[c][k].id} \ FromServer}
         /\ Send(c, [type |-> "ACK", id |-> inbox[c][k].id]) \/ SendFails(c)
  BY DEF PollMessage
<1>2. k \in DOMAIN inbox[c] /\ inbox[c][k].kind = "SND" /\ inbox[c][k].to = c
  BY DEF Messages, ForUser
<1>3. k \in Nat /\ k <= Len(inbox[c]) + 1 /\ inbox[c][k] \in Line
  BY <1>2 DEF TypeOK
<1>4. inbox[c][k] \in Msgs /\ inbox[c][k] \in Row
  BY <1>2, <1>3 DEF Lines, Msgs, Line, End
<1>5. Taken(c)
  BY <1>1, <1>3, TakesAnswer
<1>6. Requests(c, {[type |-> "ACK", id |-> inbox[c][k].id], Nothing})
  BY <1>1, AsksOf
<1>7. UNCHANGED <<texts, number, table, counter, stored>>
  BY DEF PollMessage
<1>8. QED
  BY <1>1, <1>2, <1>4, <1>5, <1>6, <1>7

LEMMA PollsRest ==
  ASSUME TypeOK, NEW c \in Clients, PollRest(c)
  PROVE  /\ Taken(c) /\ UNCHANGED <<texts, number, request, table, counter, stored, shown>>
         /\ inbox' = [inbox EXCEPT ![c] = <<>>]
<1>1. inbox[c] \in Seq(Line)
  BY DEF TypeOK
<1>2. Len(inbox[c]) + 1 \in Nat
  BY <1>1
<1>3. QED
  BY <1>2, TakesAnswer DEF PollRest

-----------------------------------------------------------------------------
(* Types.                                                                  *)

LEMMA TypeStarts == Init => TypeOK
<1> SUFFICES ASSUME Init PROVE TypeOK
  OBVIOUS
<1>2. table \in Seq(Row)
  <2>1. table = <<ServerEntry(0)>>
    BY DEF Init
  <2>2. QED
    BY <2>1, EntryTypes
<1>3. <<>> \in Seq(Line)
  OBVIOUS
<1>4. inbox \in [Clients -> Seq(Line)]
  BY <1>3 DEF Init
<1>5. request \in [Clients -> Pos \cup Snd \cup Ack \cup {Nothing}]
  BY DEF Init
<1>6. counter \in Nat /\ counter <= MaxCounter
  BY NetAssumption DEF Init
<1>7. /\ text \in [Clients -> Nat] /\ texts \in [Clients -> Nat]
      /\ number \in [Clients -> Nat] /\ awaited \in [Clients -> Nat]
      /\ sock \in [Clients -> BOOLEAN] /\ polling \in [Clients -> BOOLEAN]
  BY DEF Init
<1>8. QED
  BY <1>2, <1>4, <1>5, <1>6, <1>7 DEF TypeOK

LEMMA RequestTypes ==
  ASSUME TypeOK, NEW c \in Clients, NEW ds, ds \subseteq Pos \cup Snd \cup Ack \cup {Nothing},
         Requests(c, ds)
  PROVE  /\ request' \in [Clients -> Pos \cup Snd \cup Ack \cup {Nothing}]
         /\ inbox' \in [Clients -> Seq(Line)]
<1>1. <<>> \in Seq(Line)
  OBVIOUS
<1>2. QED
  BY <1>1 DEF TypeOK, Requests

LEMMA TakenTypes ==
  ASSUME TypeOK, NEW c \in Clients, Taken(c)
  PROVE  text' \in [Clients -> Nat] /\ awaited' \in [Clients -> Nat]
<1>1. text \in [Clients -> Nat] /\ awaited \in [Clients -> Nat]
  BY DEF TypeOK
<1>2. /\ [text EXCEPT ![c] = 0] \in [Clients -> Nat]
      /\ [awaited EXCEPT ![c] = 0] \in [Clients -> Nat]
  BY <1>1
<1>3. QED
  BY <1>1, <1>2 DEF Taken

LEMMA IdTypes ==
  ASSUME NEW c \in Clients
  PROVE  OwnId(c) \in Id /\ \A n \in Nat : MsgId(n, c) \in Id
  BY DEF OwnId, MsgId, Id, OwnPrefix, Suffixes

LEMMA TypeStep == TypeOK /\ [Next]_vars => TypeOK'
<1> SUFFICES ASSUME TypeOK, Next PROVE TypeOK'
  BY DEF vars, TypeOK
<1>1. ASSUME NEW c \in Clients, Write(c) PROVE TypeOK'
  BY <1>1 DEF Write, TypeOK
<1>2. ASSUME NEW c \in Clients, AgentText(c) PROVE TypeOK'
  <2>1. number' \in [Clients -> Nat] /\ number'[c] \in Nat
        /\ awaited' = [awaited EXCEPT ![c] = number'[c]]
    BY <1>2 DEF AgentText, TypeOK
  <2>2. \E ds : ds \subseteq Snd \cup {Nothing} /\ Requests(c, ds)
    <3>1. CASE SendFails(c)
      <4>1. Requests(c, {Nothing})
        BY <3>1 DEF SendFails, Requests
      <4>2. QED
        BY <4>1
    <3>2. ASSUME NEW to \in Clients \ {c},
                 Send(c, [type |-> "SND", id |-> MsgId(number'[c], c), to |-> to, text |-> text[c]])
          PROVE  \E ds : ds \subseteq Snd \cup {Nothing} /\ Requests(c, ds)
      <4> DEFINE d == [type |-> "SND", id |-> MsgId(number'[c], c), to |-> to, text |-> text[c]]
      <4>1. d \in Snd
        BY <2>1, IdTypes DEF Snd, TypeOK
      <4>2. Requests(c, {d, Nothing})
        BY <3>2, AsksOf
      <4>3. QED
        BY <4>1, <4>2
    <3>3. QED
      BY <1>2, <3>1, <3>2 DEF AgentText
  <2>3. sock' \in [Clients -> BOOLEAN] /\ polling' \in [Clients -> BOOLEAN]
    BY <1>2 DEF AgentText, Send, SendFails, TypeOK
  <2>4. QED
    BY <1>2, <2>1, <2>2, <2>3, RequestTypes DEF AgentText, TypeOK
<1>3. ASSUME NEW c \in Clients, AgentPosition(c) PROVE TypeOK'
  <2>1. Requests(c, {[type |-> "POS", id |-> OwnId(c)], Nothing})
    BY <1>3, AsksOf DEF AgentPosition
  <2>2. [type |-> "POS", id |-> OwnId(c)] \in Pos
    BY IdTypes DEF Pos
  <2>3. sock' \in [Clients -> BOOLEAN] /\ polling' \in [Clients -> BOOLEAN]
    BY <1>3 DEF AgentPosition, Send, SendFails, TypeOK
  <2>4. QED
    BY <1>3, <2>1, <2>2, <2>3, RequestTypes DEF AgentPosition, TypeOK
<1>4. ASSUME NEW c \in Clients, PollMessage(c) PROVE TypeOK'
  <2>1. PICK e \in Row : Requests(c, {[type |-> "ACK", id |-> e.id], Nothing})
    BY <1>4, PollsMessage
  <2>2. [type |-> "ACK", id |-> e.id] \in Ack
    BY DEF Ack, Row
  <2>3. sock' \in [Clients -> BOOLEAN] /\ polling' \in [Clients -> BOOLEAN]
    BY <1>4 DEF PollMessage, Send, SendFails, TypeOK
  <2>4. Taken(c) /\ UNCHANGED <<texts, number, table, counter>>
    BY <1>4, PollsMessage
  <2>5. QED
    BY <2>1, <2>2, <2>3, <2>4, TakenTypes, RequestTypes DEF TypeOK
<1>5. ASSUME NEW c \in Clients, PollRest(c) PROVE TypeOK'
  <2>1. Taken(c) /\ UNCHANGED <<texts, number, request, table, counter>>
        /\ inbox' \in [Clients -> Seq(Line)]
    BY <1>5, PollsRest, ClientLines
  <2>2. sock' \in [Clients -> BOOLEAN] /\ polling' \in [Clients -> BOOLEAN]
    BY <1>5 DEF PollRest, TypeOK
  <2>3. QED
    BY <2>1, <2>2, TakenTypes DEF TypeOK
<1>6. ASSUME NEW c \in Clients, Lose(c) PROVE TypeOK'
  BY <1>6 DEF Lose, clientVars, TypeOK
<1>7. ASSUME NEW c \in Clients, NEW whole \in BOOLEAN, Serve(c, whole) PROVE TypeOK'
  <2>1. table' \in Seq(Row) /\ counter' \in Nat /\ counter' <= MaxCounter
    BY <1>7, ServedTable DEF Serve
  <2>2. PICK reply \in Arriving(table', whole) :
           inbox' = [inbox EXCEPT ![c] = IF sock[c] THEN reply ELSE <<>>]
    BY <1>7 DEF Serve
  <2>3. reply \in Seq(Line) /\ <<>> \in Seq(Line)
    BY <2>1, ReplyLines
  <2>4. inbox' \in [Clients -> Seq(Line)]
    BY <2>2, <2>3 DEF TypeOK
  <2>5. QED
    BY <1>7, <2>1, <2>4 DEF Serve, clientVars, TypeOK
<1>8. CASE Expire
  BY <1>8, WithoutLines DEF Expire, clientVars, TypeOK
<1>9. CASE RestartServer
  BY <1>9, EntryTypes, NetAssumption DEF RestartServer, clientVars, TypeOK
<1>10. QED
  BY <1>1, <1>2, <1>3, <1>4, <1>5, <1>6, <1>7, <1>8, <1>9 DEF Next, Client, Poll

-----------------------------------------------------------------------------
(* What arrives is polled.                                                 *)

\* A new socket is polled, and nothing has arrived there before the server answers.
Listens ==
    \A c \in Clients :
        /\ inbox[c] # <<>> \/ request[c] # Nothing => polling[c] /\ sock[c]
        /\ inbox[c] # <<>> => request[c] = Nothing

LEMMA ListensStep == TypeOK /\ Listens /\ [Next]_vars => Listens'
<1> SUFFICES ASSUME TypeOK, Listens, Next PROVE Listens'
  BY DEF vars, Listens
<1>1. ASSUME NEW c \in Clients, Write(c) PROVE Listens'
  BY <1>1 DEF Write, Listens
<1>2. ASSUME NEW c \in Clients, (\E d : Send(c, d)) \/ SendFails(c) PROVE Listens'
  BY <1>2 DEF Send, SendFails, Listens, TypeOK
<1>3. ASSUME NEW c \in Clients, AgentText(c) \/ AgentPosition(c) \/ PollMessage(c)
      PROVE  Listens'
  BY <1>2, <1>3 DEF AgentText, AgentPosition, PollMessage
<1>4. ASSUME NEW c \in Clients, PollRest(c) PROVE Listens'
  BY <1>4 DEF PollRest, Listens, TypeOK
<1>5. ASSUME NEW c \in Clients, Lose(c) PROVE Listens'
  BY <1>5 DEF Lose, clientVars, Listens, TypeOK
<1>6. ASSUME NEW c \in Clients, NEW whole \in BOOLEAN, Serve(c, whole) PROVE Listens'
  BY <1>6 DEF Serve, clientVars, Listens, TypeOK
<1>7. ASSUME Expire \/ RestartServer PROVE Listens'
  BY <1>7 DEF Expire, RestartServer, clientVars, Listens
<1>8. QED
  BY <1>1, <1>3, <1>4, <1>5, <1>6, <1>7 DEF Next, Client, Poll

\* Whenever a reply waits at the socket of a client, or is going to, the timer polls that
\* socket (friends.c:369, friends.c:501-508).
THEOREM RepliesAreRead == Spec => []AnswersArePolled
<1>1. Init => TypeOK /\ Listens
  BY TypeStarts DEF Init, Listens
<1>2. TypeOK /\ Listens /\ [Next]_vars => TypeOK' /\ Listens'
  BY TypeStep, ListensStep
<1>3. Listens => AnswersArePolled
  BY DEF Listens, AnswersArePolled
<1>4. QED
  BY <1>1, <1>2, <1>3, PTL DEF Spec

-----------------------------------------------------------------------------
(* What the steps do with the messages.                                    *)

\* A step of the server alone.
LEMMA TableLines ==
  ASSUME UNCHANGED inbox,
         \A k \in DOMAIN table' :
            table'[k].kind # "SND" \/ \E j \in DOMAIN table : table'[k] = table[j]
  PROVE  Msgs' \subseteq Msgs
  BY DEF Msgs, Lines

AddsMessage(e) == Msgs' \subseteq Msgs \cup {e}

LEMMA ServedMessages ==
  ASSUME TypeOK, NEW c \in Clients, NEW whole \in BOOLEAN, Serve(c, whole)
  PROVE  /\ request' = [request EXCEPT ![c] = Nothing]
         /\ UNCHANGED <<text, texts, number, awaited, shown>>
         /\ WritesNoMessage(c) \/ WritesMessage(c) \/ WritesConfirmation(c)
         /\ WritesNoMessage(c) => Msgs' \subseteq Msgs
         /\ \A e : OnlyEntry(e) => AddsMessage(e)
<1>1. /\ request[c] # Nothing /\ Served(c, request[c])
      /\ request' = [request EXCEPT ![c] = Nothing]
      /\ UNCHANGED <<text, texts, number, awaited, shown>>
  BY DEF Serve, clientVars
<1>2. table' \in Seq(Row) /\ (WritesNoMessage(c) \/ WritesMessage(c) \/ WritesConfirmation(c))
  BY <1>1, ServedTable
<1>3. PICK reply \in Arriving(table', whole) :
         inbox' = [inbox EXCEPT ![c] = IF sock[c] THEN reply ELSE <<>>]
  BY DEF Serve
<1>4. ASSUME NEW e, OnlyEntry(e) PROVE AddsMessage(e)
  BY <1>2, <1>3, <1>4, ServedLines DEF OnlyEntry, AddsMessage
<1>5. ASSUME WritesNoMessage(c) PROVE Msgs' \subseteq Msgs
  <2>1. PICK e : e.kind # "SND" /\ OnlyEntry(e)
    BY <1>5 DEF WritesNoMessage
  <2>2. AddsMessage(e)
    BY <1>4, <2>1
  <2>3. QED
    BY <2>1, <2>2 DEF AddsMessage, Msgs
<1>6. QED
  BY <1>1, <1>2, <1>4, <1>5

\* The server drops an old message, or starts with an empty table.
LEMMA DroppedMessages ==
  ASSUME TypeOK, Expire \/ RestartServer
  PROVE  Msgs' \subseteq Msgs /\ UNCHANGED <<text, texts, number, awaited, request, stored, shown>>
<1>1. CASE Expire
  BY <1>1, WithoutLines, TableLines DEF Expire, clientVars, TypeOK
<1>2. CASE RestartServer
  <2>1. table' = <<ServerEntry(0)>> /\ ServerEntry(0).kind # "SND"
    BY <1>2 DEF RestartServer, ServerEntry
  <2>2. QED
    BY <1>2, <2>1, TableLines DEF RestartServer, clientVars
<1>3. QED
  BY <1>1, <1>2

-----------------------------------------------------------------------------
(* A text is forgotten only when the server has had it.                    *)

\* A number is used once: messages and requests have numbers that were used, and what has
\* the number that is waited for is the text that waits.
Numbered ==
    /\ \A c \in Clients : /\ awaited[c] <= number[c] /\ text[c] <= texts[c]
                          /\ text[c] = 0 => awaited[c] = 0
    /\ \A e \in Msgs : e.id.suf \in Clients => e.id.pre \in 1 .. number[e.id.suf]
    /\ \A c \in Clients : request[c].type = "SND" =>
          request[c].id.suf = c /\ request[c].id.pre \in 1 .. number[c]
    /\ \A c \in Clients : request[c].type = "SND" /\ request[c].id.pre = awaited[c] =>
          request[c].text = text[c]
    /\ \A c \in Clients : \A e \in Msgs :
          awaited[c] > 0 /\ e.id = MsgId(awaited[c], c) => <<c, text[c]>> \in stored

LEMMA TakenNumbered ==
  ASSUME TypeOK, Numbered, ForgottenIsStored, NEW c \in Clients, Taken(c), Msgs' \subseteq Msgs,
         UNCHANGED <<texts, number, stored>>,
         NEW d, d.type # "SND", request' = request \/ request' = [request EXCEPT ![c] = d]
  PROVE  Numbered' /\ ForgottenIsStored'
<1>1. /\ text \in [Clients -> Nat] /\ awaited \in [Clients -> Nat]
      /\ texts \in [Clients -> Nat] /\ number \in [Clients -> Nat]
      /\ request \in [Clients -> Pos \cup Snd \cup Ack \cup {Nothing}]
  BY DEF TypeOK
<1>2. \A x \in Clients : request'[x].type = "SND" => request'[x] = request[x]
  BY <1>1
<1>3. CASE UNCHANGED <<text, awaited>>
  BY <1>2, <1>3 DEF Numbered, ForgottenIsStored
<1>4. CASE /\ text' = [text EXCEPT ![c] = 0] /\ awaited' = [awaited EXCEPT ![c] = 0]
           /\ awaited[c] > 0 /\ \E e \in Msgs : e.id = MsgId(awaited[c], c)
  <2>1. <<c, text[c]>> \in stored
    BY <1>4 DEF Numbered
  <2>2. ForgottenIsStored'
    BY <1>1, <1>4, <2>1 DEF ForgottenIsStored
  <2>3. /\ text'[c] = 0 /\ awaited'[c] = 0
        /\ \A x \in Clients \ {c} : text'[x] = text[x] /\ awaited'[x] = awaited[x]
    BY <1>1, <1>4
  <2>4. \A x \in Clients : number[x] \in Nat /\ texts[x] \in Nat
    BY <1>1
  <2>5. \A x \in Clients : /\ awaited'[x] <= number'[x] /\ text'[x] <= texts'[x]
                           /\ text'[x] = 0 => awaited'[x] = 0
    BY <2>3, <2>4 DEF Numbered
  <2>6. \A x \in Clients : request'[x].type = "SND" =>
           /\ request'[x].id.suf = x /\ request'[x].id.pre \in 1 .. number'[x]
           /\ request'[x].id.pre = awaited'[x] => request'[x].text = text'[x]
    BY <1>2, <2>3, <2>4 DEF Numbered
  <2>7. \A x \in Clients : \A e \in Msgs' :
           awaited'[x] > 0 /\ e.id = MsgId(awaited'[x], x) => <<x, text'[x]>> \in stored'
    BY <2>3 DEF Numbered
  <2>8. QED
    BY <2>2, <2>5, <2>6, <2>7 DEF Numbered
<1>5. QED
  BY <1>3, <1>4 DEF Taken

LEMMA NumberedStep ==
  TypeOK /\ Numbered /\ ForgottenIsStored /\ [Next]_vars => Numbered' /\ ForgottenIsStored'
<1> SUFFICES ASSUME TypeOK, Numbered, ForgottenIsStored, [Next]_vars
             PROVE  Numbered' /\ ForgottenIsStored'
  OBVIOUS
<1>0. Nothing.type # "SND"
  BY DEF Nothing
<1>1. ASSUME NEW c \in Clients, Write(c) PROVE Numbered' /\ ForgottenIsStored'
  <2>1. /\ text[c] = 0 /\ text' = [text EXCEPT ![c] = texts[c] + 1]
        /\ texts' = [texts EXCEPT ![c] = @ + 1]
        /\ UNCHANGED <<number, awaited, inbox, request, table, stored>>
    BY <1>1 DEF Write
  <2>2. Msgs' = Msgs
    BY <2>1 DEF Msgs, Lines
  <2>3. /\ text'[c] = texts[c] + 1 /\ texts'[c] = texts[c] + 1 /\ texts[c] \in Nat
        /\ \A x \in Clients \ {c} : text'[x] = text[x] /\ texts'[x] = texts[x]
    BY <2>1 DEF TypeOK
  <2>4. awaited[c] = 0
    BY <2>1 DEF Numbered
  <2>5. ForgottenIsStored'
    <3> SUFFICES ASSUME NEW x \in Clients, NEW n \in 1 .. texts'[x], n # text'[x]
                 PROVE  <<x, n>> \in stored
      BY <2>1 DEF ForgottenIsStored
    <3>1. n \in 1 .. texts[x] /\ n # text[x]
      BY <2>1, <2>3
    <3>2. QED
      BY <3>1 DEF ForgottenIsStored
  <2>6. \A x \in Clients : request[x].type = "SND" => request[x].id.pre \in 1 .. number[x]
    BY DEF Numbered
  <2>7. Numbered'
    BY <2>1, <2>2, <2>3, <2>4, <2>6 DEF Numbered
  <2>8. QED
    BY <2>5, <2>7
<1>2. ASSUME NEW c \in Clients, AgentText(c) PROVE Numbered' /\ ForgottenIsStored'
  <2> DEFINE n == number[c] + 1
  <2>1. /\ text[c] > 0 /\ number' = [number EXCEPT ![c] = n] /\ number'[c] = n
        /\ awaited' = [awaited EXCEPT ![c] = n] /\ n \in Nat /\ n > 0
        /\ UNCHANGED <<text, texts, table, stored>>
    BY <1>2 DEF AgentText, TypeOK
  <2>2. PICK d : /\ Requests(c, {d, Nothing})
                 /\ d.type = "SND" => d.id = MsgId(n, c) /\ d.text = text[c]
    <3>1. CASE SendFails(c)
      BY <1>0, <3>1 DEF SendFails, Requests
    <3>2. ASSUME NEW to \in Clients \ {c},
                 Send(c, [type |-> "SND", id |-> MsgId(number'[c], c), to |-> to, text |-> text[c]])
          PROVE  \E d : /\ Requests(c, {d, Nothing})
                        /\ d.type = "SND" => d.id = MsgId(n, c) /\ d.text = text[c]
      <4> DEFINE d == [type |-> "SND", id |-> MsgId(n, c), to |-> to, text |-> text[c]]
      <4>1. Requests(c, {d, Nothing})
        BY <2>1, <3>2, AsksOf
      <4>2. d.id = MsgId(n, c) /\ d.text = text[c]
        OBVIOUS
      <4>3. QED
        BY <4>1, <4>2
    <3>3. QED
      BY <1>2, <3>1, <3>2 DEF AgentText
  <2>3. Msgs' \subseteq Msgs
    BY <2>1, <2>2, ClientLines DEF Requests
  <2>4. /\ \A x \in Clients \ {c} : /\ request'[x] = request[x] /\ number'[x] = number[x]
                                    /\ awaited'[x] = awaited[x]
        /\ request'[c].type = "SND" => request'[c].id = MsgId(n, c) /\ request'[c].text = text[c]
        /\ awaited'[c] = n /\ number[c] \in Nat
    BY <1>0, <2>1, <2>2 DEF Requests, TypeOK
  <2>5. \A x \in Clients : \A e \in Msgs' :
           awaited'[x] > 0 /\ e.id = MsgId(awaited'[x], x) => <<x, text'[x]>> \in stored'
    <3> SUFFICES ASSUME NEW x \in Clients, NEW e \in Msgs', awaited'[x] > 0,
                        e.id = MsgId(awaited'[x], x)
                 PROVE  <<x, text[x]>> \in stored
      BY <2>1
    <3>1. x # c
      BY <2>1, <2>3, <2>4 DEF Numbered, MsgId
    <3>2. QED
      BY <2>3, <2>4, <3>1 DEF Numbered
  <2>6. \A e \in Msgs' : e.id.suf \in Clients => e.id.pre \in 1 .. number'[e.id.suf]
    <3> SUFFICES ASSUME NEW e \in Msgs', e.id.suf \in Clients
                 PROVE  e.id.pre \in 1 .. number'[e.id.suf]
      OBVIOUS
    <3>1. e.id.pre \in 1 .. number[e.id.suf]
      BY <2>3 DEF Numbered
    <3>2. QED
      BY <2>1, <2>4, <3>1
  <2>7. \A x \in Clients : request'[x].type = "SND" =>
           /\ request'[x].id.suf = x /\ request'[x].id.pre \in 1 .. number'[x]
           /\ request'[x].id.pre = awaited'[x] => request'[x].text = text'[x]
    BY <2>1, <2>4 DEF Numbered, MsgId
  <2>8. \A x \in Clients : /\ awaited'[x] <= number'[x] /\ text'[x] <= texts'[x]
                           /\ text'[x] = 0 => awaited'[x] = 0
    BY <2>1, <2>4 DEF Numbered
  <2>9. ForgottenIsStored'
    BY <2>1 DEF ForgottenIsStored
  <2>10. QED
    BY <2>5, <2>6, <2>7, <2>8, <2>9 DEF Numbered
<1>3. ASSUME NEW c \in Clients, AgentPosition(c) PROVE Numbered' /\ ForgottenIsStored'
  <2>1. Requests(c, {[type |-> "POS", id |-> OwnId(c)], Nothing})
        /\ UNCHANGED <<text, texts, number, awaited, table, stored>>
    BY <1>3, AsksOf DEF AgentPosition
  <2>2. PICK d : d.type # "SND" /\ request' = [request EXCEPT ![c] = d]
    BY <1>0, <2>1 DEF Requests
  <2>3. Msgs' \subseteq Msgs
    BY <2>1, ClientLines DEF Requests
  <2>4. QED
    BY <2>1, <2>2, <2>3, TakenNumbered DEF Taken
<1>4. ASSUME NEW c \in Clients, PollMessage(c) PROVE Numbered' /\ ForgottenIsStored'
  <2>1. PICK e : Requests(c, {[type |-> "ACK", id |-> e.id], Nothing})
    BY <1>4, PollsMessage
  <2>2. PICK d : d.type # "SND" /\ request' = [request EXCEPT ![c] = d]
    BY <1>0, <2>1 DEF Requests
  <2>3. Taken(c) /\ UNCHANGED <<texts, number, table, stored>>
    BY <1>4, PollsMessage
  <2>4. Msgs' \subseteq Msgs
    BY <2>1, <2>3, ClientLines DEF Requests
  <2>5. QED
    BY <2>2, <2>3, <2>4, TakenNumbered
<1>5. ASSUME NEW c \in Clients, PollRest(c) PROVE Numbered' /\ ForgottenIsStored'
  <2>1. Taken(c) /\ UNCHANGED <<texts, number, request, table, stored>>
        /\ inbox' = [inbox EXCEPT ![c] = <<>>]
    BY <1>5, PollsRest
  <2>2. Msgs' \subseteq Msgs
    BY <2>1, ClientLines
  <2>3. QED
    BY <1>0, <2>1, <2>2, TakenNumbered
<1>6. ASSUME NEW c \in Clients, Lose(c) PROVE Numbered' /\ ForgottenIsStored'
  <2>1. /\ request' = [request EXCEPT ![c] = Nothing]
        /\ UNCHANGED <<text, texts, number, awaited, inbox, table, stored>>
    BY <1>6 DEF Lose, clientVars
  <2>2. Msgs' = Msgs
    BY <2>1 DEF Msgs, Lines
  <2>3. QED
    BY <1>0, <2>1, <2>2, TakenNumbered DEF Taken
<1>7. ASSUME NEW c \in Clients, NEW whole \in BOOLEAN, Serve(c, whole)
      PROVE  Numbered' /\ ForgottenIsStored'
  <2>1. /\ request' = [request EXCEPT ![c] = Nothing]
        /\ UNCHANGED <<text, texts, number, awaited>>
    BY <1>7, ServedMessages
  <2>2. \A x \in Clients : request'[x].type = "SND" => request'[x] = request[x]
    BY <1>0, <2>1 DEF TypeOK
  <2>3. CASE WritesNoMessage(c)
    <3>1. Msgs' \subseteq Msgs /\ UNCHANGED stored
      BY <1>7, <2>3, ServedMessages DEF WritesNoMessage
    <3>2. QED
      BY <2>1, <2>2, <3>1 DEF Numbered, ForgottenIsStored
  <2>4. CASE WritesMessage(c)
    <3>0. /\ request[c].type = "SND"
          /\ Msgs' \subseteq Msgs \cup {Message(request[c].id.pre, c, request[c].to, 0)}
          /\ stored' = stored \cup {<<c, request[c].text>>}
      BY <1>7, <2>4, ServedMessages DEF WritesMessage, AddsMessage
    <3>1. /\ request[c].id.pre \in 1 .. number[c]
          /\ request[c].id.pre = awaited[c] => request[c].text = text[c]
      BY <3>0 DEF Numbered
    <3>2. Message(request[c].id.pre, c, request[c].to, 0).id = MsgId(request[c].id.pre, c)
      BY DEF Message
    <3>3. \A e \in Msgs' : e.id.suf \in Clients => e.id.pre \in 1 .. number[e.id.suf]
      BY <3>0, <3>1, <3>2 DEF Numbered, MsgId
    <3>4. ASSUME NEW x \in Clients, NEW e \in Msgs', awaited[x] > 0,
                 e.id = MsgId(awaited[x], x)
          PROVE  <<x, text[x]>> \in stored'
      <4>1. CASE e \in Msgs
        BY <3>0, <3>4, <4>1 DEF Numbered
      <4>2. CASE e.id = MsgId(request[c].id.pre, c)
        BY <3>0, <3>1, <3>4, <4>2 DEF MsgId
      <4>3. QED
        BY <3>0, <3>2, <4>1, <4>2
    <3>5. ForgottenIsStored'
      BY <2>1, <3>0 DEF ForgottenIsStored
    <3>6. QED
      BY <2>1, <2>2, <3>3, <3>4, <3>5 DEF Numbered
  <2>5. CASE WritesConfirmation(c)
    <3>0. /\ UNCHANGED stored /\ counter \in Nat
          /\ \E to, about : Msgs' \subseteq Msgs \cup {Confirmation(counter, to, about, 0)}
      BY <1>7, <2>5, ServedMessages DEF WritesConfirmation, AddsMessage
    <3>1. \A to, about : Confirmation(counter, to, about, 0).id.suf \notin Clients
      BY ProtocolAssumption DEF Confirmation, ConfirmationId, MsgId
    <3>2. \A e \in Msgs' : e.id.suf \in Clients => e \in Msgs
      BY <3>0, <3>1
    <3>3. \A x \in Clients : \A n : MsgId(n, x).suf \in Clients
      BY DEF MsgId
    <3>4. \A x \in Clients : \A e \in Msgs' : e.id = MsgId(awaited[x], x) => e \in Msgs
      BY <3>2, <3>3
    <3>5. QED
      BY <2>1, <2>2, <3>0, <3>2, <3>4 DEF Numbered, ForgottenIsStored
  <2>6. QED
    BY <1>7, <2>3, <2>4, <2>5, ServedMessages
<1>8. ASSUME Expire \/ RestartServer PROVE Numbered' /\ ForgottenIsStored'
  BY <1>8, DroppedMessages DEF Numbered, ForgottenIsStored
<1>9. CASE UNCHANGED vars
  <2>1. Msgs' = Msgs
    BY <1>9 DEF vars, Msgs, Lines
  <2>2. QED
    BY <1>9, <2>1 DEF vars, Numbered, ForgottenIsStored
<1>10. QED
  BY <1>1, <1>2, <1>3, <1>4, <1>5, <1>6, <1>7, <1>8, <1>9 DEF Next, Client, Poll

LEMMA NumberedStarts == Init => Numbered /\ ForgottenIsStored
<1> SUFFICES ASSUME Init PROVE Numbered /\ ForgottenIsStored
  OBVIOUS
<1>1. Msgs = {}
  BY DEF Init, Msgs, Lines, ServerEntry
<1>2. QED
  BY <1>1 DEF Init, Numbered, ForgottenIsStored, Nothing

\* A client forgets a text (friends.c:444-449) only when the server has had it, whatever is
\* lost, repeated under another number, or answered late.
THEOREM TextsAreNotLost == Spec => []ForgottenIsStored
<1>1. Init => TypeOK /\ Numbered /\ ForgottenIsStored
  BY TypeStarts, NumberedStarts
<1>2. TypeOK /\ Numbered /\ ForgottenIsStored /\ [Next]_vars
         => TypeOK' /\ Numbered' /\ ForgottenIsStored'
  BY TypeStep, NumberedStep
<1>3. QED
  BY <1>1, <1>2, PTL DEF Spec

-----------------------------------------------------------------------------
(* What the server confirms was shown.                                     *)

\* Who is addressed under a client's number: by messages, by requests to store one, and
\* those who have been shown one.
Addressed ==
         {<<e.id, e.to>> : e \in {m \in Msgs : m.id.suf \in Clients}}
    \cup {<<request[c].id, request[c].to>> : c \in {d \in Clients : request[d].type = "SND"}}
    \cup {x \in shown : x[1].suf \in Clients}

OneAddressee == \A p, q \in Addressed : p[1] = q[1] => p[2] = q[2]
Used == \A p \in Addressed : p[1].suf \in Clients /\ p[1].pre \in 1 .. number[p[1].suf]

\* A request acknowledges a message of the server's, or what its client has shown.
AcksShown(d, c) ==
    d.id.suf = Server \/ (d.id.suf \in Clients /\ <<d.id, c>> \in shown)
Acks == \A c \in Clients : request[c].type = "ACK" => AcksShown(request[c], c)

\* A message is a client's, or confirms what was shown.
Tells(e) ==
    e.id.suf \in Clients \/ (e.id.suf = Server /\ \E x \in shown : x[2] = e.about)

\* Other entries are stored under the ids of clients or of the server.
Rows == \A k \in DOMAIN table : table[k].kind = "SND" \/ table[k].id.pre = OwnPrefix

Told ==
    /\ MaxCounter <= TwoDigits
    /\ OneAddressee /\ Used /\ Acks /\ Rows
    /\ \A e \in Msgs : Tells(e)

\* A step that uses no new number: what it adds is told already.
NewMessagesTold ==
    \A e \in Msgs' : \/ e \in Msgs
                     \/ e.id.suf \in Clients /\ <<e.id, e.to>> \in Addressed
                     \/ e.id.suf = Server /\ \E x \in shown : x[2] = e.about

NewShownTold ==
    /\ shown \subseteq shown'
    /\ \A x \in shown' : x \in shown \/ (x[1].suf \in Clients => x \in Addressed)

NewRequestsTold ==
    \A c \in Clients :
        \/ request'[c] = request[c]
        \/ request'[c].type \notin {"SND", "ACK"}
        \/ /\ request'[c].type = "ACK"
           /\ \/ request'[c].id.suf = Server
              \/ request'[c].id.suf \in Clients /\ <<request'[c].id, c>> \in shown'

LEMMA KeepsTold ==
  ASSUME TypeOK, Told, UNCHANGED number, Rows', NewMessagesTold, NewShownTold, NewRequestsTold
  PROVE  Told'
<1>1. ASSUME NEW p \in Addressed' PROVE p \in Addressed
  <2>1. CASE \E e \in Msgs' : e.id.suf \in Clients /\ p = <<e.id, e.to>>
    BY <2>1, ProtocolAssumption DEF Addressed, NewMessagesTold
  <2>2. CASE \E c \in Clients : request'[c].type = "SND" /\ p = <<request'[c].id, request'[c].to>>
    BY <2>2 DEF Addressed, NewRequestsTold
  <2>3. CASE p \in shown' /\ p[1].suf \in Clients
    BY <2>3 DEF Addressed, NewShownTold
  <2>4. QED
    BY <2>1, <2>2, <2>3 DEF Addressed
<1>2. OneAddressee' /\ Used'
  BY <1>1 DEF Told, OneAddressee, Used
<1>3. \A e \in Msgs' : Tells(e)'
  BY DEF Told, Tells, NewMessagesTold, NewShownTold
<1>4. Acks'
  BY DEF Told, Acks, AcksShown, NewRequestsTold, NewShownTold
<1>5. QED
  BY <1>2, <1>3, <1>4 DEF Told

LEMMA ToldStep == TypeOK /\ Numbered /\ Told /\ [Next]_vars => Told'
<1> SUFFICES ASSUME TypeOK, Numbered, Told, [Next]_vars PROVE Told'
  OBVIOUS
<1>0. Nothing.type \notin {"SND", "ACK"}
  BY DEF Nothing
<1>1. ASSUME UNCHANGED <<number, shown, table>>, Msgs' \subseteq Msgs,
             \A c \in Clients : \/ request'[c] = request[c]
                                \/ request'[c].type \notin {"SND", "ACK"}
      PROVE  Told'
  <2>1. Rows'
    BY <1>1 DEF Told, Rows
  <2>2. NewMessagesTold /\ NewShownTold /\ NewRequestsTold
    BY <1>1 DEF NewMessagesTold, NewShownTold, NewRequestsTold
  <2>3. QED
    BY <1>1, <2>1, <2>2, KeepsTold
<1>2. ASSUME NEW c \in Clients, Write(c) \/ Lose(c) PROVE Told'
  <2>1. Msgs' = Msgs
    BY <1>2 DEF Write, Lose, clientVars, Msgs, Lines
  <2>2. QED
    BY <1>0, <1>1, <1>2, <2>1 DEF Write, Lose, clientVars, TypeOK
<1>3. ASSUME NEW c \in Clients, AgentText(c) PROVE Told'
  <2> DEFINE n == number[c] + 1
  <2>1. /\ number' = [number EXCEPT ![c] = n] /\ number'[c] = n
        /\ number[c] \in Nat /\ n \in Nat /\ n > 0
        /\ UNCHANGED <<table, shown>>
    BY <1>3 DEF AgentText, TypeOK
  <2>2. PICK d : /\ Requests(c, {d, Nothing}) /\ d.type # "ACK"
                 /\ d.type = "SND" => d.id = MsgId(n, c)
    <3>1. CASE SendFails(c)
      BY <1>0, <3>1 DEF SendFails, Requests
    <3>2. ASSUME NEW to \in Clients \ {c},
                 Send(c, [type |-> "SND", id |-> MsgId(number'[c], c), to |-> to, text |-> text[c]])
          PROVE  \E d : /\ Requests(c, {d, Nothing}) /\ d.type # "ACK"
                        /\ d.type = "SND" => d.id = MsgId(n, c)
      <4> DEFINE d == [type |-> "SND", id |-> MsgId(n, c), to |-> to, text |-> text[c]]
      <4>1. Requests(c, {d, Nothing})
        BY <2>1, <3>2, AsksOf
      <4>2. d.type # "ACK" /\ d.id = MsgId(n, c)
        OBVIOUS
      <4>3. QED
        BY <4>1, <4>2
    <3>3. QED
      BY <1>3, <3>1, <3>2 DEF AgentText
  <2>3. Msgs' \subseteq Msgs
    BY <2>1, <2>2, ClientLines DEF Requests
  <2>4. /\ \A x \in Clients \ {c} : request'[x] = request[x] /\ number'[x] = number[x]
        /\ request'[c].type # "ACK"
        /\ request'[c].type = "SND" => request'[c].id = MsgId(n, c)
    BY <1>0, <2>1, <2>2 DEF Requests, TypeOK
  <2>5. ASSUME NEW p \in Addressed'
        PROVE  p \in Addressed \/ p = <<MsgId(n, c), request'[c].to>>
    <3>1. CASE \E e \in Msgs' : e.id.suf \in Clients /\ p = <<e.id, e.to>>
      BY <2>3, <3>1 DEF Addressed
    <3>2. CASE \E x \in Clients : request'[x].type = "SND" /\ p = <<request'[x].id, request'[x].to>>
      BY <2>4, <3>2 DEF Addressed
    <3>3. CASE p \in shown' /\ p[1].suf \in Clients
      BY <2>1, <3>3 DEF Addressed
    <3>4. QED
      BY <3>1, <3>2, <3>3 DEF Addressed
  <2>6. \A p \in Addressed : p[1] # MsgId(n, c)
    BY <2>1 DEF Told, Used, MsgId
  <2>7. OneAddressee'
    BY <2>5, <2>6 DEF Told, OneAddressee
  <2>8. Used'
    <3> SUFFICES ASSUME NEW p \in Addressed'
                 PROVE  p[1].suf \in Clients /\ p[1].pre \in 1 .. number'[p[1].suf]
      BY DEF Used
    <3>1. CASE p \in Addressed
      <4>1. p[1].suf \in Clients /\ p[1].pre \in 1 .. number[p[1].suf]
        BY <3>1 DEF Told, Used
      <4>2. QED
        BY <2>1, <2>4, <4>1
    <3>2. CASE p = <<MsgId(n, c), request'[c].to>>
      BY <2>1, <3>2 DEF MsgId
    <3>3. QED
      BY <2>5, <3>1, <3>2
  <2>9. Acks' /\ Rows' /\ \A e \in Msgs' : Tells(e)'
    BY <2>1, <2>3, <2>4 DEF Told, Acks, AcksShown, Rows, Tells
  <2>10. QED
    BY <2>7, <2>8, <2>9 DEF Told
<1>4. ASSUME NEW c \in Clients, AgentPosition(c) PROVE Told'
  <2>1. Requests(c, {[type |-> "POS", id |-> OwnId(c)], Nothing})
        /\ UNCHANGED <<number, table, shown>>
    BY <1>4, AsksOf DEF AgentPosition
  <2>2. \A x \in Clients : \/ request'[x] = request[x]
                           \/ request'[x].type \notin {"SND", "ACK"}
    BY <1>0, <2>1 DEF Requests, TypeOK
  <2>3. Msgs' \subseteq Msgs
    BY <2>1, ClientLines DEF Requests
  <2>4. QED
    BY <1>1, <2>1, <2>2, <2>3
<1>5. ASSUME NEW c \in Clients, PollMessage(c) PROVE Told'
  <2>1. PICK e \in Msgs :
           /\ e.to = c /\ UNCHANGED <<number, table>>
           /\ shown' = shown \cup {<<id, c>> : id \in {e.id} \ FromServer}
           /\ Requests(c, {[type |-> "ACK", id |-> e.id], Nothing})
    BY <1>5, PollsMessage
  <2>2. Msgs' \subseteq Msgs
    BY <2>1, ClientLines DEF Requests
  <2>3. Rows' /\ shown \subseteq shown'
    BY <2>1 DEF Told, Rows
  <2>4. e.id.suf \in Clients => <<e.id, c>> \in Addressed /\ <<e.id, c>> \in shown'
    BY <2>1, ProtocolAssumption DEF Addressed, FromServer
  <2>5. NewShownTold
    BY <2>1, <2>4 DEF NewShownTold
  <2>6. e.id.suf \in Clients \/ e.id.suf = Server
    BY DEF Told, Tells
  <2>7. NewRequestsTold
    <3>1. PICK d \in {[type |-> "ACK", id |-> e.id], Nothing} :
             request' = [request EXCEPT ![c] = d]
      BY <2>1 DEF Requests
    <3>2. request'[c] = d /\ \A x \in Clients \ {c} : request'[x] = request[x]
      BY <3>1 DEF TypeOK
    <3>3. d = Nothing \/ (d.type = "ACK" /\ d.id = e.id)
      OBVIOUS
    <3>4. QED
      BY <1>0, <2>4, <2>6, <3>2, <3>3 DEF NewRequestsTold
  <2>8. NewMessagesTold
    BY <2>2 DEF NewMessagesTold
  <2>9. QED
    BY <2>1, <2>3, <2>5, <2>7, <2>8, KeepsTold
<1>6. ASSUME NEW c \in Clients, PollRest(c) PROVE Told'
  <2>1. UNCHANGED <<number, request, table, shown>> /\ inbox' = [inbox EXCEPT ![c] = <<>>]
    BY <1>6, PollsRest
  <2>2. Msgs' \subseteq Msgs
    BY <2>1, ClientLines
  <2>3. QED
    BY <1>1, <2>1, <2>2
<1>7. ASSUME NEW c \in Clients, NEW whole \in BOOLEAN, Serve(c, whole) PROVE Told'
  <2>1. /\ request' = [request EXCEPT ![c] = Nothing] /\ UNCHANGED <<number, shown>>
        /\ \A e : OnlyEntry(e) => AddsMessage(e)
        /\ WritesNoMessage(c) => Msgs' \subseteq Msgs
    BY <1>7, ServedMessages
  <2>2. NewRequestsTold /\ NewShownTold
    BY <1>0, <2>1 DEF TypeOK, NewRequestsTold, NewShownTold
  <2>3. table' \in Seq(Row)
    BY <1>7, ServedTable DEF Serve
  <2>4. ASSUME NEW e, OnlyEntry(e), e = End \/ e.kind = "SND" \/ e.id.pre = OwnPrefix
        PROVE  Rows'
    BY <2>3, <2>4 DEF OnlyEntry, Told, Rows, Row, End
  <2>5. CASE WritesNoMessage(c)
    <3>1. Rows'
      BY <2>4, <2>5 DEF WritesNoMessage
    <3>2. NewMessagesTold
      BY <2>1, <2>5 DEF NewMessagesTold
    <3>3. QED
      BY <2>1, <2>2, <3>1, <3>2, KeepsTold
  <2>6. CASE WritesMessage(c)
    <3> DEFINE e == Message(request[c].id.pre, c, request[c].to, 0)
    <3>1. OnlyEntry(e) /\ request[c].type = "SND"
      BY <2>6 DEF WritesMessage
    <3>2. e.kind = "SND" /\ e.id = MsgId(request[c].id.pre, c) /\ e.to = request[c].to
      BY DEF Message
    <3>3. request[c].id = MsgId(request[c].id.pre, c)
      <4>1. request[c].id.suf = c
        BY <3>1 DEF Numbered
      <4>2. request[c].id \in Id
        BY <3>1 DEF TypeOK, Pos, Snd, Ack, Nothing
      <4>3. QED
        BY <4>1, <4>2 DEF Id, MsgId
    <3>4. e.id.suf \in Clients /\ <<e.id, e.to>> \in Addressed
      BY <3>1, <3>2, <3>3 DEF Addressed, MsgId
    <3>5. Rows' /\ Msgs' \subseteq Msgs \cup {e}
      BY <2>1, <2>4, <3>1, <3>2 DEF AddsMessage
    <3>6. NewMessagesTold
      BY <3>4, <3>5 DEF NewMessagesTold
    <3>7. QED
      BY <2>1, <2>2, <3>5, <3>6, KeepsTold
  <2>7. CASE WritesConfirmation(c)
    <3>1. PICK k \in S!Holding(request[c].id), to \in Names \cup Suffixes :
             OnlyEntry(Confirmation(counter, to, table[k].to, 0))
      BY <2>7 DEF WritesConfirmation
    <3> DEFINE e == Confirmation(counter, to, table[k].to, 0)
               id == request[c].id
    <3>2. id.suf \in Clients /\ <<id, c>> \in shown
      BY <2>7 DEF WritesConfirmation, Told, Acks, AcksShown
    <3>3. <<id, c>> \in Addressed /\ id.pre \in 1 .. number[id.suf] /\ id.pre # OwnPrefix
      <4>1. <<id, c>> \in Addressed
        BY <3>2 DEF Addressed
      <4>2. id.pre \in 1 .. number[id.suf]
        BY <4>1 DEF Told, Used
      <4>3. number[id.suf] \in Nat
        BY <3>2 DEF TypeOK
      <4>4. QED
        BY <4>1, <4>2, <4>3 DEF OwnPrefix
    <3>4. k \in DOMAIN table /\ table[k].id = id
      BY <3>1 DEF S!Holding
    <3>5. table[k] \in Msgs
      BY <3>3, <3>4 DEF Told, Rows, Msgs, Lines
    <3>6. <<id, table[k].to>> \in Addressed
      BY <3>2, <3>4, <3>5 DEF Addressed
    <3>7. table[k].to = c
      BY <3>3, <3>6 DEF Told, OneAddressee
    <3>8. /\ e.kind = "SND" /\ e.about = c
          /\ e.id.suf = Server
      <4>1. counter < TwoDigits
        BY <2>7, ProtocolAssumption, NetAssumption DEF WritesConfirmation, Told
      <4>2. QED
        BY <3>7, <4>1 DEF Confirmation, ConfirmationId, MsgId
    <3>9. Rows' /\ Msgs' \subseteq Msgs \cup {e}
      BY <2>1, <2>4, <3>1, <3>8 DEF AddsMessage
    <3>10. \E x \in shown : x[2] = e.about
      BY <3>2, <3>8
    <3>11. NewMessagesTold
      BY <3>8, <3>9, <3>10 DEF NewMessagesTold
    <3>12. QED
      BY <2>1, <2>2, <3>9, <3>11, KeepsTold
  <2>8. QED
    BY <1>7, <2>5, <2>6, <2>7, ServedMessages
<1>8. ASSUME Expire \/ RestartServer PROVE Told'
  <2>1. Msgs' \subseteq Msgs /\ UNCHANGED <<number, request, shown>>
    BY <1>8, DroppedMessages
  <2>2. Rows'
    <3>1. CASE Expire
      <4>1. PICK k \in DOMAIN table : table' = S!Without(k)
        BY <3>1 DEF Expire
      <4>2. QED
        BY <4>1, WithoutLines DEF TypeOK, Told, Rows
    <3>2. CASE RestartServer
      BY <3>2 DEF RestartServer, Rows, ServerEntry, OwnId
    <3>3. QED
      BY <1>8, <3>1, <3>2
  <2>3. NewMessagesTold /\ NewShownTold /\ NewRequestsTold
    BY <2>1 DEF NewMessagesTold, NewShownTold, NewRequestsTold
  <2>4. QED
    BY <2>1, <2>2, <2>3, KeepsTold
<1>9. CASE UNCHANGED vars
  <2>1. Msgs' = Msgs
    BY <1>9 DEF vars, Msgs, Lines
  <2>2. QED
    BY <1>1, <1>9, <2>1 DEF vars
<1>10. QED
  BY <1>2, <1>3, <1>4, <1>5, <1>6, <1>7, <1>8, <1>9 DEF Next, Client, Poll

LEMMA ToldStarts == MaxCounter <= TwoDigits /\ Init => Told
<1> SUFFICES ASSUME MaxCounter <= TwoDigits, Init PROVE Told
  OBVIOUS
<1>1. Msgs = {}
  BY DEF Init, Msgs, Lines, ServerEntry
<1>2. Addressed = {}
  BY <1>1 DEF Init, Addressed, Nothing
<1>3. Rows
  BY DEF Init, Rows, ServerEntry, OwnId
<1>4. Acks
  BY DEF Init, Acks, Nothing
<1>5. QED
  BY <1>1, <1>2, <1>3, <1>4 DEF Told, OneAddressee, Used

\* "The user ... has read your message!" (friendsd.c:320-326): as long as the number of a
\* confirmation has two digits, the server says so of a user only when that user's client
\* has shown a message.
THEOREM ConfirmationsAreTrue == MaxCounter <= TwoDigits /\ Spec => []ConfirmedIsShown
<1>1. MaxCounter <= TwoDigits /\ Init => TypeOK /\ Numbered /\ ForgottenIsStored /\ Told
  BY TypeStarts, NumberedStarts, ToldStarts
<1>2. TypeOK /\ Numbered /\ ForgottenIsStored /\ Told /\ [Next]_vars
         => TypeOK' /\ Numbered' /\ ForgottenIsStored' /\ Told'
  BY TypeStep, NumberedStep, ToldStep
<1>3. TypeOK /\ Told => ConfirmedIsShown
  BY DEF Told, Tells, Msgs, Lines, ConfirmedIsShown
<1>4. QED
  BY <1>1, <1>2, <1>3, PTL DEF Spec

================================================================================

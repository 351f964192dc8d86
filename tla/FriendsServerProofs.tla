-------------------------- MODULE FriendsServerProofs --------------------------
(***************************************************************************)
(* Theorems about FriendsServer for every number of clients, every size of *)
(* the table and every age: its type invariant, that ids stay unique, and  *)
(* that it implements the board of FriendsBoard.                           *)
(***************************************************************************)
EXTENDS FriendsServer, FiniteSetTheorems, TLAPS

-----------------------------------------------------------------------------
(* The inductive invariant.                                                *)

\* The entries of the table as a set.
Entries(s) == {s[k] : k \in DOMAIN s}

\* No two slots of s hold the same id.
Distinct(s) == \A j, k \in DOMAIN s : s[j].id = s[k].id => j = k

\* Ids that no client uses carry a number the counter has already passed,
\* so the next confirmation has a new one.
ServerIds ==
    \A x \in Entries(list) :
        x.id.suf \notin Clients => x.id.pre < messagecounter

\* Only messages have a message number in their id, only clients a position.
Numbered ==
    \A x \in Entries(list) :
        /\ x.id.pre # OwnPrefix => x.kind = "SND"
        /\ x.kind = "POS" => x.id.suf \in Clients

\* The expiry loop never looks at a slot in front of the table.
ScanIndex == pc = "scan" => i > 0

Inv == TypeOK /\ UniqueIds /\ ServerIds /\ Numbered /\ ScanIndex

-----------------------------------------------------------------------------
(* Lemmas about the table operations.                                      *)

\* Deleting slot k keeps the other entries, each once.
LEMMA WithoutLemma ==
    ASSUME list \in Seq(Entry), NEW k \in DOMAIN list
    PROVE  /\ Without(k) \in Seq(Entry)
           /\ Len(Without(k)) = Len(list) - 1
           /\ DOMAIN Without(k) = 1 .. Len(list) - 1
           /\ \A j \in 1 .. Len(list) - 1 :
                 Without(k)[j] = list[IF j < k THEN j ELSE j + 1]
           /\ \A m \in DOMAIN list : m # k =>
                 \E j \in 1 .. Len(list) - 1 : Without(k)[j] = list[m]
<1> DEFINE n == Len(list) - 1
<1>1. Len(list) \in Nat /\ DOMAIN list = 1 .. Len(list) /\ k \in 1 .. Len(list)
  OBVIOUS
<1>2. n \in Nat
  BY <1>1
<1>3. \A j \in 1 .. n : Without(k)[j] = list[IF j < k THEN j ELSE j + 1]
  BY <1>1 DEF Without
<1>4. \A j \in 1 .. n : Without(k)[j] \in Entry
  <2>1. TAKE j \in 1 .. n
  <2>2. j \in 1 .. Len(list) /\ j + 1 \in 1 .. Len(list)
    BY <1>1
  <2>3. QED
    BY <1>3, <2>2
<1>5. Without(k) \in [1 .. n -> Entry]
  <2>1. Without(k) = [j \in 1 .. n |-> IF j < k THEN list[j] ELSE list[j + 1]]
    BY DEF Without
  <2>2. QED
    BY <1>4, <2>1
<1>6. Without(k) \in Seq(Entry) /\ Len(Without(k)) = n
  BY <1>2, <1>5
<1>7. \A m \in DOMAIN list : m # k =>
         \E j \in 1 .. n : Without(k)[j] = list[m]
  <2> SUFFICES ASSUME NEW m \in 1 .. Len(list), m # k
               PROVE  \E j \in 1 .. n : Without(k)[j] = list[m]
    BY <1>1
  <2>1. CASE m < k
    <3>1. m \in 1 .. n
      BY <1>1, <2>1
    <3>2. Without(k)[m] = list[m]
      BY <1>3, <2>1, <3>1
    <3>3. QED
      BY <3>1, <3>2
  <2>2. CASE m > k
    <3>1. m - 1 \in 1 .. n /\ ~(m - 1 < k) /\ (m - 1) + 1 = m
      BY <1>1, <2>2
    <3>2. Without(k)[m - 1] = list[m]
      BY <1>3, <3>1
    <3>3. QED
      BY <3>1, <3>2
  <2>3. QED
    BY <1>1, <2>1, <2>2
<1>8. QED
  BY <1>3, <1>5, <1>6, <1>7

\* With unique ids, deleting slot k removes exactly its entry.
LEMMA WithoutDistinct ==
    ASSUME list \in Seq(Entry), Distinct(list), NEW k \in DOMAIN list
    PROVE  /\ Distinct(Without(k))
           /\ Entries(Without(k)) = Entries(list) \ {list[k]}
<1> DEFINE n == Len(list) - 1
           at(j) == IF j < k THEN j ELSE j + 1
<1>1. /\ DOMAIN list = 1 .. Len(list) /\ Len(list) \in Nat /\ n \in Nat
      /\ k \in 1 .. Len(list)
  OBVIOUS
<1>2. /\ DOMAIN Without(k) = 1 .. n
      /\ \A j \in 1 .. n : Without(k)[j] = list[at(j)]
      /\ \A m \in DOMAIN list : m # k => \E j \in 1 .. n : Without(k)[j] = list[m]
  BY WithoutLemma
<1>3. \A j \in 1 .. n : at(j) \in DOMAIN list /\ at(j) # k
  BY <1>1
<1>4. \A j, m \in 1 .. n : at(j) = at(m) => j = m
  BY <1>1
<1> HIDE DEF at, n
<1>5. Distinct(Without(k))
  BY <1>2, <1>3, <1>4 DEF Distinct
<1>6. \A m \in DOMAIN list : list[m] = list[k] => m = k
  BY DEF Distinct
<1>7. Entries(Without(k)) \subseteq Entries(list) \ {list[k]}
  BY <1>2, <1>3, <1>6 DEF Entries
<1>8. Entries(list) \ {list[k]} \subseteq Entries(Without(k))
  <2> SUFFICES ASSUME NEW m \in DOMAIN list, list[m] # list[k]
               PROVE  list[m] \in Entries(Without(k))
    BY DEF Entries
  <2>1. PICK j \in 1 .. n : Without(k)[j] = list[m]
    BY <1>2
  <2>2. QED
    BY <1>2, <2>1 DEF Entries
<1>9. QED
  BY <1>5, <1>7, <1>8

\* A slot may take an entry under its own id or under an id that is not in use.
LEMMA ReplaceLemma ==
    ASSUME list \in Seq(Entry), Distinct(list), NEW k \in DOMAIN list,
           NEW e \in Entry,
           \A m \in DOMAIN list : list[m].id = e.id => m = k
    PROVE  /\ [list EXCEPT ![k] = e] \in Seq(Entry)
           /\ Len([list EXCEPT ![k] = e]) = Len(list)
           /\ Distinct([list EXCEPT ![k] = e])
           /\ Entries([list EXCEPT ![k] = e]) = (Entries(list) \ {list[k]}) \cup {e}
<1> DEFINE s == [list EXCEPT ![k] = e]
<1>1. /\ s \in Seq(Entry) /\ Len(s) = Len(list) /\ DOMAIN s = DOMAIN list
  OBVIOUS
<1>2. s[k] = e /\ \A m \in DOMAIN list : m # k => s[m] = list[m]
  OBVIOUS
<1>3. Distinct(s)
  BY <1>1, <1>2 DEF Distinct
<1>4. \A m \in DOMAIN list : list[m] = list[k] => m = k
  BY DEF Distinct
<1>5. Entries(s) \subseteq (Entries(list) \ {list[k]}) \cup {e}
  BY <1>1, <1>2, <1>4 DEF Entries
<1>6. (Entries(list) \ {list[k]}) \cup {e} \subseteq Entries(s)
  BY <1>1, <1>2, <1>4 DEF Entries
<1>7. QED
  BY <1>1, <1>3, <1>5, <1>6

\* Storing an entry replaces the one under its id, adds it, or loses the table.
LEMMA UpsertLemma ==
    ASSUME ServerAssumption, list \in Seq(Entry), Len(list) < MAXLISTENTRIES,
           Distinct(list), NEW e \in Entry
    PROVE  /\ Upsert(e) \in Seq(Entry)
           /\ Len(Upsert(e)) < MAXLISTENTRIES
           /\ Distinct(Upsert(e))
           /\ \/ Entries(Upsert(e)) = {y \in Entries(list) : y.id # e.id} \cup {e}
              \/ Upsert(e) = <<>> /\ Len(list) = MAXLISTENTRIES - 1
<1>1. MAXLISTENTRIES \in Nat /\ MAXLISTENTRIES > 1 /\ Len(list) \in Nat
  BY DEF ServerAssumption
<1>2. CASE Holding(e.id) # {}
  <2>1. PICK k \in DOMAIN list : list[k].id = e.id
    BY <1>2 DEF Holding
  <2>2. \A m \in DOMAIN list : list[m].id = e.id <=> m = k
    BY <2>1 DEF Distinct
  <2>3. Upsert(e) = [m \in DOMAIN list |-> IF list[m].id = e.id THEN e ELSE list[m]]
    BY <1>2 DEF Upsert
  <2>4. Upsert(e) = [list EXCEPT ![k] = e]
    <3>1. [list EXCEPT ![k] = e] = [m \in DOMAIN list |-> IF m = k THEN e ELSE list[m]]
      OBVIOUS
    <3>2. QED
      BY <2>2, <2>3, <3>1
  <2>5. Entries(list) \ {list[k]} = {y \in Entries(list) : y.id # e.id}
    BY <2>1, <2>2 DEF Entries
  <2> DEFINE s == [list EXCEPT ![k] = e]
  <2>6. /\ s \in Seq(Entry) /\ Len(s) = Len(list) /\ Distinct(s)
        /\ Entries(s) = (Entries(list) \ {list[k]}) \cup {e}
    BY <2>2, ReplaceLemma
  <2>7. QED
    BY <2>4, <2>5, <2>6
<1>3. CASE Holding(e.id) = {} /\ Len(list) + 1 >= MAXLISTENTRIES
  <2>1. Upsert(e) = <<>>
    BY <1>3 DEF Upsert
  <2>2. Len(list) = MAXLISTENTRIES - 1
    BY <1>1, <1>3
  <2>3. <<>> \in Seq(Entry) /\ Len(<<>>) = 0 /\ DOMAIN <<>> = 1 .. 0
    OBVIOUS
  <2>4. Distinct(<<>>)
    BY <2>3 DEF Distinct
  <2>5. QED
    BY <1>1, <2>1, <2>2, <2>3, <2>4
<1>4. CASE Holding(e.id) = {} /\ ~(Len(list) + 1 >= MAXLISTENTRIES)
  <2> DEFINE s == Append(list, e)
  <2>1. Upsert(e) = s
    BY <1>4 DEF Upsert
  <2>2. \A m \in DOMAIN list : list[m].id # e.id
    BY <1>4 DEF Holding
  <2>3. /\ s \in Seq(Entry) /\ Len(s) = Len(list) + 1
        /\ DOMAIN s = 1 .. Len(list) + 1 /\ DOMAIN list = 1 .. Len(list)
    OBVIOUS
  <2>4. s[Len(list) + 1] = e /\ \A m \in DOMAIN list : s[m] = list[m]
    OBVIOUS
  <2>5. \A m \in DOMAIN s : m \in DOMAIN list \/ m = Len(list) + 1
    BY <1>1, <2>3
  <2>6. Distinct(s)
    BY <2>2, <2>4, <2>5 DEF Distinct
  <2>7. \A m \in DOMAIN list : m \in DOMAIN s
    BY <1>1, <2>3
  <2>8. Len(list) + 1 \in DOMAIN s
    BY <1>1, <2>3
  <2>9. Entries(s) = Entries(list) \cup {e}
    BY <2>4, <2>5, <2>7, <2>8 DEF Entries
  <2>10. Entries(list) = {y \in Entries(list) : y.id # e.id}
    BY <2>2 DEF Entries
  <2>11. Len(s) < MAXLISTENTRIES
    BY <1>1, <1>4, <2>3
  <2>12. QED
    BY <2>1, <2>3, <2>6, <2>9, <2>10, <2>11
<1>5. QED
  BY <1>2, <1>3, <1>4

-----------------------------------------------------------------------------
(* The invariant holds initially and every step preserves it.              *)

\* What clients send and what the server writes are entries.
LEMMA EntryTypes ==
    /\ \A c \in Clients, t \in Int : Position(c, t) \in Entry
    /\ \A c \in Clients, to \in Clients, n \in Nat, t \in Nat :
          Message(n, c, to, t) \in Entry
    /\ \A to, about \in Names, n \in Nat, t \in Nat :
          Confirmation(n, to, about, t) \in Entry
    /\ \A t \in Nat : ServerEntry(t) \in Entry
<1>1. \A t \in Nat : MessageTime(t) \in Int
  BY ProtocolAssumption DEF MessageTime
<1>2. OwnPrefix \in Int /\ Noname \in Names /\ Clients \subseteq Names
  BY DEF OwnPrefix, Names
<1>3. /\ \A c \in Clients \cup {Server} : OwnId(c) \in Id
      /\ \A n \in Nat, c \in Clients : MsgId(n, c) \in Id
      /\ \A n \in Nat : ConfirmationId(n) \in Id
  BY DEF OwnId, MsgId, ConfirmationId, Id, Suffixes, OwnPrefix
<1>4. \A c \in Clients, t \in Int : Position(c, t) \in Entry
  BY <1>2, <1>3 DEF Position, Entry
<1>5. \A c \in Clients, to \in Clients, n \in Nat, t \in Nat :
         Message(n, c, to, t) \in Entry
  BY <1>1, <1>2, <1>3 DEF Message, Entry
<1>6. \A to, about \in Names, n \in Nat, t \in Nat :
         Confirmation(n, to, about, t) \in Entry
  BY <1>1, <1>3 DEF Confirmation, Entry
<1>7. \A t \in Nat : ServerEntry(t) \in Entry
  BY <1>2, <1>3 DEF ServerEntry, Entry
<1>8. QED
  BY <1>4, <1>5, <1>6, <1>7

\* Message ids have a number in front.
LEMMA MsgIdTypes ==
    \A id \in MsgIds : id \in Id /\ id.pre \in Nat /\ id.pre # OwnPrefix
<1>1. \A n \in MsgNums : n \in Nat
  BY ServerAssumption
<1>2. \A n \in 0 .. MaxCounter - 1 : n \in Nat
  BY ServerAssumption
<1>3. \A n \in Nat : n # OwnPrefix
  BY DEF OwnPrefix
<1>4. QED
  BY <1>1, <1>2, <1>3 DEF MsgIds, MsgId, ConfirmationId, Id, Suffixes

LEMMA InitInv == Init => Inv
<1> SUFFICES ASSUME Init PROVE Inv
  OBVIOUS
<1> DEFINE e == ServerEntry(0)
<1>1. e \in Entry
  BY EntryTypes
<1>2. list = <<e>> /\ list \in Seq(Entry) /\ Len(list) = 1 /\ DOMAIN list = 1 .. 1
  BY <1>1 DEF Init
<1>3. Entries(list) = {e}
  BY <1>2 DEF Entries
<1>4. TypeOK
  BY <1>2, ServerAssumption DEF Init, TypeOK, Names, Datagram, Other
<1>5. UniqueIds
  BY <1>2 DEF UniqueIds
<1>6. e.id.pre = OwnPrefix
  BY DEF ServerEntry, OwnId
<1>7. ServerIds
  BY <1>3, <1>6 DEF ServerIds, Init, OwnPrefix
<1>8. Numbered
  BY <1>3, <1>6 DEF Numbered, ServerEntry
<1>9. QED
  BY <1>4, <1>5, <1>7, <1>8 DEF Inv, ScanIndex, Init

\* A table whose entries were there before or are a client's keeps the ids.
LEMMA EntriesKept ==
    ASSUME Inv, NEW s \in Seq(Entry), Distinct(s), Len(s) < MAXLISTENTRIES,
           messagecounter' \in Nat, messagecounter' >= messagecounter,
           list' = s,
           \A x \in Entries(s) :
               \/ x \in Entries(list)
               \/ /\ x.id.suf \notin Clients => x.id.pre < messagecounter'
                  /\ x.id.pre # OwnPrefix => x.kind = "SND"
                  /\ x.kind = "POS" => x.id.suf \in Clients
    PROVE  UniqueIds' /\ ServerIds' /\ Numbered'
<1>1. UniqueIds'
  BY DEF UniqueIds, Distinct
<1>2. Entries(list)' = Entries(s)
  BY DEF Entries
<1>3. \A x \in Entries(list) : x \in Entry
  BY DEF Inv, TypeOK, Entries
<1>4. \A x \in Entry : x.id.pre \in Int
  BY DEF Entry, Id, OwnPrefix
<1>5. messagecounter \in Nat
  BY DEF Inv, TypeOK
<1>6. ServerIds'
  BY <1>2, <1>3, <1>4, <1>5 DEF Inv, ServerIds
<1>7. Numbered'
  BY <1>2 DEF Inv, Numbered
<1>8. QED
  BY <1>1, <1>6, <1>7

\* Storing a client's position or message.
LEMMA UpsertInv ==
    ASSUME Inv, NEW c \in Clients, NEW m \in Datagram, Arrived(c, m),
           NEW e \in Entry, e.id.suf \in Clients,
           e.id.pre # OwnPrefix => e.kind = "SND",
           list' = Upsert(e), UNCHANGED messagecounter
    PROVE  Inv'
<1>1. Distinct(list) /\ list \in Seq(Entry) /\ Len(list) < MAXLISTENTRIES
  BY DEF Inv, TypeOK, UniqueIds, Distinct
<1>2. /\ list' \in Seq(Entry) /\ Len(list') < MAXLISTENTRIES /\ Distinct(list')
      /\ \/ Entries(list') = {y \in Entries(list) : y.id # e.id} \cup {e}
         \/ list' = <<>>
  BY <1>1, UpsertLemma, ServerAssumption
<1>3. \A x \in Entries(list') : x \in Entries(list) \/ x = e
  <2>1. Entries(<<>>) = {}
    BY DEF Entries
  <2>2. QED
    BY <1>2, <2>1
<1>4. UniqueIds' /\ ServerIds' /\ Numbered'
  <2>1. messagecounter' \in Nat /\ messagecounter' >= messagecounter
    BY DEF Inv, TypeOK
  <2>2. QED
    BY <1>2, <1>3, <2>1, EntriesKept
<1>5. TypeOK' /\ ScanIndex'
  BY <1>2 DEF Inv, TypeOK, ScanIndex, Arrived, Names
<1>6. QED
  BY <1>4, <1>5 DEF Inv

\* Deleting an entry.
LEMMA WithoutInv ==
    ASSUME Inv, NEW k \in DOMAIN list, list' = Without(k), UNCHANGED messagecounter
    PROVE  /\ list' \in Seq(Entry) /\ Len(list') < MAXLISTENTRIES
           /\ UniqueIds' /\ ServerIds' /\ Numbered'
<1>1. Distinct(list) /\ list \in Seq(Entry) /\ Len(list) < MAXLISTENTRIES
  BY DEF Inv, TypeOK, UniqueIds, Distinct
<1>2. /\ list' \in Seq(Entry) /\ Len(list') = Len(list) - 1 /\ Distinct(list')
      /\ Entries(list') = Entries(list) \ {list[k]}
  BY <1>1, WithoutLemma, WithoutDistinct
<1>3. Len(list') < MAXLISTENTRIES
  BY <1>1, <1>2, ServerAssumption
<1>4. messagecounter' \in Nat /\ messagecounter' >= messagecounter
  BY DEF Inv, TypeOK
<1>5. QED
  BY <1>2, <1>3, <1>4, EntriesKept

\* The name a confirmation is sent to is a name or arbitrary memory.
LEMMA SenderNamesType ==
    ASSUME Inv, NEW suf
    PROVE  SenderNames(suf) \subseteq Names
<1>1. \A k \in FirstOf(suf) : list[k].id.suf = suf /\ list[k] \in Entries(list)
  BY DEF FirstOf, Entries
<1>2. \A k \in FirstOf(suf) : list[k].kind = "POS" => suf \in Clients
  BY <1>1 DEF Inv, Numbered
<1>3. QED
  BY <1>2 DEF SenderNames, Names

\* A confirmation takes the place of the message it confirms: its id is new.
LEMMA ConfirmInv ==
    ASSUME Inv, NEW k \in DOMAIN list, NEW to \in Names,
           list' = [list EXCEPT ![k] =
                       Confirmation(messagecounter, to, list[k].to, now)],
           messagecounter' = messagecounter + 1
    PROVE  /\ list' \in Seq(Entry) /\ Len(list') < MAXLISTENTRIES
           /\ UniqueIds' /\ ServerIds' /\ Numbered'
           /\ \A m \in DOMAIN list : list[m].id # ConfirmationId(messagecounter)
           /\ Entries(list') = (Entries(list) \ {list[k]}) \cup
                 {Confirmation(messagecounter, to, list[k].to, now)}
<1> DEFINE e == Confirmation(messagecounter, to, list[k].to, now)
<1>1. /\ Distinct(list) /\ list \in Seq(Entry) /\ Len(list) < MAXLISTENTRIES
      /\ messagecounter \in Nat /\ now \in Nat
  BY DEF Inv, TypeOK, UniqueIds, Distinct
<1>2. e \in Entry
  <2>1. list[k] \in Entry
    BY <1>1
  <2>2. list[k].to \in Names
    BY <2>1 DEF Entry
  <2>3. QED
    BY <1>1, <2>2, EntryTypes
<1>3. e.id.suf \notin Clients /\ e.id.pre = messagecounter /\ e.kind = "SND"
  BY ProtocolAssumption DEF Confirmation, ConfirmationId, MsgId
<1>4. \A m \in DOMAIN list : list[m].id # e.id
  <2> SUFFICES ASSUME NEW m \in DOMAIN list, list[m].id = e.id PROVE FALSE
    OBVIOUS
  <2>1. list[m] \in Entries(list)
    BY DEF Entries
  <2>2. messagecounter < messagecounter
    BY <1>3, <2>1 DEF Inv, ServerIds
  <2>3. QED
    BY <1>1, <2>2
<1> HIDE DEF e
<1>5. /\ list' \in Seq(Entry) /\ Len(list') = Len(list) /\ Distinct(list')
      /\ Entries(list') = (Entries(list) \ {list[k]}) \cup {e}
  <2>1. list' = [list EXCEPT ![k] = e]
    BY DEF e
  <2>2. \A m \in DOMAIN list : list[m].id = e.id => m = k
    BY <1>4
  <2> DEFINE s == [list EXCEPT ![k] = e]
  <2>3. /\ s \in Seq(Entry) /\ Len(s) = Len(list) /\ Distinct(s)
        /\ Entries(s) = (Entries(list) \ {list[k]}) \cup {e}
    BY <1>1, <1>2, <2>2, ReplaceLemma
  <2>4. QED
    BY <2>1, <2>3
<1>6. messagecounter' \in Nat /\ messagecounter' >= messagecounter
      /\ messagecounter < messagecounter'
  BY <1>1
<1>7. UniqueIds' /\ ServerIds' /\ Numbered'
  <2>1. Len(list') < MAXLISTENTRIES
    BY <1>1, <1>5
  <2>2. \A x \in Entries(list') : x \in Entries(list) \/ x = e
    BY <1>5
  <2>3. QED
    BY <1>3, <1>5, <1>6, <2>1, <2>2, EntriesKept
<1>8. e.id = ConfirmationId(messagecounter)
  BY DEF e, Confirmation
<1>9. QED
  BY <1>1, <1>4, <1>5, <1>7, <1>8 DEF e

LEMMA ReceiveInv ==
    ASSUME Inv, Receive
    PROVE  Inv'
<1>1. /\ now \in Nat /\ messagecounter \in Nat /\ list \in Seq(Entry)
      /\ \A s \in Skews : now + s \in Int
      /\ MsgNums \subseteq Nat
  BY ServerAssumption DEF Inv, TypeOK
<1>2. PICK c \in Clients :
        \/ \E s \in Skews : ReceivePos(c, now + s)
        \/ \E n \in MsgNums, to \in Clients : ReceiveSnd(c, n, to)
        \/ \E id \in MsgIds : ReceiveOwnAck(c, id) \/ ReceiveAck(c, id)
        \/ ReceiveOther(c, Other)
        \/ \E id \in MsgIds : ReceiveOther(c, [type |-> "ACK", id |-> id])
  BY DEF Receive
<1> DEFINE Ack(id) == [type |-> "ACK", id |-> id]
<1>3. \A id \in MsgIds : Ack(id) \in Datagram /\ id \in Id /\ id.pre # OwnPrefix
  BY MsgIdTypes DEF Datagram
<1>4. Other \in Datagram
  BY DEF Other, Datagram
<1>5. ASSUME NEW m \in Datagram, Arrived(c, m), UniqueIds', ServerIds', Numbered',
             list' \in Seq(Entry), Len(list') < MAXLISTENTRIES,
             messagecounter' \in Nat
      PROVE  Inv'
  <2>1. TypeOK' /\ ScanIndex'
    BY <1>5 DEF Inv, TypeOK, ScanIndex, Arrived, Names
  <2>2. QED
    BY <1>5, <2>1 DEF Inv
<1>6. ASSUME NEW s \in Skews, ReceivePos(c, now + s)
      PROVE  Inv'
  <2> DEFINE e == Position(c, now + s)
             m == [type |-> "POS", id |-> OwnId(c), time |-> now + s]
  <2>1. e \in Entry /\ e.id.suf \in Clients /\ e.id.pre = OwnPrefix
    BY <1>1, EntryTypes DEF Position, OwnId
  <2>2. e.kind = "POS"
    BY DEF Position
  <2>3. m \in Datagram
    BY <1>1 DEF Datagram, OwnId, Id, Suffixes
  <2>4. Arrived(c, m) /\ list' = Upsert(e) /\ UNCHANGED messagecounter
    BY <1>6 DEF ReceivePos
  <2> HIDE DEF e, m
  <2>5. QED
    BY <2>1, <2>2, <2>3, <2>4, UpsertInv
<1>7. ASSUME NEW n \in MsgNums, NEW to \in Clients, ReceiveSnd(c, n, to)
      PROVE  Inv'
  <2> DEFINE e == Message(n, c, to, now)
             m == [type |-> "SND", id |-> MsgId(n, c), to |-> to]
  <2>1. e \in Entry /\ e.id.suf \in Clients /\ e.kind = "SND"
    BY <1>1, EntryTypes DEF Message, MsgId
  <2>2. m \in Datagram
    BY <1>1 DEF Datagram, MsgId, Id, Suffixes, Names
  <2>3. Arrived(c, m) /\ list' = Upsert(e) /\ UNCHANGED messagecounter
    BY <1>7 DEF ReceiveSnd
  <2> HIDE DEF e, m
  <2>4. QED
    BY <2>1, <2>2, <2>3, UpsertInv
<1>8. ASSUME NEW id \in MsgIds, ReceiveOwnAck(c, id)
      PROVE  Inv'
  <2>1. PICK k \in DOMAIN list : list' = Without(k)
    BY <1>8 DEF ReceiveOwnAck, Holding
  <2>2. Arrived(c, Ack(id)) /\ UNCHANGED messagecounter
    BY <1>8 DEF ReceiveOwnAck
  <2>3. QED
    BY <1>1, <1>3, <1>5, <2>1, <2>2, WithoutInv
<1>9. ASSUME NEW id \in MsgIds, ReceiveAck(c, id)
      PROVE  Inv'
  <2>1. PICK k \in DOMAIN list, to \in Names :
          list' = [list EXCEPT ![k] =
                      Confirmation(messagecounter, to, list[k].to, now)]
    BY <1>9, SenderNamesType DEF ReceiveAck, Holding
  <2>2. Arrived(c, Ack(id)) /\ messagecounter' = messagecounter + 1
    BY <1>9 DEF ReceiveAck
  <2>3. /\ list' \in Seq(Entry) /\ Len(list') < MAXLISTENTRIES
        /\ UniqueIds' /\ ServerIds' /\ Numbered'
    BY <2>1, <2>2, ConfirmInv
  <2>4. messagecounter' \in Nat
    BY <1>1, <2>2
  <2>5. QED
    BY <1>3, <1>5, <2>2, <2>3, <2>4
<1>10. ASSUME NEW m \in Datagram, ReceiveOther(c, m)
       PROVE  Inv'
  <2>1. Arrived(c, m) /\ UNCHANGED <<list, messagecounter>>
    BY <1>10 DEF ReceiveOther
  <2>2. UniqueIds' /\ ServerIds' /\ Numbered'
    BY <2>1 DEF Inv, UniqueIds, ServerIds, Numbered, Entries
  <2>3. QED
    BY <1>5, <2>1, <2>2 DEF Inv, TypeOK
<1>11. QED
  BY <1>2, <1>3, <1>4, <1>6, <1>7, <1>8, <1>9, <1>10

\* The steps that leave the table alone.
LEMMA SameTable ==
    ASSUME Inv, UNCHANGED <<list, messagecounter>>
    PROVE  UniqueIds' /\ ServerIds' /\ Numbered'
BY DEF Inv, UniqueIds, ServerIds, Numbered, Entries

\* A table with the server's entry only, and an empty one.
LEMMA FreshTable ==
    ASSUME Inv, messagecounter' \in Nat,
           list' = <<ServerEntry(now)>> \/ list' = <<>>
    PROVE  /\ list' \in Seq(Entry) /\ Len(list') < MAXLISTENTRIES
           /\ UniqueIds' /\ ServerIds' /\ Numbered'
<1>1. ServerEntry(now) \in Entry
  BY EntryTypes DEF Inv, TypeOK
<1>2. list' \in Seq(Entry) /\ Len(list') < MAXLISTENTRIES /\ DOMAIN list' \subseteq {1}
  <2>1. MAXLISTENTRIES \in Nat /\ MAXLISTENTRIES > 1
    BY ServerAssumption
  <2>2. CASE list' = <<>>
    BY <2>1, <2>2
  <2>3. CASE list' = <<ServerEntry(now)>>
    <3>1. Len(list') = 1 /\ DOMAIN list' = 1 .. 1 /\ list' \in Seq(Entry)
      BY <1>1, <2>3
    <3>2. QED
      BY <2>1, <3>1
  <2>4. QED
    BY <2>2, <2>3
<1>3. \A x \in Entries(list') : x = ServerEntry(now)
  <2>1. Entries(<<>>) = {} /\ Entries(<<ServerEntry(now)>>) = {ServerEntry(now)}
    BY DEF Entries
  <2>2. QED
    BY <2>1
<1>4. UniqueIds'
  BY <1>2 DEF UniqueIds
<1>5. Entries(list)' = Entries(list')
  BY DEF Entries
<1>6. ServerIds' /\ Numbered'
  BY <1>3, <1>5 DEF ServerIds, Numbered, ServerEntry, OwnId, OwnPrefix
<1>7. QED
  BY <1>2, <1>4, <1>6

LEMMA NextInv == Inv /\ [Next]_vars => Inv'
<1> SUFFICES ASSUME Inv, [Next]_vars PROVE Inv'
  OBVIOUS
<1>1. CASE Receive
  BY <1>1, ReceiveInv
<1>2. CASE ReceiveFails
  <2>1. UniqueIds' /\ ServerIds' /\ Numbered'
    BY <1>2, SameTable DEF ReceiveFails
  <2>2. QED
    BY <1>2, <2>1 DEF Inv, TypeOK, ScanIndex, ReceiveFails
<1>3. CASE Scan
  <2>1. i \in DOMAIN list
    BY <1>3 DEF Scan, Inv, ScanIndex, TypeOK
  <2>2. /\ list' \in Seq(Entry) /\ Len(list') < MAXLISTENTRIES
        /\ UniqueIds' /\ ServerIds' /\ Numbered'
    <3>1. CASE list' = Without(i)
      BY <1>3, <2>1, <3>1, WithoutInv DEF Scan
    <3>2. CASE list' = list
      BY <1>3, <3>2, SameTable DEF Scan, Inv, TypeOK
    <3>3. QED
      BY <1>3, <3>1, <3>2 DEF Scan
  <2>3. TypeOK' /\ ScanIndex'
    BY <1>3, <2>2 DEF Inv, TypeOK, ScanIndex, Scan
  <2>4. QED
    BY <2>2, <2>3 DEF Inv
<1>4. CASE ScanDone
  <2>1. UniqueIds' /\ ServerIds' /\ Numbered'
    BY <1>4, SameTable DEF ScanDone
  <2>2. QED
    BY <1>4, <2>1 DEF Inv, TypeOK, ScanIndex, ScanDone, Other, Datagram
<1>5. CASE Reply \/ ReplyEnd
  <2>1. UniqueIds' /\ ServerIds' /\ Numbered'
    BY <1>5, SameTable DEF Reply, ReplyEnd
  <2>2. QED
    BY <1>5, <2>1 DEF Inv, TypeOK, ScanIndex, Reply, ReplyEnd
<1>6. CASE ReplyFails
  <2>1. /\ list' \in Seq(Entry) /\ Len(list') < MAXLISTENTRIES
        /\ UniqueIds' /\ ServerIds' /\ Numbered'
    BY <1>6, FreshTable DEF ReplyFails, Inv, TypeOK
  <2>2. QED
    BY <1>6, <2>1 DEF Inv, TypeOK, ScanIndex, ReplyFails, Names
<1>7. CASE Restart
  <2>1. /\ list' \in Seq(Entry) /\ Len(list') < MAXLISTENTRIES
        /\ UniqueIds' /\ ServerIds' /\ Numbered'
    BY <1>7, FreshTable DEF Restart
  <2>2. QED
    BY <1>7, <2>1 DEF Inv, TypeOK, ScanIndex, Restart
<1>8. CASE Tick
  <2>1. UniqueIds' /\ ServerIds' /\ Numbered'
    BY <1>8, SameTable DEF Tick
  <2>2. QED
    BY <1>8, <2>1 DEF Inv, TypeOK, ScanIndex, Tick
<1>9. CASE UNCHANGED vars
  <2>1. UniqueIds' /\ ServerIds' /\ Numbered'
    BY <1>9, SameTable DEF vars
  <2>2. QED
    BY <1>9, <2>1 DEF Inv, TypeOK, ScanIndex, vars
<1>10. QED
  BY <1>1, <1>2, <1>3, <1>4, <1>5, <1>6, <1>7, <1>8, <1>9 DEF Next, Handle

THEOREM Invariance == Spec => []Inv
<1>1. Init => Inv
  BY InitInv
<1>2. Inv /\ [Next]_vars => Inv'
  BY NextInv
<1>3. QED
  BY <1>1, <1>2, PTL DEF Spec

(* The table never reaches the size of the array, whatever the clients     *)
(* send: listnum stays below MAXLISTENTRIES (friendsd.c:244-254).          *)
THEOREM TypeCorrect == Spec => []TypeOK
<1>1. Inv => TypeOK
  BY DEF Inv
<1>2. QED
  BY <1>1, Invariance, PTL

(* No two entries of the table ever have the same id, for every number of  *)
(* clients and however long the server runs (friendsd.c:214-380).          *)
THEOREM IdsStayUnique == Spec => []UniqueIds
<1>1. Inv => UniqueIds
  BY DEF Inv
<1>2. QED
  BY <1>1, Invariance, PTL

-----------------------------------------------------------------------------
(* The server implements the board.                                        *)

\* The table has as many entries as slots in use.
LEMMA EntriesCardinality ==
    ASSUME list \in Seq(Entry), Distinct(list)
    PROVE  Cardinality(Entries(list)) = Len(list)
<1>1. DOMAIN list = 1 .. Len(list) /\ Len(list) \in Nat
  OBVIOUS
<1>2. list \in [1 .. Len(list) -> Entries(list)]
  <2>1. list = [k \in 1 .. Len(list) |-> list[k]]
    BY <1>1
  <2>2. \A k \in 1 .. Len(list) : list[k] \in Entries(list)
    BY <1>1 DEF Entries
  <2>3. QED
    BY <2>1, <2>2
<1>3. \A j, k \in 1 .. Len(list) : list[j] = list[k] => j = k
  BY <1>1 DEF Distinct
<1>4. \A x \in Entries(list) : \E k \in 1 .. Len(list) : list[k] = x
  BY <1>1 DEF Entries
<1>5. list \in Bijection(1 .. Len(list), Entries(list))
  BY <1>2, <1>3, <1>4 DEF Bijection, Injection, Surjection, IsInjective
<1>6. ExistsBijection(1 .. Len(list), Entries(list))
  BY <1>5 DEF ExistsBijection
<1>7. QED
  BY <1>1, <1>6, FS_CountingElements

LEMMA BoardInit == Init => Board!Init
<1> SUFFICES ASSUME Init PROVE Board!Init
  OBVIOUS
<1>1. list = <<ServerEntry(0)>> /\ DOMAIN list = 1 .. 1
  BY DEF Init
<1>2. {list[k] : k \in DOMAIN list} = {ServerEntry(0)}
  BY <1>1
<1>3. QED
  BY <1>2 DEF Init, Board!Init, ServerEntry, Board!ServerEntry, OwnId,
              Board!OwnId, OwnPrefix, Board!OwnPrefix

\* Storing an entry posts it, or the board overflows.
LEMMA UpsertOnBoard ==
    ASSUME Inv, NEW e \in Entry, e.id.suf \in Clients, list' = Upsert(e),
           UNCHANGED now, pc # "exit", pc' # "exit"
    PROVE  Board!Post \/ Board!Overflow
<1>1. /\ Distinct(list) /\ list \in Seq(Entry) /\ Len(list) < MAXLISTENTRIES
  BY DEF Inv, TypeOK, UniqueIds, Distinct
<1>2. \/ Entries(list') = {y \in Entries(list) : y.id # e.id} \cup {e}
      \/ list' = <<>> /\ Len(list) = MAXLISTENTRIES - 1
  BY <1>1, UpsertLemma, ServerAssumption
<1>3. CASE Entries(list') = {y \in Entries(list) : y.id # e.id} \cup {e}
  <2>1. Board!Post
    BY <1>3 DEF Board!Post, Entries
  <2>2. QED
    BY <2>1
<1>4. CASE list' = <<>> /\ Len(list) = MAXLISTENTRIES - 1
  <2>1. Cardinality(Entries(list)) = MAXLISTENTRIES - 1
    BY <1>1, <1>4, EntriesCardinality
  <2>2. Entries(list') = {}
    BY <1>4 DEF Entries
  <2>3. \A S : Board!Cardinality(S) = Cardinality(S)
    BY DEF Cardinality, Board!Cardinality
  <2>4. Board!Overflow
    BY <2>1, <2>2, <2>3 DEF Board!Overflow, Entries
  <2>5. QED
    BY <2>4
<1>5. QED
  BY <1>2, <1>3, <1>4

\* Dropping an entry leaves the others on the board.
LEMMA WithoutOnBoard ==
    ASSUME Inv, NEW k \in DOMAIN list, list' = Without(k)
    PROVE  Entries(list') = Entries(list) \ {list[k]} /\ list[k] \in Entries(list)
<1>1. Distinct(list) /\ list \in Seq(Entry)
  BY DEF Inv, TypeOK, UniqueIds, Distinct
<1>2. Entries(Without(k)) = Entries(list) \ {list[k]}
  BY <1>1, WithoutDistinct
<1>3. QED
  BY <1>2 DEF Entries

LEMMA BoardStep == Inv /\ [Next]_vars => [Board!Next]_(Board!boardVars)
<1> SUFFICES ASSUME Inv, [Next]_vars
             PROVE  Board!Next \/ UNCHANGED Board!boardVars
  OBVIOUS
<1>1. ASSUME NEW c \in Clients, NEW m, Arrived(c, m)
      PROVE  pc # "exit" /\ pc' # "exit" /\ now' = now
  BY <1>1 DEF Arrived
<1>2. now \in Nat /\ messagecounter \in Nat /\ list \in Seq(Entry)
  BY DEF Inv, TypeOK
<1>3. ASSUME NEW c \in Clients, NEW s \in Skews, ReceivePos(c, now + s)
      PROVE  Board!Next
  <2> DEFINE e == Position(c, now + s)
  <2>1. e \in Entry /\ e.id.suf \in Clients
    BY <1>2, EntryTypes, ServerAssumption DEF Position, OwnId
  <2>2. list' = Upsert(e) /\ pc # "exit" /\ pc' # "exit" /\ now' = now
    BY <1>1, <1>3 DEF ReceivePos
  <2> HIDE DEF e
  <2>3. QED
    BY <2>1, <2>2, UpsertOnBoard DEF Board!Next
<1>4. ASSUME NEW c \in Clients, NEW n \in MsgNums, NEW to \in Clients,
             ReceiveSnd(c, n, to)
      PROVE  Board!Next
  <2> DEFINE e == Message(n, c, to, now)
  <2>1. e \in Entry /\ e.id.suf \in Clients
    BY <1>2, EntryTypes, ServerAssumption DEF Message, MsgId
  <2>2. list' = Upsert(e) /\ pc # "exit" /\ pc' # "exit" /\ now' = now
    BY <1>1, <1>4 DEF ReceiveSnd
  <2> HIDE DEF e
  <2>3. QED
    BY <2>1, <2>2, UpsertOnBoard DEF Board!Next
<1>5. ASSUME NEW c \in Clients, NEW id \in MsgIds, ReceiveOwnAck(c, id)
      PROVE  Board!Next
  <2>1. PICK k \in DOMAIN list : list[k].id = id /\ list' = Without(k)
    BY <1>5 DEF ReceiveOwnAck, Holding
  <2>2. pc # "exit" /\ pc' # "exit" /\ now' = now /\ id.suf = Server
    BY <1>1, <1>5 DEF ReceiveOwnAck
  <2>3. Entries(list') = Entries(list) \ {list[k]} /\ list[k] \in Entries(list)
    BY <2>1, WithoutOnBoard
  <2>4. list[k].kind = "SND"
    BY <2>1, <2>3, MsgIdTypes DEF Inv, Numbered
  <2>5. Board!Withdraw
    BY <2>1, <2>2, <2>3, <2>4 DEF Board!Withdraw, Entries
  <2>6. QED
    BY <2>5 DEF Board!Next
<1>6. ASSUME NEW c \in Clients, NEW id \in MsgIds, ReceiveAck(c, id)
      PROVE  Board!Next
  <2>1. PICK k \in DOMAIN list, to \in Names :
          /\ list[k].id = id
          /\ list' = [list EXCEPT ![k] =
                         Confirmation(messagecounter, to, list[k].to, now)]
    BY <1>6, SenderNamesType DEF ReceiveAck, Holding
  <2>2. /\ pc # "exit" /\ pc' # "exit" /\ now' = now
        /\ messagecounter' = messagecounter + 1
    BY <1>1, <1>6 DEF ReceiveAck
  <2> DEFINE e == Confirmation(messagecounter, to, list[k].to, now)
  <2>3. /\ \A m \in DOMAIN list : list[m].id # ConfirmationId(messagecounter)
        /\ Entries(list') = (Entries(list) \ {list[k]}) \cup {e}
    BY <2>1, <2>2, ConfirmInv
  <2>4. /\ e.kind = "SND" /\ e.about = list[k].to /\ e.id.suf \notin Clients
        /\ e.id = ConfirmationId(messagecounter)
    BY ProtocolAssumption DEF Confirmation, ConfirmationId, MsgId
  <2>5. list[k] \in Entries(list)
    BY DEF Entries
  <2>6. list[k].kind = "SND"
    BY <2>1, <2>5, MsgIdTypes DEF Inv, Numbered
  <2>7. e.id \notin {x.id : x \in Entries(list)}
    BY <2>3, <2>4 DEF Entries
  <2> HIDE DEF e
  <2>8. Board!Confirm
    BY <2>2, <2>3, <2>4, <2>5, <2>6, <2>7 DEF Board!Confirm, Board!Ids, Entries
  <2>9. QED
    BY <2>8 DEF Board!Next
<1>7. ASSUME NEW c \in Clients, NEW m, ReceiveOther(c, m)
      PROVE  UNCHANGED Board!boardVars
  BY <1>1, <1>7 DEF ReceiveOther, Board!boardVars
<1>8. CASE Receive
  BY <1>3, <1>4, <1>5, <1>6, <1>7, <1>8 DEF Receive
<1>9. CASE ReceiveFails
  BY <1>9 DEF ReceiveFails, Board!boardVars
<1>10. CASE Scan
  <2>1. i \in DOMAIN list
    BY <1>10 DEF Scan, Inv, ScanIndex, TypeOK
  <2>2. CASE TooOld(list[i], now)
    <3>1. list' = Without(i) /\ pc # "exit" /\ pc' # "exit" /\ now' = now
      BY <1>10, <2>2 DEF Scan
    <3>2. Entries(list') = Entries(list) \ {list[i]} /\ list[i] \in Entries(list)
      BY <2>1, <3>1, WithoutOnBoard
    <3>3. Board!TooOld(list[i], now)
      BY <2>2 DEF TooOld, Board!TooOld
    <3>4. Board!TakeDown
      BY <3>1, <3>2, <3>3 DEF Board!TakeDown, Entries
    <3>5. QED
      BY <3>4 DEF Board!Next
  <2>3. CASE ~TooOld(list[i], now)
    BY <1>10, <2>3 DEF Scan, Board!boardVars
  <2>4. QED
    BY <2>2, <2>3
<1>11. CASE ScanDone \/ Reply \/ ReplyEnd
  BY <1>11 DEF ScanDone, Reply, ReplyEnd, Board!boardVars
<1>12. CASE ReplyFails
  <2>1. Entries(list') = {}
    BY <1>12 DEF ReplyFails, Entries
  <2>2. Board!Stop
    BY <1>12, <2>1 DEF ReplyFails, Board!Stop, Entries
  <2>3. QED
    BY <2>2 DEF Board!Next
<1>13. CASE Restart
  <2>1. Entries(<<ServerEntry(now)>>) = {ServerEntry(now)}
    BY DEF Entries
  <2>2. Board!Start
    BY <1>13, <2>1 DEF Restart, Board!Start, Entries, ServerEntry,
                       Board!ServerEntry, OwnId, Board!OwnId, OwnPrefix,
                       Board!OwnPrefix
  <2>3. QED
    BY <2>2 DEF Board!Next
<1>14. CASE Tick
  <2>1. now' > now
    BY <1>2, <1>14 DEF Tick
  <2>2. Board!Pass
    BY <1>14, <2>1 DEF Tick, Board!Pass
  <2>3. QED
    BY <2>2 DEF Board!Next
<1>15. CASE UNCHANGED vars
  BY <1>15 DEF vars, Board!boardVars
<1>16. QED
  BY <1>8, <1>9, <1>10, <1>11, <1>12, <1>13, <1>14, <1>15 DEF Next, Handle

(* The server keeps the promise of FriendsBoard: no notice disappears      *)
(* except by being replaced, acknowledged or too old, or together with all *)
(* others when the table is full or the process ends (friendsd.c:182-494). *)
THEOREM ServerImplementsBoard == Spec => BoardSpec
<1>1. Init => Board!Init
  BY BoardInit
<1>2. Inv /\ [Next]_vars => [Board!Next]_(Board!boardVars)
  BY BoardStep
<1>3. QED
  BY <1>1, <1>2, Invariance, PTL DEF Spec, BoardSpec, Board!Spec

=============================================================================

------------------------------- MODULE DhtWire -------------------------------
(***************************************************************************)
(* The messages between DHT nodes: what the send functions write, and what *)
(* parse_message() finds in what arrived.  A message is a sequence of      *)
(* items: a text, a text with a number after it ("1:t4:"), or data.  The   *)
(* parser searches for a text anywhere in the buffer; that no data happens *)
(* to contain one of the texts is assumed.                                 *)
(***************************************************************************)
EXTENDS Integers, Sequences, FiniteSetsExt, SequencesExt

CONSTANTS
    Zeroes,      \* 20 zero bytes
    MyVersion,   \* my_v: the four bytes that say which program this is
    Garbage      \* n |-> n bytes of the stack

Buffer == 8192          \* DHT_NETWORK_BUFFER_LENGTH, of most messages
AnswerBuffer == 2048    \* of send_nodes_peers()
ReceiveBuffer == 4096   \* of dhtThreadProc()

Digits(n) == Max({1} \cup {k \in 2..5 : n >= 10^(k - 1)})
Text(t) == [text |-> t, number |-> 0, data |-> <<>>, size |-> Len(t)]
Number(t, n) == [text |-> t, number |-> n, data |-> <<>>, size |-> Len(t) + Digits(n) + 1]
Data(bytes) == [text |-> "", number |-> 0, data |-> bytes, size |-> Len(bytes)]
Counted(t, bytes) == <<Number(t, Len(bytes)), Data(bytes)>>
Optional(t, bytes) == IF bytes = <<>> THEN <<>> ELSE Counted(t, bytes)

MessageSize(message) == FoldLeft(LAMBDA n, item : n + item.size, 0, message)

-----------------------------------------------------------------------------
\* The first bytes of a message.
CutItem(item, n) ==
    [text |-> IF n < Len(item.text) THEN "" ELSE item.text,
     number |-> IF n < item.size THEN 0 ELSE item.number,
     data |-> SubSeq(item.data, 1, Min({n, Len(item.data)})),
     size |-> Min({n, item.size})]

Cut(message, n) ==
    LET Left(i) == n - MessageSize(SubSeq(message, 1, i - 1))
        whole == Cardinality({i \in DOMAIN message : Left(i) > 0})
    IN  [i \in 1..whole |-> IF i < whole THEN message[i] ELSE CutItem(message[i], Left(i))]

\* INC() and COPY() refuse what does not fit; the last byte of a message that fills its
\* buffer is the zero that snprintf() ends it with.
Sent(message, room) ==
    IF MessageSize(message) > room THEN <<>>
    ELSE IF MessageSize(message) = room THEN Cut(message, room - 1)
    ELSE message

\* What recvfrom() gives: the end of a long datagram is lost.
Receive(message) == Cut(message, ReceiveBuffer - 1)

-----------------------------------------------------------------------------
\* The send functions.
Version == <<Number("1:v", 4), Data(MyVersion)>>
Sender(myid) == <<Text("2:id20:"), Data(myid)>>
Want(want) ==
    IF want = {} THEN <<>>
    ELSE <<Text("4:wantl")>>
         \o (IF 4 \in want THEN <<Text("2:n4")>> ELSE <<>>)
         \o (IF 6 \in want THEN <<Text("2:n6")>> ELSE <<>>) \o <<Text("e")>>

Query(myid, arguments, name, tid) ==
    <<Text("d1:ad")>> \o Sender(myid) \o arguments \o <<Text("e"), Text(name)>>
    \o Counted("1:t", tid) \o Version \o <<Text("1:y1:q"), Text("e")>>

Reply(myid, results, tid) ==
    <<Text("d1:rd")>> \o Sender(myid) \o results \o <<Text("e")>>
    \o Counted("1:t", tid) \o Version \o <<Text("1:y1:r"), Text("e")>>

SendPing(myid, tid) == Sent(Query(myid, <<>>, "1:q4:ping", tid), Buffer)
SendPong(myid, tid) == Sent(Reply(myid, <<>>, tid), Buffer)
SendPeerAnnounced(myid, tid) == Sent(Reply(myid, <<>>, tid), Buffer)

SendFindNode(myid, tid, target, want) ==
    Sent(Query(myid, <<Text("6:target20:"), Data(target)>> \o Want(want), "1:q9:find_node", tid),
         Buffer)

SendGetPeers(myid, tid, hash, want) ==
    Sent(Query(myid, <<Text("9:info_hash20:"), Data(hash)>> \o Want(want), "1:q9:get_peers", tid),
         Buffer)

\* The port and the token's length are written only if the hash did not fit: the
\* statement after the hash's COPY() belongs to its condition.  The second INC() then
\* steps over as many bytes as "9:info_hash20:" has, which nobody wrote.
SendAnnouncePeer(myid, tid, hash, port, token) ==
    Sent(Query(myid, <<Text("9:info_hash20:"), Data(hash), Data(Garbage[14]), Data(token)>>,
               "1:q13:announce_peer", tid),
         Buffer)

\* Peers from one place of the storage on, at most 50 of the asker's family (of an
\* address of "size" bytes); once the key is written a list may also be empty.
ServedPeers(peers, from, size) ==
    LET turned == SubSeq(peers, from, Len(peers)) \o SubSeq(peers, 1, from - 1)
        family == SelectSeq(turned, LAMBDA peer : Len(peer) = size + 2)
    IN  SubSeq(family, 1, Min({50, Len(family)}))

SendNodesPeers(myid, tid, nodes, nodes6, peers, from, size, token) ==
    Sent(Reply(myid,
               Optional("5:nodes", nodes) \o Optional("6:nodes6", nodes6)
               \o Optional("5:token", token)
               \o (IF peers = <<>> THEN <<>>
                   ELSE <<Text("6:valuesl")>>
                        \o FlattenSeq([i \in DOMAIN ServedPeers(peers, from, size) |->
                                         Counted("", ServedPeers(peers, from, size)[i])])
                        \o <<Text("e")>>),
               tid),
         AnswerBuffer)

SendError(tid, code, message) ==
    Sent(<<Text("d1:el"), Number("i", code)>> \o Counted("", message) \o <<Text("e")>>
         \o Counted("1:t", tid) \o Version \o <<Text("1:y1:e"), Text("e")>>, Buffer)

\* A packet of the exchange, in base64, for one address or for everyone.
SendPacket(myid, key, packet) ==
    Sent(<<Text("d1:ad")>> \o Sender(myid) \o <<Text("e")>> \o Counted(key, packet)
         \o <<Text("1:y1:q"), Text("e")>>, Buffer)
DhtSendMessage(myid, packet) == SendPacket(myid, "1:q7:message", packet)
DhtSendBroadcast(myid, packet) == SendPacket(myid, "1:q9:broadcast", packet)

-----------------------------------------------------------------------------
\* parse_message().
Holds(message, t) == \E i \in DOMAIN message : message[i].text = t
Place(message, t) == Min({i \in DOMAIN message : message[i].text = t})
Rest(message, t) == SubSeq(message, Place(message, t) + 1, Len(message))

\* CHECK: what a text announces is in the buffer.
Overflow(message, t, n) == n > MessageSize(Rest(message, t))
Bytes(message, t, n) == SubSeq(Rest(message, t)[1].data, 1, n)

\* A value of 20 bytes; zeros where there is none.
Fixed == {"2:id20:", "9:info_hash20:", "6:target20:"}
FixedValue(message, t) == IF Holds(message, t) THEN Bytes(message, t, 20) ELSE Zeroes

\* A value as long as its number says, which must be less than the receiver's room.
Room == [tid |-> 16, token |-> 128, nodes |-> 256, nodes6 |-> 1024, values |-> 2048]
KeyOf == [tid |-> "1:t", token |-> "5:token", nodes |-> "5:nodes", nodes6 |-> "6:nodes6"]
Length(message, field) ==
    IF ~Holds(message, KeyOf[field]) THEN 0
    ELSE LET n == message[Place(message, KeyOf[field])].number
         IN  IF n < Room[field] THEN n ELSE 0
CountedValue(message, field) ==
    IF Length(message, field) = 0 THEN <<>>
    ELSE Bytes(message, KeyOf[field], Length(message, field))

\* Without an id of the request its array and length stay as they were.
TidOf(message) == IF Holds(message, "1:t") THEN CountedValue(message, "tid") ELSE Garbage[16]

Port(message) ==
    IF Holds(message, "porti") /\ message[Place(message, "porti")].number < 65536
    THEN message[Place(message, "porti")].number ELSE 0

\* The peers of one family, as many as there is room for.
Values(message, size) ==
    IF ~Holds(message, "6:valuesl") THEN <<>>
    ELSE LET rest == Rest(message, "6:valuesl")
             end == Min({i \in DOMAIN rest : rest[i].text # ""} \cup {Len(rest) + 1})
         IN  FoldLeft(LAMBDA got, item :
                         IF Len(item.data) = size /\ Len(got) + size <= Room.values
                         THEN got \o item.data ELSE got,
                      <<>>, SubSeq(rest, 1, end - 1))

\* No "want" at all is -1.
Wanted(message) ==
    IF ~Holds(message, "4:wantl") THEN {-1}
    ELSE {n \in {4, 6} : Holds(message, IF n = 4 THEN "2:n4" ELSE "2:n6")}

Overflows(message) ==
    \/ \E t \in Fixed : Holds(message, t) /\ Overflow(message, t, 20)
    \/ \E f \in DOMAIN KeyOf :
          LET n == Length(message, f) IN n > 0 /\ Overflow(message, KeyOf[f], n)

Queries == <<"1:q4:ping", "1:q9:find_node", "1:q9:get_peers", "1:q13:announce_peer",
             "1:q7:message", "1:q9:broadcast">>
QueryKind(message) ==
    LET named == {i \in DOMAIN Queries : Holds(message, Queries[i])}
    IN  IF named = {} THEN "bad" ELSE Queries[Min(named)]

Kind(message) ==
    IF Overflows(message) THEN "bad"
    ELSE IF Holds(message, "1:y1:r") THEN "reply"
    ELSE IF Holds(message, "1:y1:e") THEN "error"
    ELSE IF Holds(message, "1:y1:q") THEN QueryKind(message)
    ELSE "bad"

\* The messages dht_periodic() does something about, but for its own.
Handled(message) ==
    Kind(message) \notin {"bad", "error"} /\ FixedValue(message, "2:id20:") # Zeroes

Parse(message) ==
    [kind |-> Kind(message), id |-> FixedValue(message, "2:id20:"),
     info_hash |-> FixedValue(message, "9:info_hash20:"),
     target |-> FixedValue(message, "6:target20:"), port |-> Port(message),
     tid |-> TidOf(message), token |-> CountedValue(message, "token"),
     nodes |-> CountedValue(message, "nodes"), nodes6 |-> CountedValue(message, "nodes6"),
     values |-> Values(message, 6), values6 |-> Values(message, 18), want |-> Wanted(message)]

\* The packet in a message: the number after the key says how long it is, whatever the
\* length of what arrived.
Packet(message, key) == Bytes(message, key, message[Place(message, key)].number)

-----------------------------------------------------------------------------
\* A transaction id: the kind of the request, then a number of two bytes.
MakeTid(prefix, seqno) == prefix \o <<seqno % 256, seqno \div 256>>
TidMatch(tid, prefix) == SubSeq(tid, 1, 2) = prefix
TidNumber(tid) == tid[3] + 256 * tid[4]
=============================================================================

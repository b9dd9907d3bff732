----------------------------- MODULE MCEncodings -----------------------------
(***************************************************************************)
(* The program's arithmetic and its encodings against what they are for,   *)
(* over every input of a small width.  TLC evaluates the assumptions.      *)
(***************************************************************************)
EXTENDS Integers, Sequences, FiniteSets, SequencesExt

\* Numbers of two words of two bytes, a byte of two digits of one bit.
U == INSTANCE Uint256 WITH WIDTH <- 2, WordBytes <- 2, DigitBits <- 1

ValueOf(a) == a[0] + U!WordSize * a[1]
Modulus == U!WordSize^2

\* Hashes are added and compared as the numbers they stand for.
ASSUME NumbersAddUp ==
    \A a, b \in U!Numbers :
        /\ ValueOf(U!Plus(a, b)) = (ValueOf(a) + ValueOf(b)) % Modulus
        /\ ValueOf(U!Minus(a, b)) = (ValueOf(a) - ValueOf(b)) % Modulus
        /\ U!Less(a, b) <=> ValueOf(a) < ValueOf(b)
        /\ U!LessOrEqual(a, b) <=> ValueOf(a) <= ValueOf(b)

\* One more, one less, shifted by any number of bits, and as a uint64.
ASSUME NumbersShift ==
    \A a \in U!Numbers :
        /\ ValueOf(U!Increment(a)) = (ValueOf(a) + 1) % Modulus
        /\ ValueOf(U!Decrement(a)) = (ValueOf(a) - 1) % Modulus
        /\ \A s \in 0..2 * U!WordBits :
              /\ ValueOf(U!ShiftLeft(a, s)) = (ValueOf(a) * 2^s) % Modulus
              /\ ValueOf(U!ShiftRight(a, s)) = ValueOf(a) \div 2^s
        /\ U!FromUint64(ValueOf(a)) = a
        /\ \A b \in {0, 1, U!WordSize - 1, U!WordSize, ValueOf(a)} :
              U!EqualsUint64(a, b) <=> ValueOf(a) = b

\* A hash written as hex for the wallet is read back as the same hash, with or
\* without a prefix and blanks before it.
ASSUME HexIsReadBack ==
    \A a \in U!Numbers :
        /\ U!SetHex(U!GetHex(a)) = a
        /\ U!SetHex(<<U!Blank, 0, U!Letter>> \o U!GetHex(a) \o <<U!Blank, 1>>) = a
        /\ U!SetHex(<<1>> \o U!GetHex(a)) = a
        /\ LET bytes == [i \in 1..U!Bytes |-> U!ByteOf(a, i - 1)]
           IN  U!FromVector(bytes) = a /\ U!FromVector(Tail(bytes)) = U!Zero

\* Any text: what is read is the number its leading digits stand for.
HexValue(digits) == FoldLeft(LAMBDA n, d : n * U!Digit + d, 0, digits)
ASSUME AnyTextIsRead ==
    \A text \in BoundedSeq(U!Chars, 5) :
        ValueOf(U!SetHex(text)) =
            HexValue(U!LeadingDigits(U!DropPrefix(U!DropBlanks(text)))) % Modulus

-----------------------------------------------------------------------------
\* Addresses in base 3 with a checksum of one byte; bytes of four bits.
CheckSum(bytes) == <<(7 + Len(bytes) + FoldLeft(LAMBDA n, b : 3 * n + b, 0, bytes)) % 16>>
T == INSTANCE TextCodes WITH
        Base <- 3, DigitBits <- 2, CheckBytes <- 1, KeyBytes <- 2, Checksum <- CheckSum

SomeBytes == BoundedSeq(0..T!Byte - 1, 3)

\* An address, its leading zero bytes included, is read back from its text, also with
\* blanks around it, and an address has one text only.
ASSUME AddressesAreReadBack ==
    /\ \A bytes \in SomeBytes :
          /\ T!DecodeBase58(T!EncodeBase58(bytes)) = bytes
          /\ bytes # <<>> => T!DecodeBase58Check(T!EncodeBase58Check(bytes)) = bytes
          /\ Len(bytes) = 2 => T!Destination(T!Address(0, bytes)) = bytes
    /\ \A text \in BoundedSeq({T!Blank, T!Other, 0, 1, 2}, 6) :
          LET bytes == T!DecodeBase58Check(text)
          IN  bytes # <<>> =>
                 T!EncodeBase58Check(bytes) = SelectSeq(text, LAMBDA c : c # T!Blank)

\* The user sees addresses in base64 and types them back; the hex of a coin
\* transaction, cut off anywhere, gives its first bytes.
ASSUME DataIsReadBack ==
    \A bytes \in SomeBytes :
        /\ T!DecodeBase64(T!EncodeBase64(bytes)) = bytes
        /\ T!DecodeBase64(<<T!Other>> \o T!EncodeBase64(bytes)) = <<>>
        /\ T!ParseHex(T!HexStr(bytes)) = bytes
        /\ \A n \in 0..2 * Len(bytes) :
              T!ParseHex(SubSeq(T!HexStr(bytes), 1, n)) = SubSeq(bytes, 1, n \div 2)

-----------------------------------------------------------------------------
\* Coin transactions, bytes of eight values.
C == INSTANCE CoinCodec WITH
        Byte <- 8, MAX_SIZE <- 4100, HashSize <- 1, IntSize <- 2, AmountSize <- 1,
        TxVersion <- <<1, 0>>, Now <- <<4, 4>>, NoSequence <- <<7, 7>>

\* A size in each of its four forms; a larger one than the limit is refused.
ASSUME SizesAreReadBack ==
    \A n \in 0..4200 :
        /\ Len(C!CompactSize(n)) = C!SizeOfCompactSize(n)
        /\ C!ReadCompactSize(C!CompactSize(n) \o <<5>>) =
             IF n <= 4100 THEN C!Got(n, <<5>>) ELSE C!Failed(0, C!CompactSize(n) \o <<5>>)

SomeScripts == {<<>>, <<6>>, [i \in 1..6 |-> 7]}
SomeTransactions ==
    [nVersion : {<<2, 1>>}, nTime : {<<4, 4>>},
     vin : BoundedSeq({<< <<3, 0, 1>>, script, <<7, 7>> >> : script \in SomeScripts}, 2),
     vout : BoundedSeq({<< <<5>>, script>> : script \in SomeScripts}, 2),
     nLockTime : {<<0, 0>>, <<0, 6>>}]

\* The other wallet reads the transaction that was sent, and one that lost its end
\* never passes for one that is locked.
ASSUME TransactionsAreReadBack ==
    \A tx \in SomeTransactions, btc \in BOOLEAN :
        LET bytes == C!Serialize(tx, btc)
        IN  /\ C!Unserialize(bytes, btc) = tx
            /\ \A n \in 0..Len(bytes) - 1 :
                  LET cut == C!Unserialize(SubSeq(bytes, 1, n), btc)
                  IN  ~C!LockTimesAccepted(cut, tx, 1) /\ ~C!LockTimesAccepted(tx, cut, 1)

-----------------------------------------------------------------------------
L == INSTANCE PacketLayout WITH Version <- 3

\* The size in the header is the size of the data, whatever a packet went through.
PacketSteps ==
    UNION {{L!AppendBytes(p, <<7>>), L!AppendText(p, <<7, 7>>), L!SetText(p, <<8>>), L!Clear(p),
            L!Resize(p, 2), L!SetData(p, <<9, 9>>, 0), L!SetData(p, <<9, 9>>, 2)} :
           p \in {L!NewPacket("Hold"), L!Write("Cancel", <<[i \in 1..32 |-> 5]>>),
                  L!SetData(L!NewPacket("Hold"), <<6>>, 1), L!Resize(L!NewPacket("Hold"), 3)}}
ASSUME SizeIsKept == \A p \in PacketSteps : p.size = Len(p.data)

\* Values of the fields of a packet that begin with different bytes, none of them zero;
\* currencies of c characters and texts of up to t.
ValuesOf(command, c, t) ==
    [i \in DOMAIN L!Fields[command] |->
        LET kind == L!Fields[command][i]
        IN  [j \in 1..(CASE kind = "text" -> (t * i) % 4 [] kind = "currency" -> c
                        [] OTHER -> L!FieldSize[kind]) |-> i + j]]

\* A handler takes the packet its sender made and reads in it what was written: every
\* offset and every size it asks for is that of the sender.  This holds of currencies
\* of up to seven characters; one of eight runs into the amount after it.
ASSUME HandlersReadWhatWasSent ==
    \A command \in L!Commands, c \in 0..8, t \in 0..3 :
        LET values == ValuesOf(command, c, t)
            packet == L!Write(command, values)
        IN  /\ L!Accepts(command, packet)
            /\ L!ReadFields(command, packet) = values
                  <=> (c < 8 \/ \A i \in DOMAIN values : L!Fields[command][i] # "currency")

\* Whatever the pieces in which the packets of a wallet arrive, its session handles
\* them whole and in order, up to one of another version.
Sent == << L!SetText(L!NewPacket("Hold"), <<5, 5, 5>>), L!NewPacket("Hold"),
           L!SetText(L!NewPacket("Hold"), <<6>>) >>
ASSUME PacketsArriveWhole ==
    \A pieces \in [1..6 -> 1..4] :
        LET stream == FlattenSeq([i \in DOMAIN Sent |-> L!Streamed(Sent[i])])
            Reads(r) == FoldLeft(L!OnRead, L!Listening(r), pieces \o [i \in 1..8 |-> 4])
            wrong == L!Streamed([Sent[1] EXCEPT !.version = 2])
        IN  /\ Reads(stream).read = <<Sent[1].data, Sent[2].data, Sent[3].data>>
            /\ Reads(L!Streamed(Sent[3]) \o wrong \o stream).read = <<Sent[3].data>>

-----------------------------------------------------------------------------
\* Messages between DHT nodes.
Filled(n, byte) == [i \in 1..n |-> byte]
W == INSTANCE DhtWire WITH
        Zeroes <- Filled(20, 0), MyVersion <- <<66, 84, 0, 0>>,
        Garbage <- [n \in {14, 16} |-> Filled(n, 255)]

MyNode == Filled(20, 1)
Target == Filled(20, 2)
Request == W!MakeTid(<<103, 112>>, 513)

\* Peers of both families: the i-th of n, every other one with a long address.
PeersStored(n) == [i \in 1..n |-> Filled(IF i % 2 = 0 THEN 6 ELSE 18, i)]
Answer(nodes, nodes6, peers, from, size) ==
    W!SendNodesPeers(MyNode, Request, Filled(26 * nodes, 3), Filled(38 * nodes6, 4),
                     PeersStored(peers), from, size, Filled(8, 5))
WireMessages ==
    {W!SendPing(MyNode, Request), W!SendPong(MyNode, Request),
     W!SendGetPeers(MyNode, Request, Target, {4}), W!SendFindNode(MyNode, Request, Target, {4, 6}),
     W!SendError(Request, 203, Filled(30, 6)), W!DhtSendMessage(MyNode, Filled(40, 7)),
     W!DhtSendBroadcast(MyNode, Filled(12, 7)), Answer(1, 2, 4, 2, 4)}

\* A question is read as it was asked, and the answer can be told from others.
ASSUME QuestionsAreRead ==
    /\ \A want \in SUBSET {4, 6} :
          LET find == W!Parse(W!Receive(W!SendFindNode(MyNode, Request, Target, want)))
              get == W!Parse(W!Receive(W!SendGetPeers(MyNode, Request, Target, want)))
          IN  /\ find.kind = "1:q9:find_node" /\ find.target = Target
              /\ get.kind = "1:q9:get_peers" /\ get.info_hash = Target
              /\ \A p \in {find, get} :
                    /\ p.id = MyNode /\ p.tid = Request
                    /\ p.want = IF want = {} THEN {-1} ELSE want
    /\ \A n \in {0, 255, 256, 65535} :
          LET tid == W!Parse(W!SendPong(MyNode, W!MakeTid(<<103, 112>>, n))).tid
          IN  W!TidMatch(tid, <<103, 112>>) /\ W!TidNumber(tid) = n

\* The largest answer (eight nodes of each family, 50 peers) fits its buffer and the
\* arrays of the one who asked, who finds in it every node and peer.
ASSUME AnswersAreWhole ==
    \A nodes, nodes6 \in {0, 8}, peers \in {0, 1, 5, 102}, size \in {4, 16} :
        \A from \in {1, peers} \ {0} :
            LET p == W!Parse(W!Receive(Answer(nodes, nodes6, peers, from, size)))
                served == FlattenSeq(W!ServedPeers(PeersStored(peers), from, size))
            IN  /\ p.kind = "reply" /\ p.tid = Request /\ p.token = Filled(8, 5)
                /\ p.nodes = Filled(26 * nodes, 3) /\ p.nodes6 = Filled(38 * nodes6, 4)
                /\ IF size = 4 THEN p.values = served /\ p.values6 = <<>>
                               ELSE p.values6 = served /\ p.values = <<>>

\* A message that lost more than its last byte is ignored.
ASSUME CutMessagesAreIgnored ==
    \A message \in WireMessages :
        /\ W!Kind(message) # "bad"
        /\ \A n \in 0..W!MessageSize(message) - 2 : ~W!Handled(W!Cut(message, n))

\* A packet arrives as it was sent or not at all.  The sender's buffer has room for twice
\* as much as the receiver's: a message between the two is sent, and never read.
ASSUME LongPacketsAreLost ==
    \A n \in {4, 100, 3900, 4020, 4024, 4028, 4032, 4096, 8112, 8124, 8200} :
        LET packet == Filled(n, 9)
            sent == W!DhtSendMessage(MyNode, packet)
            got == W!Receive(sent)
        IN  /\ W!Handled(got) <=> n <= 4040
            /\ W!Handled(got) => W!Packet(got, "1:q7:message") = packet
            /\ sent = <<>> <=> n > 8130

\* No announcement of this program is ever accepted: it has neither port nor token.
ASSUME AnnouncementsAreRefused ==
    LET p == W!Parse(W!SendAnnouncePeer(MyNode, Request, Target, 700, Filled(8, 5)))
    IN  p.kind = "1:q13:announce_peer" /\ p.info_hash = Target /\ p.port = 0 /\ p.token = <<>>
=============================================================================

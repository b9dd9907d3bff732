----------------------------- MODULE PacketLayout -----------------------------
(***************************************************************************)
(* Packets as bytes: the fields a sender appends (XBridgePacket), the      *)
(* offsets its handler reads them at, the size the handler asks for, and   *)
(* the pieces in which a wallet's socket gives them to its session.        *)
(***************************************************************************)
EXTENDS Integers, Sequences, FiniteSetsExt, SequencesExt

CONSTANT Version          \* the version of the protocol

HeaderSize == 32

\* XBridgePacket: the fields of its header and the data after it.
NewPacket(command) == [version |-> Version, command |-> command, size |-> 0, data |-> <<>>]

\* Every append() writes the size anew; a text is followed by a zero byte.
AppendBytes(packet, bytes) ==
    [packet EXCEPT !.data = @ \o bytes, !.size = Len(packet.data) + Len(bytes)]
AppendText(packet, text) == AppendBytes(packet, Append(text, 0))

Resized(data, size) == [i \in 1..size |-> IF i \in DOMAIN data THEN data[i] ELSE 0]
Resize(packet, size) == [packet EXCEPT !.data = Resized(@, size), !.size = size]

SetText(packet, text) == [packet EXCEPT !.data = text, !.size = Len(text)]

\* setData() at an offset: only a packet that is too short for it becomes longer.
SetData(packet, bytes, offset) ==
    LET end == offset + Len(bytes)
        longer == IF bytes # <<>> /\ Len(packet.data) < end THEN Resize(packet, end) ELSE packet
    IN  [longer EXCEPT !.data =
            [i \in DOMAIN @ |-> IF i - offset \in DOMAIN bytes THEN bytes[i - offset] ELSE @[i]]]

Clear(packet) == [packet EXCEPT !.command = "Invalid", !.size = 0, !.data = <<>>]

\* copyFrom() takes the size field as it came: its assertion is always true.
CopyFrom(bytes, size) == [NewPacket("Invalid") EXCEPT !.data = bytes, !.size = size]

-----------------------------------------------------------------------------
\* What a field is made of; a currency is filled up with zeros, a text ended by one.
FieldSize == [id |-> 32, address |-> 20, currency |-> 8, amount |-> 8, time |-> 4]
Fill(kind, value) ==
    CASE kind = "text" -> Append(value, 0)
      [] kind = "currency" -> Resized(value, 8)
      [] OTHER -> value

\* The sender's fields, in the order of its calls of append().
Both == <<"address", "address", "id">>
Money == <<"address", "currency", "amount">>
Fields ==
    [Transaction |-> <<"id">> \o Money \o Money,
     Hold        |-> Both \o <<"id">>,
     HoldApply   |-> Both,
     Init        |-> Both \o Money \o Money,
     Initialized |-> Both,
     Create      |-> Both \o <<"address", "time", "time">>,
     Created     |-> Both \o <<"text", "text">>,
     Sign        |-> Both \o <<"text", "text">>,
     Signed      |-> Both \o <<"text">>,
     Commit      |-> Both \o <<"text">>,
     Commited    |-> Both \o <<"id">>,
     Confirm     |-> Both \o <<"id">>,
     Confirmed   |-> Both,
     Cancel      |-> <<"id">>,
     Rollback    |-> <<"address", "id">>,
     Finished    |-> <<"id">>,
     Pending     |-> <<"id", "currency", "amount", "currency", "amount">>,
     AddressBook |-> <<"text", "text", "text">>]
Commands == DOMAIN Fields

Write(command, values) ==
    FoldLeftDomain(LAMBDA packet, i : AppendBytes(packet, Fill(Fields[command][i], values[i])),
                   NewPacket(command), values)

\* The size a handler asks for: exactly that many bytes, or at least that many.
Exact(n) == [min |-> n, exact |-> TRUE]
AtLeast(n) == [min |-> n, exact |-> FALSE]
Asked(command) ==
    CASE command \in {"Transaction", "Hold", "Commited"} -> Exact(104)
      [] command \in {"HoldApply", "Initialized", "Confirmed"} -> Exact(72)
      [] command = "Init" -> Exact(144)
      [] command = "Create" -> Exact(100)
      [] command \in {"Created", "Sign", "Signed", "Commit", "Confirm"} -> AtLeast(72)
      [] command \in {"Cancel", "Finished"} -> Exact(32)
      [] command = "Rollback" -> Exact(52)
      [] command = "Pending" -> Exact(64)
      [] command = "AddressBook" -> AtLeast(0)
Accepts(command, packet) ==
    IF Asked(command).exact THEN packet.size = Asked(command).min
    ELSE packet.size >= Asked(command).min

\* The offsets in the data at which the handler reads the fields; a text begins where
\* the one before it ended.
Offsets(command) ==
    CASE command = "Transaction" -> <<0, 32, 52, 60, 68, 88, 96>>
      [] command = "Init" -> <<0, 20, 40, 72, 92, 100, 108, 128, 136>>
      [] command = "Create" -> <<0, 20, 40, 72, 92, 96>>
      [] command \in {"Hold", "Commited", "Confirm",
                      "Created", "Sign", "Signed", "Commit"} -> <<0, 20, 40, 72>>
      [] command \in {"HoldApply", "Initialized", "Confirmed"} -> <<0, 20, 40>>
      [] command \in {"Cancel", "Finished", "AddressBook"} -> <<0>>
      [] command = "Rollback" -> <<0, 20>>
      [] command = "Pending" -> <<0, 32, 40, 48, 56>>

\* A text or a currency is read up to a zero byte, whatever field that byte is in.
TextAt(data, offset) ==
    LET end == Min({i \in offset + 1..Len(data) : data[i] = 0} \cup {Len(data) + 1})
    IN  SubSeq(data, offset + 1, end - 1)
FieldAt(kind, data, offset) ==
    IF kind \in {"text", "currency"} THEN TextAt(data, offset)
    ELSE SubSeq(data, offset + 1, offset + FieldSize[kind])

ReadFields(command, packet) ==
    LET Further(r, kind) ==
            LET i == Len(r.values) + 1
                at == IF i <= Len(Offsets(command)) THEN Offsets(command)[i] ELSE r.next
                value == FieldAt(kind, packet.data, at)
            IN  [values |-> Append(r.values, value), next |-> at + Len(value) + 1]
    IN  FoldLeft(Further, [values |-> <<>>, next |-> 0], Fields[command]).values

-----------------------------------------------------------------------------
\* A wallet's socket: a packet of the stream is its version, its size and its data,
\* here one member of the sequence each and then one for each byte.
Streamed(packet) == <<packet.version, packet.size>> \o packet.data
HeaderMembers == 2

Listening(stream) == [stream |-> stream, got |-> <<>>, read |-> <<>>, open |-> TRUE]

\* How much of the packet is still to be read, its header first.
Wanted(r) ==
    IF Len(r.got) < HeaderMembers THEN HeaderMembers - Len(r.got)
    ELSE HeaderMembers + r.got[2] - Len(r.got)

\* The read is repeated until the header is whole; another version closes the
\* connection.  The body follows, and the packet is handled when it is whole.
OnRead(r, transferred) ==
    LET n == Min({transferred, Wanted(r), Len(r.stream)})
        got == r.got \o SubSeq(r.stream, 1, n)
        rest == SubSeq(r.stream, n + 1, Len(r.stream))
        header == Len(got) >= HeaderMembers
    IN  IF ~r.open \/ n = 0 THEN r
        ELSE IF header /\ got[1] # Version
        THEN [r EXCEPT !.stream = rest, !.got = <<>>, !.open = FALSE]
        ELSE IF header /\ Len(got) = HeaderMembers + got[2]
        THEN [r EXCEPT !.stream = rest, !.got = <<>>,
                       !.read = Append(@, SubSeq(got, HeaderMembers + 1, Len(got)))]
        ELSE [r EXCEPT !.stream = rest, !.got = got]
=============================================================================

------------------------------ MODULE CoinCodec ------------------------------
(***************************************************************************)
(* Coin transactions as bytes: what serialize.h writes and reads for the   *)
(* members that ctransaction.h lists, and how a session reads the          *)
(* transaction another wallet sent it.  Bytes and fields of fixed size are *)
(* sequences of bytes; a script is a sequence of bytes of any length.      *)
(***************************************************************************)
EXTENDS Integers, Sequences, SequencesExt

CONSTANTS
    Byte,          \* values of a byte (256)
    MAX_SIZE,      \* the longest script or list that is read
    HashSize, IntSize, AmountSize,     \* bytes of a hash, an int and an int64
    TxVersion,     \* the version a transaction is made with
    Now,           \* the time it is made at
    NoSequence     \* the sequence number an input is made with

-----------------------------------------------------------------------------
\* Integers go least significant byte first.
LittleEndian(n, size) == [i \in 1..size |-> (n \div Byte^(i - 1)) % Byte]
IntValue(bytes) == FoldRight(LAMBDA b, n : n * Byte + b, bytes, 0)

\* A size takes one byte, or one of the last three values and 2, 4 or 8 bytes.
CompactSize(n) ==
    CASE n < Byte - 3 -> <<n>>
      [] n >= Byte - 3 /\ n < Byte^2 -> <<Byte - 3>> \o LittleEndian(n, 2)
      [] n >= Byte^2 /\ n < Byte^4 -> <<Byte - 2>> \o LittleEndian(n, 4)
      [] OTHER -> <<Byte - 1>> \o LittleEndian(n, 8)

SizeOfCompactSize(n) ==
    1 + CASE n < Byte - 3 -> 0
          [] n >= Byte - 3 /\ n < Byte^2 -> 2
          [] n >= Byte^2 /\ n < Byte^4 -> 4
          [] OTHER -> 8

WriteScript(script) == CompactSize(Len(script)) \o script

\* Reading: what was read, what is left of the stream, and whether the data was
\* there.  A read past the end throws and takes nothing from the stream.
Got(value, rest) == [value |-> value, rest |-> rest, ok |-> TRUE]
Failed(value, stream) == [value |-> value, rest |-> stream, ok |-> FALSE]

Read(stream, size, default) ==
    IF size <= Len(stream)
    THEN Got(SubSeq(stream, 1, size), SubSeq(stream, size + 1, Len(stream)))
    ELSE Failed(default, stream)

ReadCompactSize(stream) ==
    LET code == Read(stream, 1, <<0>>)
        more == CASE code.value[1] = Byte - 3 -> 2
                  [] code.value[1] = Byte - 2 -> 4
                  [] code.value[1] = Byte - 1 -> 8
                  [] OTHER -> 0
        wide == Read(code.rest, more, <<>>)
        size == IF more = 0 THEN code.value[1] ELSE IntValue(wide.value)
    IN  IF code.ok /\ wide.ok /\ size <= MAX_SIZE
        THEN Got(size, wide.rest) ELSE Failed(0, stream)

\* A vector of bytes that is cut off is left at its full size, as zeros.
ReadScript(stream) ==
    LET size == ReadCompactSize(stream)
    IN  IF size.ok THEN Read(size.rest, size.value, [i \in 1..size.value |-> 0])
        ELSE Failed(<<>>, stream)

-----------------------------------------------------------------------------
\* Members in the order of their READWRITE: a member of a fixed size is that many
\* bytes, one of size Script is counted.  "new" is what the constructor gives it.
Script == 0
Member(size, new) == [size |-> size, new |-> new]
Zeros(size) == [i \in 1..size |-> 0]
Ones(size) == [i \in 1..size |-> Byte - 1]

TxIn == << Member(HashSize + IntSize, Zeros(HashSize) \o Ones(IntSize)),
           Member(Script, <<>>), Member(IntSize, NoSequence) >>
TxOut == << Member(AmountSize, Ones(AmountSize)), Member(Script, <<>>) >>

New(layout) == [i \in DOMAIN layout |-> layout[i].new]

WriteMembers(layout, members) ==
    FlattenSeq([i \in DOMAIN layout |->
        IF layout[i].size = Script THEN WriteScript(members[i]) ELSE members[i]])

\* The first member that cannot be read ends the reading of all that follow.
ReadMembers(layout, stream) ==
    LET Further(r, i) ==
            LET m == IF layout[i].size = Script THEN ReadScript(r.rest)
                     ELSE Read(r.rest, layout[i].size, layout[i].new)
            IN  IF r.ok THEN [m EXCEPT !.value = [r.value EXCEPT ![i] = m.value]] ELSE r
    IN  FoldLeftDomain(Further, Got(New(layout), stream), layout)

WriteList(layout, list) ==
    CompactSize(Len(list))
    \o FlattenSeq([i \in DOMAIN list |-> WriteMembers(layout, list[i])])

\* A vector of objects gets its size first, then its objects one after the other.
ReadList(layout, stream) ==
    LET size == ReadCompactSize(stream)
        fresh == [i \in 1..size.value |-> New(layout)]
        Further(r, i) ==
            LET m == ReadMembers(layout, r.rest)
            IN  IF r.ok THEN [m EXCEPT !.value = [r.value EXCEPT ![i] = m.value]] ELSE r
    IN  IF size.ok THEN FoldLeftDomain(Further, Got(fresh, size.rest), fresh)
        ELSE Failed(<<>>, stream)

-----------------------------------------------------------------------------
Transaction == [nVersion |-> TxVersion, nTime |-> Now, vin |-> <<>>, vout |-> <<>>,
                nLockTime |-> Zeros(IntSize)]

\* A bitcoin transaction has no time, one of the other coins has it after the version.
Serialize(tx, btc) ==
    tx.nVersion \o (IF btc THEN <<>> ELSE tx.nTime)
    \o WriteList(TxIn, tx.vin) \o WriteList(TxOut, tx.vout) \o tx.nLockTime

\* txFromString(): what was read before the exception stays in the transaction.
Unserialize(stream, btc) ==
    LET version == Read(stream, IntSize, TxVersion)
        time == IF btc THEN [version EXCEPT !.value = Now] ELSE Read(version.rest, IntSize, Now)
        ins == ReadList(TxIn, time.rest)
        outs == ReadList(TxOut, ins.rest)
        lock == Read(outs.rest, IntSize, Transaction.nLockTime)
        Or(ok, read, new) == IF ok THEN read.value ELSE new
        t == version.ok /\ time.ok
    IN  [nVersion |-> version.value,
         nTime |-> Or(version.ok, time, Now),
         vin |-> Or(t, ins, <<>>),
         vout |-> Or(t /\ ins.ok, outs, <<>>),
         nLockTime |-> Or(t /\ ins.ok /\ outs.ok, lock, Transaction.nLockTime)]

\* processTransactionSign(): the payment and the revert of the other wallet both
\* have to be locked for long enough, or the swap is cancelled.
LockTimesAccepted(txpay, txrev, threshold) ==
    IntValue(txpay.nLockTime) >= threshold /\ IntValue(txrev.nLockTime) >= threshold
=============================================================================

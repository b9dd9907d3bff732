------------------------------ MODULE TextCodes ------------------------------
(***************************************************************************)
(* The texts in which addresses and coin transactions cross to the wallets *)
(* and to the user: base58 with a checksum (bitcoinrpc.cpp, base58.h),     *)
(* base64 and hex (util/util.cpp).  A text is a sequence of characters: a  *)
(* digit of the code is its value, every other character is one of Blank,  *)
(* Padding and Other.                                                      *)
(***************************************************************************)
EXTENDS Integers, Sequences, FiniteSetsExt, SequencesExt

CONSTANTS
    Base,            \* digits of the address code (58)
    DigitBits,       \* a hex digit has as many bits (4), a byte twice as many,
                     \* and a base64 character three quarters of a byte's
    CheckBytes,      \* bytes of the checksum of an address (4)
    KeyBytes,        \* bytes of the hash of a key (20)
    Checksum(_)      \* the first CheckBytes bytes of the double SHA-256 of some bytes

HexDigits == 2^DigitBits
Byte == HexDigits * HexDigits

Blank == -1
Padding == -2
Other == -3

-----------------------------------------------------------------------------
\* Digits, the most significant first, and the number they stand for.
Number(digits, base) == FoldLeft(LAMBDA n, d : n * base + d, 0, digits)

Digits(n, size, base) == [i \in 1..size |-> (n \div base^(size - i)) % base]

ShortestDigits(n, base) ==
    Digits(n, CHOOSE k \in 0..n : base^k > n /\ (k = 0 \/ base^(k - 1) <= n), base)

\* How many members of a sequence come before the first that is not a P.
Leading(seq, P(_)) == Min({i \in DOMAIN seq : ~P(seq[i])} \cup {Len(seq) + 1}) - 1

IsBlank(c) == c = Blank
IsZero(c) == c = 0
IsBase58(c) == c \in 0..Base - 1

SkipBlanks(text) == SubSeq(text, Leading(text, IsBlank) + 1, Len(text))

\* The bytes as one number in base 58, and a first digit for each zero byte before it.
EncodeBase58(bytes) ==
    [i \in 1..Leading(bytes, IsZero) |-> 0] \o ShortestDigits(Number(bytes, Byte), Base)

\* Blanks may stand around the digits and nowhere else.
Base58Digits(text) ==
    LET t == SkipBlanks(text) IN SubSeq(t, 1, Leading(t, IsBase58))
IsBase58Text(text) ==
    LET t == SkipBlanks(text)
        rest == SubSeq(t, Leading(t, IsBase58) + 1, Len(t))
    IN  \A i \in DOMAIN rest : IsBlank(rest[i])

DecodeBase58(text) ==
    LET digits == Base58Digits(text)
    IN  [i \in 1..Leading(digits, IsZero) |-> 0] \o ShortestDigits(Number(digits, Base), Byte)

EncodeBase58Check(bytes) == EncodeBase58(bytes \o Checksum(bytes))

\* Nothing is returned of a text that is not base58, is too short or has another checksum.
DecodeBase58Check(text) ==
    LET bytes == DecodeBase58(text)
        size == Len(bytes) - CheckBytes
    IN  IF IsBase58Text(text) /\ size >= 0
              /\ Checksum(SubSeq(bytes, 1, size)) = SubSeq(bytes, size + 1, Len(bytes))
        THEN SubSeq(bytes, 1, size) ELSE <<>>

\* CBitcoinAddress: a version byte and the hash of a key; Get() gives no
\* destination, <<>> here, for a hash of another length.
Address(version, key) == EncodeBase58Check(<<version>> \o key)
Destination(text) ==
    LET bytes == DecodeBase58Check(text)
    IN  IF Len(bytes) = KeyBytes + 1 THEN Tail(bytes) ELSE <<>>

-----------------------------------------------------------------------------
\* base64: the bits of the bytes in characters of three quarters of a byte, zeros after
\* the last bit, and padding by the size of the data.
ByteBits == 2 * DigitBits
CharBits == (3 * ByteBits) \div 4
IsBase64(c) == c \in 0..2^CharBits - 1

Bits(seq, width) ==
    [i \in 1..width * Len(seq) |->
        (seq[(i - 1) \div width + 1] \div 2^(width - 1 - ((i - 1) % width))) % 2]
Pieces(bits, width, count) ==
    [i \in 1..count |->
        Number([j \in 1..width |->
            LET at == (i - 1) * width + j IN IF at \in DOMAIN bits THEN bits[at] ELSE 0], 2)]

EncodeBase64(bytes) ==
    LET bits == Bits(bytes, ByteBits)
    IN  Pieces(bits, CharBits, (Len(bits) + CharBits - 1) \div CharBits)
        \o CASE Len(bytes) % 3 = 0 -> <<>>
             [] Len(bytes) % 3 = 1 -> <<Padding, Padding>>
             [] Len(bytes) % 3 = 2 -> <<Padding>>

\* Up to two padding characters are taken off the end; elsewhere one counts as a zero.
\* A character of no value, or a single one left over, makes the whole text empty.
DropPadding(text) ==
    LET padded(n) == n > 0 /\ text[n] = Padding
        size == Len(text)
    IN  SubSeq(text, 1, IF ~padded(size) THEN size
                        ELSE IF ~padded(size - 1) THEN size - 1 ELSE size - 2)
DecodeBase64(text) ==
    LET t == DropPadding(text)
        chars == [i \in DOMAIN t |-> IF t[i] = Padding THEN 0 ELSE t[i]]
    IN  IF Len(t) % 4 = 1 \/ \E i \in DOMAIN chars : ~IsBase64(chars[i]) THEN <<>>
        ELSE Pieces(Bits(chars, CharBits), ByteBits, (3 * Len(t)) \div 4)

-----------------------------------------------------------------------------
IsHex(c) == c \in 0..HexDigits - 1

HexStr(bytes) ==
    [i \in 1..2 * Len(bytes) |->
        LET byte == bytes[(i + 1) \div 2]
        IN  IF i % 2 = 1 THEN byte \div HexDigits ELSE byte % HexDigits]

\* Pairs of digits with blanks between the pairs, up to the first pair that is not one.
ParseHex(text) ==
    LET Pair(r, c) ==
            CASE r.done -> r
              [] r.half = <<>> /\ IsBlank(c) -> r
              [] ~IsHex(c) -> [r EXCEPT !.done = TRUE]
              [] r.half = <<>> /\ IsHex(c) -> [r EXCEPT !.half = <<c>>]
              [] OTHER -> [r EXCEPT !.half = <<>>,
                                    !.bytes = Append(@, r.half[1] * HexDigits + c)]
    IN  FoldLeft(Pair, [bytes |-> <<>>, half |-> <<>>, done |-> FALSE], text).bytes
=============================================================================

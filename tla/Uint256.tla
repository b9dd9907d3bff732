------------------------------- MODULE Uint256 -------------------------------
(***************************************************************************)
(* Hashes and ids as util/uint256.h computes with them: words, the least   *)
(* significant first, and as text.  A hash is the key of every table of    *)
(* the program and crosses to the wallet as hex.                           *)
(***************************************************************************)
EXTENDS Integers, Sequences, FiniteSetsExt, SequencesExt

CONSTANTS
    WIDTH,        \* words in a number (8)
    WordBytes,    \* bytes in a word (4)
    DigitBits     \* bits in a hex digit (4); a byte has two digits

Digit == 2^DigitBits
Byte == Digit * Digit
WordBits == 2 * DigitBits * WordBytes
WordSize == 2^WordBits

Words == 0..WIDTH - 1
Numbers == [Words -> 0..WordSize - 1]
Zero == [i \in Words |-> 0]

\* A uint64 fills two words.
FromUint64(b) ==
    [i \in Words |-> CASE i = 0 -> b % WordSize [] i = 1 -> (b \div WordSize) % WordSize [] OTHER -> 0]

EqualsUint64(a, b) ==
    /\ a[0] = b % WordSize /\ a[1] = (b \div WordSize) % WordSize
    /\ \A i \in Words : i > 1 => a[i] = 0

Complement(a) == [i \in Words |-> WordSize - 1 - a[i]]

\* operator+=: word by word with a carry; what is carried out of the last is lost.
Plus(a, b) ==
    LET n[i \in Words] == (IF i = 0 THEN 0 ELSE n[i - 1] \div WordSize) + a[i] + b[i]
    IN  [i \in Words |-> n[i] % WordSize]

\* operator++ and -- go on to the next word while the last one wrapped.
Wraps(a, word) == Min({WIDTH - 1} \cup {i \in Words : a[i] # word})
Increment(a) ==
    [i \in Words |-> IF i <= Wraps(a, WordSize - 1) THEN (a[i] + 1) % WordSize ELSE a[i]]
Decrement(a) ==
    [i \in Words |-> IF i <= Wraps(a, 0) THEN (a[i] - 1) % WordSize ELSE a[i]]

Negate(a) == Increment(Complement(a))
Minus(a, b) == Plus(a, Negate(b))

WordAt(a, i) == IF i \in Words THEN a[i] ELSE 0

\* operator<<= and >>=: whole words, then the bits that cross into the next one.
ShiftLeft(a, shift) ==
    LET k == shift \div WordBits
        bits == shift % WordBits
    IN  [i \in Words |-> ((WordAt(a, i - k) * 2^bits) % WordSize)
                         + WordAt(a, i - k - 1) \div 2^(WordBits - bits)]

ShiftRight(a, shift) ==
    LET k == shift \div WordBits
        bits == shift % WordBits
    IN  [i \in Words |-> WordAt(a, i + k) \div 2^bits
                         + ((WordAt(a, i + k + 1) * 2^(WordBits - bits)) % WordSize)]

\* The comparisons go from the last word down to the first that differs.
Differ(a, b) == {i \in Words : a[i] # b[i]}
Less(a, b) == a # b /\ a[Max(Differ(a, b))] < b[Max(Differ(a, b))]
LessOrEqual(a, b) == a = b \/ Less(a, b)

-----------------------------------------------------------------------------
\* Text: the hex digits are themselves, then come a blank, the letter x and all
\* that is none of these.
Blank == Digit
Letter == Digit + 1
Chars == 0..Digit + 2

\* The bytes of a number in memory, the first of word 0 first.
ByteOf(a, i) == (a[i \div WordBytes] \div Byte^(i % WordBytes)) % Byte
Bytes == WIDTH * WordBytes

\* GetHex(): two digits for each byte, the last byte first.
GetHex(a) ==
    [i \in 1..2 * Bytes |->
        LET byte == ByteOf(a, Bytes - 1 - (i - 1) \div 2)
        IN  IF i % 2 = 1 THEN byte \div Digit ELSE byte % Digit]

FromBytes(bytes) ==
    [i \in Words |->
        FoldFunction(LAMBDA x, y : x + y, 0,
                     [j \in 0..WordBytes - 1 |-> bytes[i * WordBytes + j] * Byte^j])]

\* The bytes of a vector, which has to have the size of the number.
FromVector(bytes) ==
    IF Len(bytes) = Bytes THEN FromBytes([i \in 0..Bytes - 1 |-> bytes[i + 1]]) ELSE Zero

\* What SetHex() looks at: after leading blanks and 0x, up to the first other character.
DropBlanks(text) ==
    LET first == Min({i \in DOMAIN text : text[i] # Blank} \cup {Len(text) + 1})
    IN  SubSeq(text, first, Len(text))
DropPrefix(text) ==
    IF Len(text) >= 2 /\ text[1] = 0 /\ text[2] = Letter THEN SubSeq(text, 3, Len(text)) ELSE text
LeadingDigits(text) ==
    LET last == Min({i \in DOMAIN text : text[i] >= Digit} \cup {Len(text) + 1})
    IN  SubSeq(text, 1, last - 1)

\* SetHex(): digits in pairs from the end, a byte for each pair until the number is full.
SetHex(text) ==
    LET digits == Reverse(LeadingDigits(DropPrefix(DropBlanks(text))))
        DigitAt(i) == IF i \in DOMAIN digits THEN digits[i] ELSE 0
    IN  FromBytes([i \in 0..Bytes - 1 |-> DigitAt(2 * i + 1) + Digit * DigitAt(2 * i + 2)])
=============================================================================

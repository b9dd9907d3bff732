------------------------------- MODULE DhtIds -------------------------------
(***************************************************************************)
(* The arithmetic of node ids (dht.cpp): an id is a path from the root of  *)
(* a tree, its bits numbered from the root.  Ids have 160 bits in the      *)
(* program and IdBits here.                                                *)
(***************************************************************************)
EXTENDS Integers, FiniteSetsExt

CONSTANT IdBits

ASSUME IdAssumption == IdBits \in Nat \ {0}

Ids == 0 .. 2^IdBits - 1
Bits == 0 .. IdBits - 1

Bit(id, i) == (id \div 2^(IdBits - 1 - i)) % 2

\* The last 1 bit; -1 in the id of zeroes.
LowBit(id) == Max({-1} \cup {i \in Bits : Bit(id, i) = 1})

\* How many leading bits two ids share.
CommonBits(a, b) == Min({IdBits} \cup {i \in Bits : Bit(a, i) # Bit(b, i)})

\* xorcmp() < 0: where a and b part, a goes the way of ref.
Closer(a, b, ref) == a # b /\ Bit(a, CommonBits(a, b)) = Bit(ref, CommonBits(a, b))

\* The bit at which the bucket from first up to next (-1: the last bucket) is cut.
MiddleBit(first, next) == Max({LowBit(first), IF next = -1 THEN -1 ELSE LowBit(next)}) + 1

\* bucket_middle(): -1 if the bucket cannot be cut.
BucketMiddle(first, next) ==
    LET bit == MiddleBit(first, next)
    IN  IF bit >= IdBits THEN -1 ELSE first + 2^(IdBits - 1 - bit)

\* bucket_random(): the ids it may return.
BucketRandom(first, next) ==
    {id \in Ids : \A i \in Bits : i < MiddleBit(first, next) => Bit(id, i) = Bit(first, i)}

-----------------------------------------------------------------------------
\* References: the XOR of two ids, and the ids from first up to next.
Xor(a, b) == SumSet({2^(IdBits - 1 - i) : i \in {j \in Bits : Bit(a, j) # Bit(b, j)}})

IdRange(first, next) == {id \in Ids : first <= id /\ (next = -1 \/ id < next)}

\* The buckets that cutting can produce: the subtrees, by their depth.
SubtreeEnd(first, depth) ==
    LET next == first + 2^(IdBits - depth) IN IF next = 2^IdBits THEN -1 ELSE next

Subtrees ==
    UNION {{<<first, SubtreeEnd(first, depth)>> :
               first \in {id \in Ids : id % 2^(IdBits - depth) = 0}} : depth \in 0..IdBits}
=============================================================================

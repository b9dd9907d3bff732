-------------------------- MODULE XBridgeDht_proofs ---------------------------
EXTENDS XBridgeDht, Counting, SequenceTheorems

(***************************************************************************)
(* Proofs about a node of the DHT, for ids of any width, peers and keys of *)
(* any number and lists of any size.  First the ids: a bucket is the ids   *)
(* that agree on their first bits, Closer compares by XOR.  Then the       *)
(* storage and its tokens, the list of a search, the tree of buckets with  *)
(* the nodes in it, and the answer to find_node and get_peers.  DhtInv is  *)
(* the inductive invariant the theorems follow from.                       *)
(***************************************************************************)

(***************************************************************************)
(* Ids as paths: the first d bits of an id.                                *)
(***************************************************************************)
LEMMA MaxIs ==
    ASSUME NEW S, IsFiniteSet(S), S # {}, \A x \in S : x \in Int
    PROVE  Max(S) \in S /\ \A y \in S : Max(S) >= y
BY GreatestExists DEF Max

LEMMA MinIs ==
    ASSUME NEW S, IsFiniteSet(S), S # {}, \A x \in S : x \in Int
    PROVE  Min(S) \in S /\ \A y \in S : Min(S) <= y
BY LeastExists DEF Min

\* The first depth bits of an id, as a number.
PathOf(id, depth) == id \div Power(IdBits - depth)

LEMMA IdsAre ==
    /\ IdBits \in Nat /\ IdBits > 0 /\ Ids = 0 .. Power(IdBits) - 1
    /\ \A d \in 0..IdBits : /\ IdBits - d \in Nat /\ Power(IdBits - d) \in Nat
                            /\ Power(IdBits - d) > 0
    /\ \A d \in Bits : /\ IdBits - (d + 1) \in Nat
                       /\ Power(IdBits - d) = 2 * Power(IdBits - (d + 1))
<1>1. IdBits \in Nat /\ IdBits > 0
  BY IdAssumption
<1>2. Ids = 0 .. Power(IdBits) - 1
  BY DEF Ids, Power
<1>3. ASSUME NEW d \in 0..IdBits
      PROVE  /\ IdBits - d \in Nat /\ Power(IdBits - d) \in Nat
             /\ Power(IdBits - d) > 0
  <2>1. IdBits - d \in Nat
    BY <1>1
  <2> QED
    BY <2>1, Powers
<1>4. ASSUME NEW d \in Bits
      PROVE  /\ IdBits - (d + 1) \in Nat
             /\ Power(IdBits - d) = 2 * Power(IdBits - (d + 1))
  <2>1. IdBits - (d + 1) \in Nat /\ (IdBits - (d + 1)) + 1 = IdBits - d
    BY <1>1 DEF Bits
  <2> QED
    BY <2>1, Powers
<1> QED
  BY <1>1, <1>2, <1>3, <1>4

LEMMA PathStep ==
    ASSUME NEW a \in Ids, NEW d \in Bits
    PROVE  /\ PathOf(a, d) \in Nat /\ Bit(a, d) \in {0, 1}
           /\ PathOf(a, d + 1) = 2 * PathOf(a, d) + Bit(a, d)
<1> DEFINE p == Power(IdBits - (d + 1))
<1>1. /\ a \in Nat /\ p \in Nat /\ p > 0 /\ Power(IdBits - d) = 2 * p
  <2>1. IdBits - (d + 1) \in Nat
    BY IdsAre
  <2>2. p \in Nat /\ p > 0
    BY <2>1, Powers
  <2>3. a \in Nat
    BY IdsAre, Powers
  <2> QED
    BY <2>2, <2>3, IdsAre
<1>2. IdBits - (d + 1) = IdBits - 1 - d
  BY IdsAre DEF Bits
<1>3. Bit(a, d) = (a \div p) % 2
  BY <1>2 DEF Bit, Power
<1>4. PathOf(a, d) = a \div (2 * p) /\ PathOf(a, d + 1) = a \div p
  BY <1>1 DEF PathOf
<1> HIDE DEF p
<1>5. a \div p = 2 * (a \div (2 * p)) + ((a \div p) % 2)
  BY <1>1, DivHalf
<1>6. a \div p \in Nat /\ a \div (2 * p) \in Nat
  <2>1. 2 * p \in Nat /\ 2 * p > 0
    BY <1>1
  <2> QED
    BY <1>1, <2>1, DivIs
<1>7. (a \div p) % 2 \in {0, 1}
  BY <1>6
<1> QED
  BY <1>3, <1>4, <1>5, <1>6, <1>7, Zenon

LEMMA PathEnds ==
    ASSUME NEW a \in Ids
    PROVE  PathOf(a, 0) = 0 /\ PathOf(a, IdBits) = a
<1>1. a \in Nat /\ Power(IdBits) \in Nat /\ Power(IdBits) > a /\ Power(0) = 1
  BY IdsAre, Powers
<1>2. a \div Power(IdBits) = 0
  <2>1. a = 0 * Power(IdBits) + a /\ 0 \in Nat /\ Power(IdBits) > 0
    BY <1>1
  <2> QED
    BY <1>1, <2>1, DivUnique
<1>3. a \div 1 = a
  BY <1>1
<1>4. IdBits - 0 = IdBits /\ IdBits - IdBits = 0
  BY IdsAre
<1> QED
  BY <1>1, <1>2, <1>3, <1>4 DEF PathOf

\* Two ids have the same path as far as they have the same bits.
LEMMA PathsAgree ==
    ASSUME NEW a \in Ids, NEW b \in Ids, NEW d \in 0..IdBits
    PROVE  PathOf(a, d) = PathOf(b, d) <=> \A i \in Bits : i < d => Bit(a, i) = Bit(b, i)
<1> DEFINE T == {n \in Nat : n <= IdBits =>
                    (PathOf(a, n) = PathOf(b, n) <=>
                        \A i \in Bits : i < n => Bit(a, i) = Bit(b, i))}
<1>0. IdBits \in Nat /\ Bits \subseteq Nat
  BY IdsAre DEF Bits
<1>1. 0 \in T
  BY <1>0, PathEnds
<1>2. ASSUME NEW n \in Nat, n \in T PROVE n + 1 \in T
  <2>1. SUFFICES ASSUME n + 1 <= IdBits
                 PROVE  PathOf(a, n + 1) = PathOf(b, n + 1) <=>
                           \A i \in Bits : i < n + 1 => Bit(a, i) = Bit(b, i)
    BY <1>2
  <2>2. n \in Bits /\ n <= IdBits
    BY <1>0, <2>1 DEF Bits
  <2>3. PathOf(a, n) = PathOf(b, n) <=> \A i \in Bits : i < n => Bit(a, i) = Bit(b, i)
    BY <1>2, <2>2
  <2>4. /\ PathOf(a, n) \in Nat /\ Bit(a, n) \in {0, 1}
        /\ PathOf(a, n + 1) = 2 * PathOf(a, n) + Bit(a, n)
        /\ PathOf(b, n) \in Nat /\ Bit(b, n) \in {0, 1}
        /\ PathOf(b, n + 1) = 2 * PathOf(b, n) + Bit(b, n)
    BY <2>2, PathStep
  <2>5. PathOf(a, n + 1) = PathOf(b, n + 1) <=>
           PathOf(a, n) = PathOf(b, n) /\ Bit(a, n) = Bit(b, n)
    BY <2>4
  <2>6. (\A i \in Bits : i < n + 1 => Bit(a, i) = Bit(b, i)) <=>
           (\A i \in Bits : i < n => Bit(a, i) = Bit(b, i)) /\ Bit(a, n) = Bit(b, n)
    <3>1. \A i \in Bits : i < n + 1 <=> (i < n \/ i = n)
      BY <1>0
    <3> QED
      BY <2>2, <3>1
  <2> QED
    BY <2>3, <2>5, <2>6
<1>3. Nat \subseteq T
  <2> HIDE DEF T
  <2> QED
    BY <1>1, <1>2, CountUp
<1>4. d \in Nat /\ d <= IdBits
  BY <1>0
<1> QED
  BY <1>3, <1>4

LEMMA CommonIs ==
    ASSUME NEW a \in Ids, NEW b \in Ids
    PROVE  /\ CommonBits(a, b) \in 0..IdBits
           /\ \A i \in Bits : i < CommonBits(a, b) => Bit(a, i) = Bit(b, i)
           /\ CommonBits(a, b) \in Bits =>
                 Bit(a, CommonBits(a, b)) # Bit(b, CommonBits(a, b))
<1> DEFINE S == {IdBits} \cup {i \in Bits : Bit(a, i) # Bit(b, i)}
<1>1. \A x \in S : x \in 0..IdBits
  BY IdsAre DEF Bits
<1>2. IsFiniteSet(S)
  <2> HIDE DEF S
  <2>1. S \in SUBSET (0..IdBits)
    BY <1>1
  <2>2. 0 \in Int /\ IdBits \in Int
    BY IdsAre
  <2>3. IsFiniteSet(0..IdBits)
    BY <2>2, FS_Interval
  <2> QED
    BY <2>1, <2>3, FS_Subset
<1>3. S # {} /\ \A x \in S : x \in Int
  BY <1>1, IdsAre
<1>4. Min(S) \in S /\ \A y \in S : Min(S) <= y
  <2> HIDE DEF S
  <2> QED
    BY <1>2, <1>3, MinIs
<1>5. CommonBits(a, b) = Min(S)
  BY DEF CommonBits
<1> DEFINE m == Min(S)
<1> HIDE DEF m
<1>6. m \in S /\ \A y \in S : m <= y
  BY <1>4 DEF m
<1>7. m \in 0..IdBits
  BY <1>1, <1>6
<1>8. \A i \in Bits : i < m => Bit(a, i) = Bit(b, i)
  BY <1>6, <1>7 DEF Bits
<1>9. m \in Bits => Bit(a, m) # Bit(b, m)
  BY <1>6, IdsAre DEF Bits
<1> QED
  BY <1>5, <1>7, <1>8, <1>9 DEF m

LEMMA CommonPath ==
    ASSUME NEW a \in Ids, NEW b \in Ids
    PROVE  /\ \A d \in 0..IdBits : d <= CommonBits(a, b) <=> PathOf(a, d) = PathOf(b, d)
           /\ CommonBits(a, b) = IdBits <=> a = b
<1> DEFINE c == CommonBits(a, b)
<1>1. /\ c \in 0..IdBits /\ \A i \in Bits : i < c => Bit(a, i) = Bit(b, i)
      /\ c \in Bits => Bit(a, c) # Bit(b, c)
  BY CommonIs
<1> HIDE DEF c
<1>2. ASSUME NEW d \in 0..IdBits PROVE d <= c <=> PathOf(a, d) = PathOf(b, d)
  <2>1. PathOf(a, d) = PathOf(b, d) <=> \A i \in Bits : i < d => Bit(a, i) = Bit(b, i)
    BY PathsAgree
  <2>2. CASE d <= c
    BY <1>1, <2>1, <2>2, IdsAre DEF Bits
  <2>3. CASE d > c
    BY <1>1, <2>1, <2>3, IdsAre DEF Bits
  <2> QED
    BY <1>1, <2>2, <2>3, IdsAre
<1>3. c = IdBits <=> IdBits <= c
  BY <1>1, IdsAre
<1>4. IdBits \in 0..IdBits
  BY IdsAre
<1>5. IdBits <= c <=> a = b
  BY <1>2, <1>4, PathEnds
<1> QED
  BY <1>2, <1>3, <1>5 DEF c

LEMMA DivMonotone ==
    ASSUME NEW a \in Nat, NEW b \in Nat, NEW p \in Nat, p > 0, a <= b
    PROVE  a \div p <= b \div p
<1> DEFINE q == a \div p
           k == b \div p
           r == a % p
           s == b % p
<1>1. /\ q \in Nat /\ k \in Nat /\ r \in Nat /\ s \in Nat /\ r < p /\ s < p
      /\ a = q * p + r /\ b = k * p + s
  BY DivIs
<1> HIDE DEF q, k, r, s
<1>2. CASE q > k
  <2>1. q - k \in Nat /\ q - k >= 1
    BY <1>1, <1>2
  <2>2. (q - k) * p >= p
    BY <2>1, MulStep
  <2>3. (q - k) * p = q * p - k * p
    BY <1>1
  <2> QED
    BY <1>1, <2>2, <2>3
<1> QED
  BY <1>1, <1>2 DEF q, k

\* The smaller of two ids has the 0 where they part.
LEMMA OrderIs ==
    ASSUME NEW a \in Ids, NEW b \in Ids, a # b
    PROVE  /\ CommonBits(a, b) \in Bits
           /\ a < b <=> Bit(a, CommonBits(a, b)) = 0
           /\ Bit(a, CommonBits(a, b)) + Bit(b, CommonBits(a, b)) = 1
<1> DEFINE c == CommonBits(a, b)
<1>1. c \in Bits /\ Bit(a, c) # Bit(b, c) /\ PathOf(a, c) = PathOf(b, c)
  <2>1. c \in 0..IdBits /\ c # IdBits
    BY CommonIs, CommonPath
  <2>2. c \in Bits
    BY <2>1, IdsAre DEF Bits
  <2>3. c <= c
    BY <2>1, IdsAre
  <2> QED
    BY <2>1, <2>2, <2>3, CommonIs, CommonPath
<1> HIDE DEF c
<1>2. /\ PathOf(a, c) \in Nat /\ Bit(a, c) \in {0, 1} /\ Bit(b, c) \in {0, 1}
      /\ PathOf(a, c + 1) = 2 * PathOf(a, c) + Bit(a, c)
      /\ PathOf(b, c + 1) = 2 * PathOf(a, c) + Bit(b, c)
  BY <1>1, PathStep
<1>3. /\ a \in Nat /\ b \in Nat /\ Power(IdBits - (c + 1)) \in Nat
      /\ Power(IdBits - (c + 1)) > 0
  <2>1. Power(IdBits) \in Nat /\ IdBits - (c + 1) \in Nat
    BY <1>1, IdsAre, Powers
  <2>2. Power(IdBits - (c + 1)) \in Nat /\ Power(IdBits - (c + 1)) > 0
    BY <2>1, Powers
  <2> QED
    BY <2>1, <2>2, IdsAre
<1>4. a <= b => PathOf(a, c + 1) <= PathOf(b, c + 1)
  BY <1>3, DivMonotone DEF PathOf
<1>5. b <= a => PathOf(b, c + 1) <= PathOf(a, c + 1)
  BY <1>3, DivMonotone DEF PathOf
<1>6. a < b <=> Bit(a, c) = 0
  BY <1>1, <1>2, <1>3, <1>4, <1>5
<1>7. Bit(a, c) + Bit(b, c) = 1
  BY <1>1, <1>2
<1> QED
  BY <1>1, <1>6, <1>7 DEF c

(***************************************************************************)
(* Buckets.  The ids from first up to next are those that share the first  *)
(* depth bits of first.                                                    *)
(***************************************************************************)
Cell(first, next, depth) ==
    /\ depth \in 0..IdBits
    /\ first \in Ids /\ first % Power(IdBits - depth) = 0
    /\ next = SubtreeEnd(first, depth)

LEMMA SubtreesAre ==
    ASSUME NEW first, NEW next
    PROVE  <<first, next>> \in Subtrees <=> \E d \in 0..IdBits : Cell(first, next, d)
BY DEF Subtrees, Cell, Power

LEMMA EndIs ==
    ASSUME NEW first, NEW depth
    PROVE  SubtreeEnd(first, depth) =
              IF first + Power(IdBits - depth) = Power(IdBits) THEN -1
              ELSE first + Power(IdBits - depth)
BY DEF SubtreeEnd, Power

LEMMA CellIs ==
    ASSUME NEW first, NEW next, NEW d, Cell(first, next, d)
    PROVE  /\ d \in Nat /\ d <= IdBits /\ first \in Nat /\ first \in Ids
           /\ PathOf(first, d) \in Nat /\ PathOf(first, d) < Power(d)
           /\ first = PathOf(first, d) * Power(IdBits - d)
           /\ Power(IdBits) = Power(d) * Power(IdBits - d)
           /\ next = -1 <=> PathOf(first, d) + 1 = Power(d)
           /\ next # -1 => next = first + Power(IdBits - d) /\ next \in Ids
<1>1. d \in Nat /\ IdBits \in Nat /\ d <= IdBits /\ IdBits - d \in Nat
  BY IdsAre DEF Cell
<1>2. first \in Nat /\ first \in Ids /\ first % Power(IdBits - d) = 0 /\ first < Power(IdBits)
  BY IdsAre, Powers, SMTT(60) DEF Cell
<1> DEFINE p == Power(IdBits - d)
           q == PathOf(first, d)
           t == Power(d)
<1>3. p \in Nat /\ p > 0 /\ t \in Nat /\ t > 0
  BY <1>1, Powers
<1>4. Power(IdBits) = t * p
  <2>1. d + (IdBits - d) = IdBits
    BY <1>1
  <2> QED
    BY <1>1, <2>1, PowersAdd
<1>5. q = first \div p /\ first % p = 0
  BY <1>2 DEF PathOf
<1>6. next = IF first + p = Power(IdBits) THEN -1 ELSE first + p
  BY EndIs DEF Cell
<1> HIDE DEF p, q, t
<1>7. q \in Nat /\ first = q * p
  <2>1. first \div p \in Nat /\ first = (first \div p) * p + (first % p)
    BY <1>2, <1>3, DivIs
  <2> QED
    BY <1>2, <1>3, <1>5, <2>1
<1>8. q < t
  <2>1. CASE q >= t
    <3>1. q - t \in Nat
      BY <1>3, <1>7, <2>1
    <3>2. (q - t) * p >= 0 /\ (q - t) * p = q * p - t * p
      BY <1>3, <1>7, <3>1
    <3> QED
      BY <1>2, <1>3, <1>4, <1>7, <3>2
  <2> QED
    BY <1>3, <1>7, <2>1
<1>9. first + p = (q + 1) * p
  BY <1>3, <1>7
<1>10. first + p = t * p <=> q + 1 = t
  <2>1. CASE q + 1 < t
    <3>1. t - (q + 1) \in Nat /\ t - (q + 1) >= 1
      BY <1>3, <1>7, <2>1
    <3>2. (t - (q + 1)) * p >= p /\ (t - (q + 1)) * p = t * p - (q + 1) * p
      BY <1>3, <1>7, <3>1, MulStep
    <3> QED
      BY <1>3, <1>7, <1>9, <2>1, <3>2
  <2>2. CASE q + 1 = t
    BY <1>9, <2>2
  <2> QED
    BY <1>3, <1>7, <1>8, <2>1, <2>2
<1>11. first + p <= Power(IdBits)
  <2>1. t - (q + 1) \in Nat
    BY <1>3, <1>7, <1>8
  <2>2. (t - (q + 1)) * p >= 0 /\ (t - (q + 1)) * p = t * p - (q + 1) * p
    BY <1>3, <1>7, <2>1
  <2> QED
    BY <1>3, <1>4, <1>7, <1>9, <2>2
<1>12. first + p \in Nat /\ Power(IdBits) \in Nat
  BY <1>1, <1>2, <1>3, Powers
<1>13. next = -1 <=> q + 1 = t
  BY <1>4, <1>6, <1>10, <1>12
<1>14. next # -1 => next = first + p /\ next \in Ids
  BY <1>6, <1>11, <1>12, IdsAre
<1> QED
  BY <1>1, <1>2, <1>4, <1>7, <1>8, <1>13, <1>14 DEF p, q, t

LEMMA InCell ==
    ASSUME NEW first, NEW next, NEW d, Cell(first, next, d), NEW id \in Ids
    PROVE  id \in IdRange(first, next) <=> PathOf(id, d) = PathOf(first, d)
<1> DEFINE p == Power(IdBits - d)
           q == PathOf(first, d)
<1>1. /\ d \in Nat /\ d <= IdBits /\ first \in Nat /\ q \in Nat /\ first = q * p
      /\ Power(IdBits) = Power(d) * p /\ (next = -1 <=> q + 1 = Power(d))
      /\ next # -1 => next = first + p /\ next \in Ids
  BY CellIs
<1>2. p \in Nat /\ p > 0 /\ id \in Nat /\ id < Power(IdBits) /\ Power(d) \in Nat
  <2>1. IdBits - d \in Nat /\ IdBits \in Nat
    BY <1>1, IdsAre
  <2>2. p \in Nat /\ p > 0 /\ Power(d) \in Nat /\ Power(IdBits) \in Nat
    BY <1>1, <2>1, Powers
  <2> HIDE DEF p, q
  <2> QED
    BY <2>2, IdsAre
<1>3. PathOf(id, d) = id \div p
  BY DEF PathOf
<1> HIDE DEF p, q
<1>4. id \in IdRange(first, next) <=> first <= id /\ id < first + p
  <2>1. id \in IdRange(first, next) <=> first <= id /\ (next = -1 \/ id < next)
    BY DEF IdRange
  <2>2. next = -1 => first + p = Power(IdBits)
    <3>1. SUFFICES ASSUME next = -1 PROVE first + p = Power(IdBits)
      OBVIOUS
    <3>2. Power(IdBits) = (q + 1) * p
      BY <1>1, <3>1
    <3> QED
      BY <1>1, <1>2, <3>2
  <2>3. next # -1 => next = first + p
    BY <1>1
  <2> QED
    BY <1>2, <2>1, <2>2, <2>3
<1>5. first <= id /\ id < first + p => id \div p = q
  <2>1. SUFFICES ASSUME first <= id, id < first + p PROVE id \div p = q
    OBVIOUS
  <2>2. id - first \in Nat /\ id - first < p /\ id = q * p + (id - first)
    BY <1>1, <1>2, <2>1
  <2> QED
    BY <1>1, <1>2, <2>2, DivUnique
<1>6. id \div p = q => first <= id /\ id < first + p
  <2>1. id % p \in Nat /\ id % p < p /\ id = (id \div p) * p + (id % p)
    BY <1>2, DivIs
  <2> QED
    BY <1>1, <1>2, <2>1
<1> QED
  BY <1>3, <1>4, <1>5, <1>6 DEF q

\* Below its depth, the first id of a bucket has zeroes.
LEMMA CellZeroes ==
    ASSUME NEW first, NEW next, NEW d, Cell(first, next, d), NEW i \in Bits, i >= d
    PROVE  Bit(first, i) = 0
<1> DEFINE q == PathOf(first, d)
           r == Power(i - d)
           p == Power(IdBits - 1 - i)
<1>1. /\ d \in Nat /\ d <= IdBits /\ first \in Nat /\ q \in Nat
      /\ first = q * Power(IdBits - d)
  BY CellIs
<1>2. /\ i - d \in Nat /\ IdBits - 1 - i \in Nat /\ IdBits - d \in Nat
      /\ (i - d) + 1 \in Nat
      /\ IdBits - d = ((i - d) + 1) + (IdBits - 1 - i)
  BY <1>1, IdsAre DEF Bits
<1>3. r \in Nat /\ p \in Nat /\ p > 0 /\ Power((i - d) + 1) = 2 * r
  BY <1>2, Powers
<1>4. Power(IdBits - d) = Power((i - d) + 1) * p
  BY <1>2, PowersAdd
<1>5. Bit(first, i) = (first \div p) % 2
  BY DEF Bit, Power
<1> HIDE DEF p, q, r
<1>6. first = (q * ((2 * r) * p)) /\ first = (2 * (q * r)) * p + 0
  <2>1. first = q * ((2 * r) * p)
    BY <1>1, <1>3, <1>4
  <2>2. q * ((2 * r) * p) = (2 * (q * r)) * p + 0
    BY <1>1, <1>3
  <2> QED
    BY <2>1, <2>2
<1>7. q * r \in Nat
  BY <1>1, <1>3
<1>8. 2 * (q * r) \in Nat /\ 0 < p /\ 0 \in Nat
  BY <1>3, <1>7
<1>9. first \div p = 2 * (q * r)
  BY <1>1, <1>3, <1>6, <1>8, DivUnique
<1> DEFINE k == q * r
<1>10. k \in Nat
  BY <1>7
<1> HIDE DEF k
<1>11. (2 * k) % 2 = 0
  BY <1>10
<1> QED
  BY <1>5, <1>9, <1>11 DEF k

LEMMA LowBitIs ==
    ASSUME NEW id
    PROVE  /\ LowBit(id) \in {-1} \cup Bits
           /\ \A i \in Bits : Bit(id, i) = 1 => i <= LowBit(id)
           /\ LowBit(id) # -1 => Bit(id, LowBit(id)) = 1
<1> DEFINE S == {-1} \cup {i \in Bits : Bit(id, i) = 1}
<1>1. \A x \in S : x \in -1..IdBits
  BY IdsAre DEF Bits
<1>2. S # {} /\ \A x \in S : x \in Int
  BY <1>1, IdsAre
<1>3. IsFiniteSet(S)
  <2> HIDE DEF S
  <2>1. S \in SUBSET (-1..IdBits)
    BY <1>1
  <2>2. -1 \in Int /\ IdBits \in Int
    BY IdsAre
  <2>3. IsFiniteSet(-1..IdBits)
    BY <2>2, FS_Interval
  <2> QED
    BY <2>1, <2>3, FS_Subset
<1>4. Max(S) \in S /\ \A y \in S : Max(S) >= y
  <2> HIDE DEF S
  <2> QED
    BY <1>2, <1>3, MaxIs
<1>5. LowBit(id) = Max(S)
  BY DEF LowBit
<1> DEFINE m == Max(S)
<1> HIDE DEF m
<1>6. m \in S /\ \A y \in S : m >= y
  BY <1>4 DEF m
<1>7. m \in {-1} \cup Bits /\ (m # -1 => Bit(id, m) = 1)
  BY <1>6
<1>8. \A i \in Bits : Bit(id, i) = 1 => i <= m
  BY <1>6, <1>7, IdsAre DEF Bits
<1> QED
  BY <1>5, <1>7, <1>8 DEF m

\* A bucket's range ends where the next one of its depth begins.
LEMMA NextCell ==
    ASSUME NEW first, NEW next, NEW d, Cell(first, next, d), next # -1
    PROVE  /\ Cell(next, SubtreeEnd(next, d), d)
           /\ PathOf(next, d) = PathOf(first, d) + 1
<1> DEFINE p == Power(IdBits - d)
           q == PathOf(first, d)
<1>1. /\ d \in 0..IdBits /\ first \in Nat /\ q \in Nat /\ first = q * p
      /\ next = first + p /\ next \in Ids /\ IdBits - d \in Nat
  BY CellIs, IdsAre DEF Cell
<1>2. p \in Nat /\ p > 0 /\ next \in Nat
  BY <1>1, Powers, IdsAre
<1>3. PathOf(next, d) = next \div p
  BY DEF PathOf
<1> HIDE DEF p, q
<1>4. next = (q + 1) * p + 0 /\ q + 1 \in Nat /\ 0 \in Nat
  BY <1>1, <1>2
<1>5. next \div p = q + 1 /\ next % p = 0
  BY <1>2, <1>4, DivUnique
<1> QED
  BY <1>1, <1>3, <1>5 DEF Cell, p, q

\* The bit at which a bucket is cut is the first one below its depth.
LEMMA MiddleIs ==
    ASSUME NEW first, NEW next, NEW d, Cell(first, next, d)
    PROVE  MiddleBit(first, next) = d
<1> DEFINE q == PathOf(first, d)
           l == LowBit(first)
           n == IF next = -1 THEN -1 ELSE LowBit(next)
<1>1. /\ d \in Nat /\ d <= IdBits /\ first \in Ids /\ q \in Nat /\ q < Power(d)
      /\ next = -1 <=> q + 1 = Power(d)
      /\ next # -1 => next \in Ids
  BY CellIs
<1>2. \A x, i : x \in {-1} \cup Bits /\ i \in Bits => x \in Int /\ i \in Int
  BY IdsAre DEF Bits
<1>3. l \in {-1} \cup Bits /\ l < d
  <2>1. l \in {-1} \cup Bits /\ (l # -1 => Bit(first, l) = 1)
    BY LowBitIs
  <2>2. l \in Bits /\ l >= d => Bit(first, l) = 0
    BY CellZeroes
  <2> HIDE DEF l
  <2> QED
    BY <1>1, <1>2, <2>1, <2>2, IdsAre DEF Bits
<1>4. n \in {-1} \cup Bits /\ n < d
  <2>1. CASE next = -1
    BY <1>1, <2>1
  <2>2. CASE next # -1
    <3>1. LowBit(next) \in {-1} \cup Bits
          /\ (LowBit(next) # -1 => Bit(next, LowBit(next)) = 1)
      BY LowBitIs
    <3>2. LowBit(next) \in Bits /\ LowBit(next) >= d => Bit(next, LowBit(next)) = 0
      BY <2>2, NextCell, CellZeroes
    <3> QED
      BY <1>1, <1>2, <2>2, <3>1, <3>2, IdsAre, SMTT(60) DEF Bits
  <2> QED
    BY <2>1, <2>2
<1>5. d > 0 => l = d - 1 \/ n = d - 1
  <2>1. SUFFICES ASSUME d > 0 PROVE l = d - 1 \/ n = d - 1
    OBVIOUS
  <2>2. d - 1 \in Bits /\ (d - 1) + 1 = d /\ d - 1 \in Nat
    BY <1>1, <2>1, IdsAre DEF Bits
  <2>3. /\ q = 2 * PathOf(first, d - 1) + Bit(first, d - 1)
        /\ PathOf(first, d - 1) \in Nat /\ Bit(first, d - 1) \in {0, 1}
    BY <1>1, <2>2, PathStep
  <2>4. CASE Bit(first, d - 1) = 1
    <3>1. d - 1 <= l
      BY <2>2, <2>4, LowBitIs
    <3> HIDE DEF l, n
    <3> QED
      BY <1>1, <1>2, <1>3, <2>2, <3>1
  <2>5. CASE Bit(first, d - 1) = 0
    <3>1. Power(d) = 2 * Power(d - 1) /\ Power(d - 1) \in Nat
      BY <2>2, Powers
    <3>2. next # -1
      <4> HIDE DEF q
      <4> QED
        BY <1>1, <2>3, <2>5, <3>1
    <3>3. PathOf(next, d) = q + 1
      BY <3>2, NextCell
    <3>4. /\ PathOf(next, d) = 2 * PathOf(next, d - 1) + Bit(next, d - 1)
          /\ PathOf(next, d - 1) \in Nat /\ Bit(next, d - 1) \in {0, 1}
      BY <1>1, <2>2, <3>2, PathStep
    <3>5. Bit(next, d - 1) = 1
      <4> HIDE DEF q
      <4> QED
        BY <1>1, <2>3, <2>5, <3>3, <3>4
    <3>6. d - 1 <= LowBit(next) /\ n = LowBit(next)
      BY <2>2, <3>2, <3>5, LowBitIs
    <3> HIDE DEF l, n
    <3> QED
      BY <1>1, <1>2, <1>4, <2>2, <3>6
  <2> QED
    BY <2>3, <2>4, <2>5
<1>6. MiddleBit(first, next) = Max({l, n}) + 1
  BY DEF MiddleBit
<1>7. Max({l, n}) \in {l, n} /\ Max({l, n}) >= l /\ Max({l, n}) >= n
  <2>1. IsFiniteSet({l, n})
    <3>1. IsFiniteSet({l} \cup {n}) /\ {l} \cup {n} = {l, n}
      BY FS_Singleton, FS_AddElement
    <3> QED
      BY <3>1
  <2>2. \A x \in {l, n} : x \in Int
    BY <1>3, <1>4, <1>2, IdsAre DEF Bits
  <2> HIDE DEF l, n
  <2>3. Max({l, n}) \in {l, n} /\ \A y \in {l, n} : Max({l, n}) >= y
    BY <2>1, <2>2, MaxIs
  <2> QED
    BY <2>3
<1> DEFINE m == Max({l, n})
<1>8. m \in {l, n} /\ m >= l /\ m >= n
  BY <1>7
<1> HIDE DEF l, n, m
<1>9. l \in Int /\ n \in Int /\ l >= -1 /\ n >= -1
  BY <1>3, <1>4, IdsAre DEF Bits
<1>10. m + 1 = d
  BY <1>1, <1>3, <1>4, <1>5, <1>8, <1>9
<1> QED
  BY <1>6, <1>10 DEF m

LEMMA MiddleSplits ==
    ASSUME NEW first, NEW next, NEW d, Cell(first, next, d)
    PROVE  LET m == BucketMiddle(first, next) IN
           /\ d = IdBits => m = -1
           /\ d # IdBits => /\ m # -1 /\ m \in Ids /\ first < m /\ (next # -1 => m < next)
                            /\ d \in Bits /\ Cell(first, m, d + 1) /\ Cell(m, next, d + 1)
<1> DEFINE m == BucketMiddle(first, next)
<1>1. m = IF d >= IdBits THEN -1 ELSE first + Power(IdBits - 1 - d)
  BY MiddleIs DEF BucketMiddle, Power
<1>2. /\ d \in Nat /\ d <= IdBits /\ first \in Nat /\ first \in Ids
      /\ PathOf(first, d) \in Nat /\ PathOf(first, d) < Power(d)
      /\ first = PathOf(first, d) * Power(IdBits - d)
      /\ Power(IdBits) = Power(d) * Power(IdBits - d)
      /\ next = -1 <=> PathOf(first, d) + 1 = Power(d)
      /\ next # -1 => next = first + Power(IdBits - d) /\ next \in Ids
  BY CellIs
<1> HIDE DEF m
<1>3. d = IdBits => m = -1
  BY <1>1, <1>2, IdsAre
<1>4. CASE d # IdBits
  <2> DEFINE p == Power(IdBits - (d + 1))
             q == PathOf(first, d)
             t == Power(d)
  <2>1. d \in Bits /\ d + 1 \in 0..IdBits /\ IdBits - 1 - d = IdBits - (d + 1)
    BY <1>2, <1>4, IdsAre DEF Bits
  <2>2. /\ p \in Nat /\ p > 0 /\ t \in Nat /\ q \in Nat /\ Power(IdBits - d) = 2 * p
        /\ Power(IdBits) \in Nat
    BY <1>2, <2>1, IdsAre, Powers
  <2>3. m = first + p
    BY <1>1, <1>2, <1>4, <2>1, IdsAre
  <2>4. /\ first = q * (2 * p) /\ q < t /\ Power(IdBits) = t * (2 * p)
        /\ next = -1 <=> q + 1 = t
        /\ next # -1 => next = first + 2 * p /\ next \in Ids
    BY <1>2, <2>2
  <2> HIDE DEF p, q, t
  <2>5. first + 2 * p <= Power(IdBits)
    <3>1. t - (q + 1) \in Nat
      BY <2>2, <2>4
    <3>2. (t - (q + 1)) * (2 * p) >= 0
      BY <2>2, <3>1
    <3>3. (t - (q + 1)) * (2 * p) = t * (2 * p) - q * (2 * p) - 2 * p
      BY <2>2
    <3> QED
      BY <2>2, <2>4, <3>2, <3>3
  <2>6. next = -1 => first + 2 * p = Power(IdBits)
    <3>1. SUFFICES ASSUME next = -1 PROVE first + 2 * p = Power(IdBits)
      OBVIOUS
    <3>2. Power(IdBits) = (q + 1) * (2 * p)
      BY <2>4, <3>1
    <3>3. (q + 1) * (2 * p) = q * (2 * p) + 2 * p
      BY <2>2
    <3> QED
      BY <2>2, <2>4, <3>2, <3>3
  <2>7. next # -1 => first + 2 * p # Power(IdBits)
    BY <1>2, <2>2, <2>4, IdsAre
  <2>8. m \in Ids /\ m # -1 /\ first < m /\ (next # -1 => m < next)
    BY <1>2, <2>2, <2>3, <2>4, <2>5, IdsAre, SMTT(60)
  <2>9. first % p = 0 /\ m % p = 0
    <3>1. first = (2 * q) * p + 0 /\ m = (2 * q + 1) * p + 0
      BY <1>2, <2>2, <2>3, <2>4
    <3>2. 2 * q \in Nat /\ 2 * q + 1 \in Nat /\ 0 \in Nat /\ m \in Nat
      BY <1>2, <2>2, <2>3
    <3> QED
      BY <1>2, <2>2, <3>1, <3>2, DivUnique
  <2>10. SubtreeEnd(first, d + 1) = m
    <3>1. SubtreeEnd(first, d + 1) =
             IF first + p = Power(IdBits) THEN -1 ELSE first + p
      BY EndIs DEF p
    <3> QED
      BY <1>2, <2>2, <2>3, <2>5, <3>1
  <2>11. SubtreeEnd(m, d + 1) = next
    <3>1. SubtreeEnd(m, d + 1) = IF m + p = Power(IdBits) THEN -1 ELSE m + p
      BY EndIs DEF p
    <3>2. m + p = first + 2 * p
      BY <1>2, <2>2, <2>3
    <3> QED
      BY <2>4, <2>6, <2>7, <3>1, <3>2
  <2>12. Cell(first, m, d + 1) /\ Cell(m, next, d + 1)
    BY <1>2, <2>1, <2>8, <2>9, <2>10, <2>11 DEF Cell, p
  <2> QED
    BY <1>4, <2>1, <2>8, <2>12 DEF m
<1> QED
  BY <1>3, <1>4 DEF m

LEMMA RandomIs ==
    ASSUME NEW first, NEW next, NEW d, Cell(first, next, d)
    PROVE  BucketRandom(first, next) = IdRange(first, next)
<1>1. d \in 0..IdBits /\ first \in Ids
  BY DEF Cell
<1>2. ASSUME NEW id \in Ids
      PROVE  id \in BucketRandom(first, next) <=> id \in IdRange(first, next)
  <2>1. id \in IdRange(first, next) <=> PathOf(id, d) = PathOf(first, d)
    BY InCell
  <2>2. PathOf(id, d) = PathOf(first, d) <=>
           \A i \in Bits : i < d => Bit(id, i) = Bit(first, i)
    BY <1>1, PathsAgree
  <2>3. MiddleBit(first, next) = d
    BY MiddleIs
  <2>4. id \in BucketRandom(first, next) <=> \A i \in Bits : i < d => Bit(id, i) = Bit(first, i)
    BY <2>3, Zenon DEF BucketRandom
  <2> QED
    BY <2>1, <2>2, <2>4
<1>3. BucketRandom(first, next) \subseteq Ids /\ IdRange(first, next) \subseteq Ids
  BY DEF BucketRandom, IdRange
<1> QED
  BY <1>2, <1>3

\* For ids of any width: bucket_random() returns the ids of its bucket, and
\* bucket_middle() cuts a bucket into two of the next depth unless it is one id.
THEOREM BucketArithmetic ==
    \A s \in Subtrees :
        LET m == BucketMiddle(s[1], s[2]) IN
        /\ BucketRandom(s[1], s[2]) = IdRange(s[1], s[2])
        /\ IF m = -1 THEN IdRange(s[1], s[2]) = {s[1]}
           ELSE <<s[1], m>> \in Subtrees /\ <<m, s[2]>> \in Subtrees
<1> SUFFICES ASSUME NEW s \in Subtrees
             PROVE  LET m == BucketMiddle(s[1], s[2]) IN
                    /\ BucketRandom(s[1], s[2]) = IdRange(s[1], s[2])
                    /\ IF m = -1 THEN IdRange(s[1], s[2]) = {s[1]}
                       ELSE <<s[1], m>> \in Subtrees /\ <<m, s[2]>> \in Subtrees
  OBVIOUS
<1> DEFINE m == BucketMiddle(s[1], s[2])
<1>1. s = <<s[1], s[2]>>
  BY DEF Subtrees
<1>2. PICK d \in 0..IdBits : Cell(s[1], s[2], d)
  BY <1>1, SubtreesAre
<1>3. BucketRandom(s[1], s[2]) = IdRange(s[1], s[2])
  BY <1>2, RandomIs
<1>4. /\ d = IdBits => m = -1
      /\ d # IdBits => /\ m # -1 /\ d \in Bits
                       /\ Cell(s[1], m, d + 1) /\ Cell(m, s[2], d + 1)
  BY <1>2, MiddleSplits
<1>5. CASE d = IdBits
  <2>1. s[1] \in Ids
    BY <1>2 DEF Cell
  <2>2. \A id \in Ids : id \in IdRange(s[1], s[2]) <=> id = s[1]
    BY <1>2, <1>5, <2>1, InCell, PathEnds
  <2>3. IdRange(s[1], s[2]) = {s[1]}
    BY <2>1, <2>2 DEF IdRange
  <2> QED
    BY <1>3, <1>4, <1>5, <2>3
<1>6. CASE d # IdBits
  <2>1. d + 1 \in 0..IdBits
    BY <1>4, <1>6, IdsAre DEF Bits
  <2>2. <<s[1], m>> \in Subtrees /\ <<m, s[2]>> \in Subtrees
    BY <1>4, <1>6, <2>1, SubtreesAre
  <2> QED
    BY <1>3, <1>4, <1>6, <2>2
<1> QED
  BY <1>5, <1>6

(***************************************************************************)
(* What a node stores for others.  A token that is accepted no more is     *)
(* old: one made with the secret before has seen the rotation, and the     *)
(* next rotation is due only RotationTime later.                           *)
(***************************************************************************)
TokenInv ==
    /\ tokens \in [Askers -> Token] /\ rotated \in 0..RotationTime
    /\ \A a \in Askers :
          /\ tokens[a].secret = 1 => tokens[a].age >= rotated
          /\ tokens[a].secret = 2 => tokens[a].age = RotationTime

StorageStep ==
    \/ UNCHANGED storageVars
    \/ \E a \in Askers : GiveToken(a)
    \/ \E h \in Hashes, a \in Askers, owner \in Askers : Announce(h, a, owner)
    \/ RotateSecrets \/ ExpireStorage \/ Tick
    \/ \E h \in Hashes, a \in Askers : AnnouncementAges(h, a)

LEMMA StorageSteps ==
    ASSUME [Next]_vars
    PROVE  StorageStep
<1>1. CASE UNCHANGED vars
  BY <1>1 DEF vars, StorageStep, storageVars
<1>2. CASE Message
  BY <1>2 DEF Message, Request, GetPeers, AnnouncePeer, Pong, NodesFound, PeersFound,
              BrokenReply, StorageStep
<1>3. CASE Step
  BY <1>3 DEF Step, StorageStep
<1>4. CASE TableJob \/ StartSearch \/ SearchJob \/ SearchAges \/ RequestTimesOut
  BY <1>4 DEF TableJob, StartSearch, SearchJob, SearchAges, RequestTimesOut, StorageStep
<1>5. CASE StorageJob
  BY <1>5 DEF StorageJob, StorageStep
<1> QED
  BY <1>1, <1>2, <1>3, <1>4, <1>5 DEF Next

LEMMA TokenInvInit ==
    ASSUME StorageInit
    PROVE  TokenInv
BY DEF StorageInit, TokenInv, NoToken, Token, RotationTime

LEMMA TokenInvStep ==
    ASSUME TokenInv, StorageStep
    PROVE  TokenInv'
<1>0. tokens \in [Askers -> Token] /\ \A a \in Askers : tokens[a] \in Token
  BY DEF TokenInv
<1>1. CASE UNCHANGED <<tokens, rotated>>
  BY <1>1 DEF TokenInv
<1>2. ASSUME NEW a \in Askers, GiveToken(a) PROVE TokenInv'
  <2>1. [secret |-> 0, age |-> 0] \in Token
    BY DEF Token, RotationTime
  <2> QED
    BY <1>0, <1>2, <2>1 DEF TokenInv, GiveToken
<1>3. CASE RotateSecrets
  <2>1. /\ rotated = 3 /\ rotated' = 0
        /\ tokens' = [a \in Askers |-> [tokens[a] EXCEPT !.secret = Older(tokens[a].secret)]]
    BY <1>3 DEF RotateSecrets, RotationTime
  <2>2. ASSUME NEW a \in Askers
        PROVE  /\ tokens'[a] \in Token
               /\ tokens'[a].secret = 1 => tokens'[a].age >= 0
               /\ tokens'[a].secret = 2 => tokens'[a].age = RotationTime
    <3>1. /\ tokens'[a].secret = Older(tokens[a].secret) /\ tokens'[a].age = tokens[a].age
          /\ tokens'[a] = [secret |-> Older(tokens[a].secret), age |-> tokens[a].age]
      BY <1>0, <2>1 DEF Token
    <3>2. tokens[a].secret \in 0..2 /\ tokens[a].age \in 0..3
      BY <1>0 DEF Token, RotationTime
    <3>3. /\ tokens[a].secret = 1 => tokens[a].age >= 3
          /\ tokens[a].secret = 2 => tokens[a].age = 3
      BY <2>1 DEF TokenInv, RotationTime
    <3> QED
      BY <3>1, <3>2, <3>3 DEF Token, Older, RotationTime
  <2>3. tokens' \in [Askers -> Token]
    BY <2>1, <2>2
  <2>4. rotated' = 0 /\ rotated' \in 0..RotationTime
    BY <2>1 DEF RotationTime
  <2>5. \A a \in Askers :
           /\ tokens'[a].secret = 1 => tokens'[a].age >= rotated'
           /\ tokens'[a].secret = 2 => tokens'[a].age = RotationTime
    BY <2>2, <2>4
  <2> QED
    BY <2>3, <2>4, <2>5 DEF TokenInv
<1>4. CASE Tick
  <2> DEFINE Later(t) == IF t = 3 THEN t ELSE t + 1
  <2>1. /\ rotated' = Later(rotated)
        /\ tokens' = [a \in Askers |-> [tokens[a] EXCEPT !.age = Later(tokens[a].age)]]
    BY <1>4 DEF Tick, RotationTime
  <2>2. rotated \in 0..3 /\ rotated' \in 0..3
    BY <2>1 DEF TokenInv, RotationTime
  <2>3. ASSUME NEW a \in Askers
        PROVE  /\ tokens'[a] \in Token
               /\ tokens'[a].secret = 1 => tokens'[a].age >= rotated'
               /\ tokens'[a].secret = 2 => tokens'[a].age = RotationTime
    <3>1. /\ tokens'[a].secret = tokens[a].secret /\ tokens'[a].age = Later(tokens[a].age)
          /\ tokens'[a] = [secret |-> tokens[a].secret, age |-> Later(tokens[a].age)]
      BY <1>0, <2>1 DEF Token
    <3>2. tokens[a].secret \in 0..2 /\ tokens[a].age \in 0..3
      BY <1>0 DEF Token, RotationTime
    <3>3. /\ tokens[a].secret = 1 => tokens[a].age >= rotated
          /\ tokens[a].secret = 2 => tokens[a].age = 3
      BY DEF TokenInv, RotationTime
    <3> QED
      BY <2>1, <2>2, <3>1, <3>2, <3>3 DEF Token, RotationTime
  <2>4. tokens' \in [Askers -> Token]
    BY <2>1, <2>3
  <2>5. rotated' \in 0..RotationTime
    BY <2>2 DEF RotationTime
  <2> QED
    BY <2>3, <2>4, <2>5 DEF TokenInv
<1> QED
  BY <1>1, <1>2, <1>3, <1>4
     DEF StorageStep, storageVars, Announce, ExpireStorage, AnnouncementAges

\* A token is accepted for RotationTime after it was given, whenever the secret is
\* changed: token_match() knows the secret before the last rotation too.
THEOREM TokensAreAccepted == Spec => []TokensLast
<1>1. Init => TokenInv
  BY TokenInvInit DEF Init
<1>2. TokenInv /\ [Next]_vars => TokenInv'
  BY StorageSteps, TokenInvStep
<1>3. TokenInv => TokensLast
  <2> SUFFICES ASSUME TokenInv, NEW a \in Askers, tokens[a].age < RotationTime
               PROVE  TokenMatch(a, a)
    BY DEF TokensLast
  <2>1. tokens[a].secret \in 0..2 /\ tokens[a].secret # 2 /\ RotationTime = 3
    BY DEF TokenInv, Token, RotationTime
  <2> QED
    BY <2>1 DEF TokenMatch
<1> QED
  BY <1>1, <1>2, <1>3, PTL DEF Spec

\* However often is announced, no more hashes and addresses are kept than there is
\* room for.
StorageInv ==
    /\ DOMAIN storage \subseteq Hashes
    /\ IsFiniteSet(DOMAIN storage) /\ Cardinality(DOMAIN storage) <= MaxHashes
    /\ \A h \in DOMAIN storage :
          /\ DOMAIN storage[h] \subseteq Askers /\ DOMAIN storage[h] # {}
          /\ IsFiniteSet(DOMAIN storage[h]) /\ Cardinality(DOMAIN storage[h]) <= MaxPeers
          /\ \A a \in DOMAIN storage[h] : storage[h][a] \in BOOLEAN

LEMMA StorageInvInit ==
    ASSUME StorageInit
    PROVE  StorageInv
<1>1. DOMAIN storage = {}
  BY DEF StorageInit
<1> QED
  BY <1>1, FS_EmptySet, StorageAssumption DEF StorageInv

LEMMA OneMoreFits ==
    ASSUME NEW S, IsFiniteSet(S), NEW n \in Nat \ {0}, Cardinality(S) <= n, NEW x,
           x \in S \/ ~(Cardinality(S) >= n)
    PROVE  IsFiniteSet(S \cup {x}) /\ Cardinality(S \cup {x}) <= n
<1>1. IsFiniteSet(S \cup {x}) /\ Cardinality(S) \in Nat
  BY FS_AddElement, FS_CardinalityType
<1>2. CASE x \in S
  BY <1>1, <1>2, FS_AddElement
<1>3. CASE x \notin S
  <2>1. Cardinality(S \cup {x}) = Cardinality(S) + 1
    BY <1>3, FS_AddElement
  <2> QED
    BY <1>1, <1>3, <2>1
<1> QED
  BY <1>2, <1>3

LEMMA StoredFits ==
    ASSUME StorageInv, NEW h \in Hashes, NEW a \in Askers, ~NoRoom(h, a), storage' = Stored(h, a)
    PROVE  StorageInv'
<1> DEFINE P == DOMAIN PeersOf(h)
<1>1. /\ P = IF h \in DOMAIN storage THEN DOMAIN storage[h] ELSE {}
      /\ IsFiniteSet(P) /\ P \subseteq Askers /\ Cardinality(P) <= MaxPeers
      /\ \A b \in P : storage[h][b] \in BOOLEAN
  <2>1. CASE h \in DOMAIN storage
    BY <2>1 DEF StorageInv, PeersOf
  <2>2. CASE h \notin DOMAIN storage
    <3>1. P = {}
      BY <2>2 DEF PeersOf
    <3> QED
      BY <2>2, <3>1, FS_EmptySet, StorageAssumption
  <2> QED
    BY <2>1, <2>2
<1>2. IsFiniteSet(P \cup {a}) /\ Cardinality(P \cup {a}) <= MaxPeers
  <2>1. a \in P \/ ~(Cardinality(P) >= MaxPeers)
    BY DEF NoRoom
  <2> HIDE DEF P
  <2> QED
    BY <1>1, <2>1, OneMoreFits, StorageAssumption
<1>3. /\ IsFiniteSet(DOMAIN storage \cup {h})
      /\ Cardinality(DOMAIN storage \cup {h}) <= MaxHashes
  <2>1. h \in DOMAIN storage \/ ~(Cardinality(DOMAIN storage) >= MaxHashes)
    BY DEF NoRoom
  <2> QED
    BY <2>1, OneMoreFits, StorageAssumption DEF StorageInv
<1> DEFINE peers == [b \in P \cup {a} |-> IF b = a THEN TRUE ELSE storage[h][b]]
<1>4. storage' = [g \in DOMAIN storage \cup {h} |-> IF g = h THEN peers ELSE storage[g]]
  BY DEF Stored
<1>5. DOMAIN storage' = DOMAIN storage \cup {h}
  BY <1>4
<1>6. /\ DOMAIN storage'[h] = P \cup {a}
      /\ \A b \in P \cup {a} : storage'[h][b] \in BOOLEAN
  <2>1. storage'[h] = peers
    BY <1>4
  <2>2. DOMAIN peers = P \cup {a} /\ \A b \in P \cup {a} : peers[b] = TRUE \/ (peers[b] = storage[h][b] /\ b \in P)
    OBVIOUS
  <2> HIDE DEF peers, P
  <2> QED
    BY <1>1, <2>1, <2>2
<1>7. \A g \in DOMAIN storage' : g # h => g \in DOMAIN storage /\ storage'[g] = storage[g]
  BY <1>4, <1>5
<1> HIDE DEF P
<1>8. ASSUME NEW g \in DOMAIN storage'
      PROVE  /\ DOMAIN storage'[g] \subseteq Askers /\ DOMAIN storage'[g] # {}
             /\ IsFiniteSet(DOMAIN storage'[g]) /\ Cardinality(DOMAIN storage'[g]) <= MaxPeers
             /\ \A b \in DOMAIN storage'[g] : storage'[g][b] \in BOOLEAN
  <2>1. CASE g = h
    BY <1>1, <1>2, <1>6, <2>1
  <2>2. CASE g # h
    BY <1>7, <2>2 DEF StorageInv
  <2> QED
    BY <2>1, <2>2
<1> QED
  BY <1>3, <1>5, <1>8 DEF StorageInv

LEMMA StorageInvStep ==
    ASSUME StorageInv, StorageStep
    PROVE  StorageInv'
<1>1. CASE UNCHANGED storage
  BY <1>1 DEF StorageInv
<1>2. ASSUME NEW h \in Hashes, NEW a \in Askers, storage' = Stored(h, a) PROVE StorageInv'
  <2>1. CASE NoRoom(h, a)
    BY <1>1, <1>2, <2>1 DEF Stored
  <2>2. CASE ~NoRoom(h, a)
    BY <1>2, <2>2, StoredFits
  <2> QED
    BY <2>1, <2>2
<1>3. CASE ExpireStorage
  <2> DEFINE fresh(h) == {a \in DOMAIN storage[h] : storage[h][a]}
             kept == {h \in DOMAIN storage : fresh(h) # {}}
  <2>1. storage' = [h \in kept |-> [a \in fresh(h) |-> storage[h][a]]]
    BY <1>3 DEF ExpireStorage, Restrict
  <2>2. DOMAIN storage' = kept /\ kept \in SUBSET DOMAIN storage
    BY <2>1
  <2>3. ASSUME NEW h \in DOMAIN storage'
        PROVE  /\ DOMAIN storage'[h] \subseteq Askers /\ DOMAIN storage'[h] # {}
               /\ IsFiniteSet(DOMAIN storage'[h]) /\ Cardinality(DOMAIN storage'[h]) <= MaxPeers
               /\ \A a \in DOMAIN storage'[h] : storage'[h][a] \in BOOLEAN
    <3>1. /\ DOMAIN storage'[h] = fresh(h) /\ fresh(h) # {} /\ h \in DOMAIN storage
          /\ \A a \in fresh(h) : storage'[h][a] = storage[h][a]
      BY <2>1, <2>2
    <3>2. /\ DOMAIN storage[h] \subseteq Askers /\ IsFiniteSet(DOMAIN storage[h])
          /\ Cardinality(DOMAIN storage[h]) <= MaxPeers
          /\ \A a \in DOMAIN storage[h] : storage[h][a] \in BOOLEAN
      BY <3>1 DEF StorageInv
    <3>3. fresh(h) \in SUBSET DOMAIN storage[h]
      OBVIOUS
    <3>4. \A a \in fresh(h) : a \in DOMAIN storage[h]
      OBVIOUS
    <3> HIDE DEF fresh, kept
    <3>5. /\ IsFiniteSet(fresh(h)) /\ Cardinality(fresh(h)) <= Cardinality(DOMAIN storage[h])
      BY <3>2, <3>3, FS_Subset
    <3>6. Cardinality(fresh(h)) \in Nat /\ Cardinality(DOMAIN storage[h]) \in Nat /\ MaxPeers \in Nat
      BY <3>2, <3>5, FS_CardinalityType, StorageAssumption
    <3> QED
      BY <3>1, <3>2, <3>3, <3>4, <3>5, <3>6
  <2> HIDE DEF kept
  <2>4. IsFiniteSet(kept) /\ Cardinality(kept) <= MaxHashes
    <3>1. IsFiniteSet(DOMAIN storage) /\ Cardinality(DOMAIN storage) <= MaxHashes
      BY DEF StorageInv
    <3>2. IsFiniteSet(kept) /\ Cardinality(kept) <= Cardinality(DOMAIN storage)
      BY <2>2, <3>1, FS_Subset
    <3>3. Cardinality(kept) \in Nat /\ Cardinality(DOMAIN storage) \in Nat /\ MaxHashes \in Nat
      BY <3>1, <3>2, FS_CardinalityType, StorageAssumption
    <3> QED
      BY <3>1, <3>2, <3>3
  <2> QED
    BY <2>2, <2>3, <2>4 DEF StorageInv
<1>4. ASSUME NEW h \in Hashes, NEW a \in Askers, AnnouncementAges(h, a) PROVE StorageInv'
  <2>1. h \in DOMAIN storage /\ a \in DOMAIN storage[h] /\ storage' = [storage EXCEPT ![h][a] = FALSE]
    BY <1>4 DEF AnnouncementAges
  <2>2. DOMAIN storage' = DOMAIN storage
    BY <2>1
  <2>3. ASSUME NEW g \in DOMAIN storage
        PROVE  /\ DOMAIN storage'[g] = DOMAIN storage[g]
               /\ \A b \in DOMAIN storage[g] : storage'[g][b] = FALSE \/ storage'[g][b] = storage[g][b]
    BY <2>1
  <2> QED
    BY <2>2, <2>3 DEF StorageInv
<1> QED
  BY <1>1, <1>2, <1>3, <1>4
     DEF StorageStep, storageVars, GiveToken, Announce, RotateSecrets, Tick

LEMMA StorageTypes == TokenInv /\ StorageInv => StorageTypeOK
<1> SUFFICES ASSUME TokenInv, StorageInv PROVE StorageTypeOK
  OBVIOUS
<1>1. ASSUME NEW h \in DOMAIN storage PROVE DOMAIN storage[h] \in (SUBSET Askers) \ {{}}
  <2>1. DOMAIN storage[h] \subseteq Askers /\ DOMAIN storage[h] # {}
    BY DEF StorageInv
  <2> QED
    BY <2>1
<1>2. /\ DOMAIN storage \subseteq Hashes /\ Cardinality(DOMAIN storage) <= MaxHashes
      /\ \A h \in DOMAIN storage :
            /\ Cardinality(DOMAIN storage[h]) <= MaxPeers
            /\ \A a \in DOMAIN storage[h] : storage[h][a] \in BOOLEAN
  BY DEF StorageInv
<1>3. tokens \in [Askers -> Token] /\ rotated \in 0..RotationTime
  BY DEF TokenInv
<1> QED
  BY <1>1, <1>2, <1>3 DEF StorageTypeOK

(***************************************************************************)
(* The calls of a handler.                                                 *)
(***************************************************************************)
IsFlat(g, seqs, n) == g = [i \in 1..n |-> IF i = 1 THEN seqs[i] ELSE g[i - 1] \o seqs[i]]

LEMMA FlatExists ==
    ASSUME NEW seqs, NEW n \in Nat
    PROVE  \E g : IsFlat(g, seqs, n)
<1> DEFINE T == {k \in Nat : \E g : IsFlat(g, seqs, k)}
<1>1. 0 \in T
  <2>1. IsFlat([i \in 1..0 |-> i], seqs, 0)
    BY DEF IsFlat
  <2> QED
    BY <2>1
<1>2. ASSUME NEW k \in Nat, k \in T PROVE k + 1 \in T
  <2>1. PICK g : IsFlat(g, seqs, k)
    BY <1>2
  <2> DEFINE h == [i \in 1..k + 1 |-> IF i = 1 THEN seqs[i] ELSE g[i - 1] \o seqs[i]]
  <2>2. ASSUME NEW i \in 1..k PROVE h[i] = g[i]
    <3>1. i \in 1..k + 1
      OBVIOUS
    <3>2. h[i] = IF i = 1 THEN seqs[i] ELSE g[i - 1] \o seqs[i]
      BY <3>1
    <3>3. g[i] = IF i = 1 THEN seqs[i] ELSE g[i - 1] \o seqs[i]
      BY <2>1 DEF IsFlat
    <3> QED
      BY <3>2, <3>3
  <2>3. ASSUME NEW i \in 1..k + 1
        PROVE  (IF i = 1 THEN seqs[i] ELSE g[i - 1] \o seqs[i]) =
               (IF i = 1 THEN seqs[i] ELSE h[i - 1] \o seqs[i])
    <3>1. CASE i = 1
      BY <3>1
    <3>2. CASE i # 1
      <4>1. i - 1 \in 1..k
        BY <3>2
      <4> QED
        BY <2>2, <3>2, <4>1
    <3> QED
      BY <3>1, <3>2
  <2>4. h = [i \in 1..k + 1 |-> IF i = 1 THEN seqs[i] ELSE h[i - 1] \o seqs[i]]
    BY <2>3, Zenon
  <2>5. IsFlat(h, seqs, k + 1)
    BY <2>4, Zenon DEF IsFlat
  <2>6. k + 1 \in Nat
    OBVIOUS
  <2> QED
    BY <2>5, <2>6, Zenon
<1> HIDE DEF T
<1>3. Nat \subseteq T
  BY <1>1, <1>2, CountUp
<1> QED
  BY <1>3 DEF T

LEMMA FlattenType ==
    ASSUME NEW S, NEW seqs \in Seq(Seq(S))
    PROVE  FlattenSeq(seqs) \in Seq(S)
<1> DEFINE n == Len(seqs)
           g == CHOOSE g : IsFlat(g, seqs, n)
<1>0. n \in Nat /\ \A i \in 1..n : seqs[i] \in Seq(S)
  OBVIOUS
<1>1. FlattenSeq(seqs) = IF n = 0 THEN seqs ELSE g[n]
  BY DEF FlattenSeq, IsFlat
<1>2. IsFlat(g, seqs, n)
  BY <1>0, FlatExists
<1> HIDE DEF g
<1> DEFINE T == {k \in Nat : k + 1 <= n => g[k + 1] \in Seq(S)}
<1>3. 0 \in T
  BY <1>0, <1>2 DEF IsFlat
<1>4. ASSUME NEW k \in Nat, k \in T PROVE k + 1 \in T
  <2>1. SUFFICES ASSUME (k + 1) + 1 <= n PROVE g[(k + 1) + 1] \in Seq(S)
    OBVIOUS
  <2>2. g[k + 1] \in Seq(S)
    BY <1>0, <1>4, <2>1
  <2>3. (k + 1) + 1 \in 1..n /\ (k + 1) + 1 # 1 /\ ((k + 1) + 1) - 1 = k + 1
    BY <1>0, <2>1
  <2> DEFINE j == (k + 1) + 1
  <2>4. g[j] = g[k + 1] \o seqs[j]
    <3>1. g[j] = IF j = 1 THEN seqs[j] ELSE g[j - 1] \o seqs[j]
      BY <1>2, <2>3 DEF IsFlat
    <3> QED
      BY <2>3, <3>1
  <2>5. seqs[j] \in Seq(S)
    BY <1>0, <2>3
  <2> HIDE DEF j
  <2> QED
    BY <2>2, <2>4, <2>5 DEF j
<1>5. Nat \subseteq T
  <2> HIDE DEF T
  <2> QED
    BY <1>3, <1>4, CountUp
<1>6. CASE n = 0
  BY <1>1, <1>6
<1>7. CASE n # 0
  <2>1. n - 1 \in Nat /\ (n - 1) + 1 = n
    BY <1>0, <1>7
  <2> HIDE DEF n
  <2>2. n - 1 \in T
    BY <1>5, <2>1
  <2>3. (n - 1) + 1 <= n => g[(n - 1) + 1] \in Seq(S)
    BY <2>2
  <2>4. g[n] \in Seq(S)
    BY <1>0, <2>1, <2>3
  <2> QED
    BY <1>1, <1>7, <2>4
<1> QED
  BY <1>6, <1>7

ControlInv ==
    /\ scenario \in Scenarios /\ searches \in 0..scenario.searches
    /\ todo \in Seq(Call)

LEMMA CallsAre ==
    /\ \A id \in Peers, confirm \in 0..2 : NodeCall(id, confirm) \in Call
    /\ \A id \in Peers : SearchCall(id, TRUE) \in Call /\ SearchCall(id, FALSE) \in Call
    /\ AskCall \in Call
BY DEF NodeCall, SearchCall, AskCall, Call

LEMMA CallIs ==
    ASSUME NEW c \in Call
    PROVE  /\ c.call = "new_node" => c.id \in Peers /\ c.confirm \in 0..2
           /\ c.call = "insert_search_node" => c.id \in Peers /\ c.replied \in BOOLEAN
<1>1. CASE c \in [call : {"new_node"}, id : Peers, confirm : 0..2]
  BY <1>1
<1>2. CASE c \in [call : {"insert_search_node"}, id : Peers, replied : BOOLEAN]
  BY <1>2
<1>3. CASE c = AskCall
  BY <1>3 DEF AskCall
<1> QED
  BY <1>1, <1>2, <1>3 DEF Call

LEMMA ListIs ==
    ASSUME NEW S, NEW n \in Nat, NEW f \in [1..n -> S]
    PROVE  f \in Seq(S) /\ Len(f) = n /\ DOMAIN f = 1..n
OBVIOUS

LEMMA ShortLists ==
    /\ <<>> \in Seq(Call)
    /\ \A c \in Call : <<c>> \in Seq(Call)
    /\ \A c, d \in Call : <<c, d>> \in Seq(Call)
<1>1. \A S : \A c, d \in S : <<c, d>> \in Seq(S)
  OBVIOUS
<1>2. \A S : \A c \in S : <<c>> \in Seq(S)
  OBVIOUS
<1> QED
  BY <1>1, <1>2

LEMMA ScenarioIs ==
    ASSUME scenario \in Scenarios
    PROVE  scenario.peers \subseteq Peers /\ scenario.searches \in Nat
BY DhtAssumption

LEMMA MentionsAre ==
    ASSUME scenario \in Scenarios, NEW m \in Mentions
    PROVE  m \in Seq(Peers)
<1>1. PICK k \in 0..MentionedNodes : m \in [1..k -> scenario.peers]
  BY DEF Mentions
<1>2. k \in Nat
  BY DhtAssumption
<1>3. m \in [1..k -> Peers]
  BY <1>1, ScenarioIs
<1> QED
  BY <1>2, <1>3, SeqDef

LEMMA ControlInvInit ==
    ASSUME Init
    PROVE  ControlInv
<1>1. scenario \in Scenarios /\ searches = 0 /\ todo = <<>>
  BY DEF Init, TableInit
<1> QED
  BY <1>1, ScenarioIs DEF ControlInv

LEMMA MessageCalls ==
    ASSUME ControlInv, Message
    PROVE  todo' \in Seq(Call)
<1>1. scenario.peers \subseteq Peers
  BY ScenarioIs DEF ControlInv
<1>2. PICK from \in scenario.peers :
        \/ Request(from) \/ Pong(from) \/ BrokenReply(from)
        \/ \E m \in Mentions : NodesFound(from, m) \/ PeersFound(from, m)
        \/ from \in Askers /\ GetPeers(from)
        \/ \E owner \in Askers, h \in Hashes : from \in Askers /\ AnnouncePeer(from, owner, h)
  BY DEF Message
<1>3. /\ \A confirm \in 0..2 : NodeCall(from, confirm) \in Call
      /\ SearchCall(from, TRUE) \in Call /\ AskCall \in Call
  BY <1>1, CallsAre
<1>4. \A confirm \in 0..2 : <<NodeCall(from, confirm)>> \in Seq(Call)
  <2> QED
    BY <1>3, ShortLists
<1>5. CASE Request(from) \/ GetPeers(from) \/ \E o \in Askers, h \in Hashes : AnnouncePeer(from, o, h)
  <2>1. todo' = <<NodeCall(from, 1)>> /\ 1 \in 0..2
    BY <1>5 DEF Request, GetPeers, AnnouncePeer, Calls
  <2> QED
    BY <1>4, <2>1
<1>6. CASE Pong(from)
  <2>1. PICK confirm \in {1, 2} : todo' = <<NodeCall(from, confirm)>>
    BY <1>6 DEF Pong, Calls
  <2> QED
    BY <1>4, <2>1
<1>7. CASE BrokenReply(from)
  <2>1. todo' = <<>> \/ todo' = <<SearchCall(from, TRUE)>>
    BY <1>7 DEF BrokenReply
  <2> QED
    BY <1>3, <2>1, ShortLists
<1>8. ASSUME NEW m \in Mentions, NodesFound(from, m) PROVE todo' \in Seq(Call)
  <2> DEFINE rest == [i \in DOMAIN m |-> NodeCall(m[i], 0)]
  <2>1. todo' = <<NodeCall(from, 2)>> \o rest
    BY <1>8 DEF NodesFound, Calls
  <2>2. m \in Seq(Peers)
    BY MentionsAre DEF ControlInv
  <2>3. rest \in Seq(Call)
    <3>1. Len(m) \in Nat /\ DOMAIN m = 1..Len(m) /\ \A i \in 1..Len(m) : m[i] \in Peers
      BY <2>2
    <3>2. \A i \in 1..Len(m) : NodeCall(m[i], 0) \in Call
      BY <3>1, CallsAre
    <3>3. rest \in [1..Len(m) -> Call]
      BY <3>1, <3>2
    <3> QED
      BY <3>1, <3>3, SeqDef
  <2>4. <<NodeCall(from, 2)>> \in Seq(Call)
    BY <1>4
  <2> HIDE DEF rest
  <2> QED
    BY <2>1, <2>3, <2>4, ConcatProperties
<1>9. ASSUME NEW m \in Mentions, PeersFound(from, m) PROVE todo' \in Seq(Call)
  <2> DEFINE pair(i) == <<NodeCall(m[i], 0), SearchCall(m[i], FALSE)>>
             pairs == [i \in DOMAIN m |-> pair(i)]
  <2>1. todo' = <<NodeCall(from, 2)>> \o FlattenSeq(pairs)
                \o <<AskCall, SearchCall(from, TRUE)>>
    BY <1>9 DEF PeersFound, Calls
  <2>2. m \in Seq(Peers)
    BY MentionsAre DEF ControlInv
  <2>3. pairs \in Seq(Seq(Call))
    <3>1. Len(m) \in Nat /\ DOMAIN m = 1..Len(m) /\ \A i \in 1..Len(m) : m[i] \in Peers
      BY <2>2
    <3>2. ASSUME NEW i \in 1..Len(m) PROVE pair(i) \in Seq(Call)
      <4>1. m[i] \in Peers /\ 0 \in 0..2
        BY <3>1
      <4>2. NodeCall(m[i], 0) \in Call /\ SearchCall(m[i], FALSE) \in Call
        BY <4>1, CallsAre, Zenon
      <4> QED
        BY <4>2, ShortLists, Zenon
    <3>3. pairs \in [1..Len(m) -> Seq(Call)]
      <4> HIDE DEF pair
      <4> QED
        BY <3>1, <3>2
    <3> HIDE DEF pairs
    <3> QED
      BY <3>1, <3>3, ListIs
  <2>4. <<NodeCall(from, 2)>> \in Seq(Call) /\ <<AskCall, SearchCall(from, TRUE)>> \in Seq(Call)
    <3>1. 2 \in 0..2
      OBVIOUS
    <3> QED
      BY <1>3, <1>4, <3>1, ShortLists, Zenon
  <2>5. FlattenSeq(pairs) \in Seq(Call)
    BY <2>3, FlattenType
  <2> HIDE DEF pairs
  <2>6. <<NodeCall(from, 2)>> \o FlattenSeq(pairs) \in Seq(Call)
    BY <2>4, <2>5, ConcatProperties
  <2> QED
    BY <2>1, <2>4, <2>6, ConcatProperties
<1> QED
  BY <1>2, <1>5, <1>6, <1>7, <1>8, <1>9

LEMMA ControlInvStep ==
    ASSUME ControlInv, [Next]_vars
    PROVE  ControlInv'
<1>0. scenario \in Scenarios /\ searches \in 0..scenario.searches /\ todo \in Seq(Call)
  BY DEF ControlInv
<1>1. scenario' = scenario
  BY DEF Next, vars
<1>2. searches' \in 0..scenario.searches
  <2>1. scenario.searches \in Nat
    BY <1>0, ScenarioIs
  <2>2. CASE StartSearch
    BY <1>0, <2>1, <2>2 DEF StartSearch
  <2>3. CASE searches' = searches
    BY <1>0, <2>3
  <2> QED
    BY <2>2, <2>3 DEF Next, vars, Message, Request, Pong, BrokenReply, NodesFound, PeersFound,
         GetPeers, AnnouncePeer, Step, TableJob, SearchJob, SearchAges, RequestTimesOut,
         StorageJob
<1>3. todo' \in Seq(Call)
  <2>1. CASE Message
    BY <2>1, MessageCalls
  <2>2. CASE Step
    <3>1. todo # <<>> /\ (todo' = todo \/ todo' = Tail(todo))
      <4>1. todo # <<>>
        BY <2>2 DEF Step
      <4>2. \A id, c : NewNode(id, c) => todo' = todo \/ todo' = Tail(todo)
        BY DEF NewNode, IgnoreNode, KnownNode, ReplaceBadNode, AddNode, SplitBucket,
               CacheNode, Returns
      <4>3. \A id, r : InsertCall(id, r) => todo' = Tail(todo)
        BY DEF InsertCall, Returns
      <4>4. SearchSendGetPeers => todo' = Tail(todo)
        BY DEF SearchSendGetPeers, Returns
      <4>5. Head(todo) \in Call
        BY <1>0, <4>1, HeadTailProperties
      <4>6. Head(todo).call \in {"new_node", "insert_search_node", "search_send_get_peers"}
        BY <4>5 DEF Call, AskCall
      <4> QED
        BY <2>2, <4>1, <4>2, <4>3, <4>4, <4>6 DEF Step
    <3> QED
      BY <1>0, <3>1, HeadTailProperties
  <2>3. CASE todo' = todo
    BY <1>0, <2>3
  <2>4. CASE TableJob \/ StartSearch \/ SearchJob \/ SearchAges \/ RequestTimesOut \/ StorageJob
    <3>1. todo' = todo
      BY <2>4 DEF TableJob, ExpireBuckets, Maintenance, NodeAges, StartSearch, DhtSearch,
           SearchJob, PeriodicSearch, ExpireSearch, SearchAges, StepAges, ReplyAges,
           RequestTimesOut, RequestAges, StorageJob
    <3> QED
      BY <1>0, <3>1
  <2> QED
    BY <2>1, <2>2, <2>3, <2>4 DEF Next, vars
<1> QED
  BY <1>0, <1>1, <1>2, <1>3 DEF ControlInv

(***************************************************************************)
(* The distance of two ids.                                                *)
(***************************************************************************)
LEMMA SumSetIs ==
    ASSUME NEW S, IsFiniteSet(S)
    PROVE  SumSet(S) = SumOver([x \in S |-> x], S)
<1> DEFINE v == [x \in S |-> x]
           Adds(g) == g = [s \in SUBSET S |->
                             IF s = {} THEN 0
                             ELSE Picked(s) + g[s \ {Picked(s)}]]
           g == CHOOSE g : Adds(g)
<1>1. SumSet(S) = g[S]
  BY DEF SumSet, FoldSet, MapThenFoldSet, Picked
<1>2. ASSUME NEW h PROVE Adds(h) <=> IsSum(h, v, SUBSET S)
  <2>1. ASSUME NEW s \in SUBSET S
        PROVE  (IF s = {} THEN 0 ELSE Picked(s) + h[s \ {Picked(s)}]) =
               (IF s = {} THEN 0 ELSE v[Picked(s)] + h[s \ {Picked(s)}])
    <3>1. CASE s = {}
      BY <3>1
    <3>2. CASE s # {}
      <4>1. Picked(s) \in S
        BY <3>2, PickedIs
      <4> QED
        BY <3>2, <4>1
    <3> QED
      BY <3>1, <3>2
  <2>2. [s \in SUBSET S |-> IF s = {} THEN 0 ELSE Picked(s) + h[s \ {Picked(s)}]] =
        [s \in SUBSET S |-> IF s = {} THEN 0 ELSE v[Picked(s)] + h[s \ {Picked(s)}]]
    BY <2>1, Zenon
  <2> QED
    BY <2>2, Zenon DEF IsSum
<1> HIDE DEF v, Adds
<1>3. Adds(g)
  BY <1>2, SumExists
<1>4. IsSum(g, v, SUBSET S)
  BY <1>2, <1>3
<1> HIDE DEF g
<1>5. g[S] = SumOver(v, S)
  BY <1>4, SumIs
<1> QED
  BY <1>1, <1>5 DEF v

\* What the bit i of an id is worth, and the bits in which two ids differ.
Worth == [i \in Bits |-> Power(IdBits - 1 - i)]
Differ(a, b) == {i \in Bits : Bit(a, i) # Bit(b, i)}

LEMMA WorthIs ==
    /\ IsFiniteSet(Bits) /\ \A i \in Bits : i \in Nat /\ i < IdBits
    /\ \A i \in Bits : /\ Worth[i] \in Nat /\ Worth[i] > 0 /\ IdBits - 1 - i \in Nat
                       /\ Worth[i] = Power(IdBits - 1 - i)
    /\ \A T \in SUBSET Bits : /\ IsFiniteSet(T) /\ SumOver(Worth, T) \in Nat
                              /\ \A i \in T : SumOver(Worth, T) =
                                                 Worth[i] + SumOver(Worth, T \ {i})
<1>1. IsFiniteSet(Bits) /\ \A i \in Bits : i \in Nat /\ i < IdBits
  <2>1. IdBits - 1 \in Int
    BY IdsAre
  <2> QED
    BY <2>1, IdsAre, FS_Interval DEF Bits
<1>2. ASSUME NEW i \in Bits
      PROVE  /\ Worth[i] \in Nat /\ Worth[i] > 0 /\ IdBits - 1 - i \in Nat
             /\ Worth[i] = Power(IdBits - 1 - i)
  <2>1. IdBits - 1 - i \in Nat
    BY IdsAre DEF Bits
  <2>2. Worth[i] = Power(IdBits - 1 - i)
    BY DEF Worth
  <2> QED
    BY <2>1, <2>2, Powers
<1>3. ASSUME NEW T \in SUBSET Bits
      PROVE  /\ IsFiniteSet(T) /\ SumOver(Worth, T) \in Nat
             /\ \A i \in T : SumOver(Worth, T) = Worth[i] + SumOver(Worth, T \ {i})
  <2>1. IsFiniteSet(T) /\ \A i \in T : Worth[i] \in Nat /\ Worth[i] \in Int
    BY <1>1, <1>2, FS_Subset
  <2> QED
    BY <2>1, SumNat, SumRemove
<1> QED
  BY <1>1, <1>2, <1>3

\* The bits behind the first d are worth less than the last of these.
LEMMA WorthBelow ==
    ASSUME NEW d \in 0..IdBits, NEW T \in SUBSET Bits, \A i \in T : i >= d
    PROVE  SumOver(Worth, T) < Power(IdBits - d)
<1> DEFINE Q == {m \in Nat : \A t \in SUBSET Bits :
                    (m <= IdBits /\ \A i \in t : i >= IdBits - m) => SumOver(Worth, t) < Power(m)}
<1>0. IdBits \in Nat
  BY IdsAre
<1>1. 0 \in Q
  <2>1. ASSUME NEW t \in SUBSET Bits, \A i \in t : i >= IdBits - 0 PROVE SumOver(Worth, t) < Power(0)
    <3>1. t = {}
      BY <1>0, <2>1, WorthIs
    <3> QED
      BY <3>1, SumEmpty, Powers
  <2> QED
    BY <2>1
<1>2. ASSUME NEW m \in Nat, m \in Q PROVE m + 1 \in Q
  <2>1. SUFFICES ASSUME NEW t \in SUBSET Bits, m + 1 <= IdBits, \A i \in t : i >= IdBits - (m + 1)
                 PROVE  SumOver(Worth, t) < Power(m + 1)
    <3>1. m + 1 \in Nat
      OBVIOUS
    <3> QED
      BY <3>1, Zenon
  <2> DEFINE k == IdBits - (m + 1)
             r == t \ {k}
  <2>2. k \in Bits /\ Worth[k] = Power(m) /\ IdBits - 1 - k = m
    <3>1. k \in Bits /\ IdBits - 1 - k = m
      BY <1>0, <2>1 DEF Bits
    <3> HIDE DEF k
    <3> QED
      BY <3>1, WorthIs
  <2>3. r \in SUBSET Bits /\ m <= IdBits /\ \A i \in r : i >= IdBits - m
    BY <1>0, <2>1, WorthIs
  <2>4. SumOver(Worth, r) < Power(m) /\ SumOver(Worth, r) \in Nat
    <3> HIDE DEF r
    <3> QED
      BY <1>2, <2>3, WorthIs
  <2>5. Power(m) \in Nat /\ Power(m + 1) = 2 * Power(m)
    BY Powers
  <2>6. CASE k \in t
    <3>1. SumOver(Worth, t) = Worth[k] + SumOver(Worth, r)
      BY <2>6, WorthIs
    <3> HIDE DEF r, k
    <3> QED
      BY <2>2, <2>4, <2>5, <3>1
  <2>7. CASE k \notin t
    <3>1. r = t
      BY <2>7
    <3> HIDE DEF r, k
    <3> QED
      BY <2>4, <2>5, <3>1
  <2> QED
    BY <2>6, <2>7
<1> HIDE DEF Q
<1>3. Nat \subseteq Q
  BY <1>1, <1>2, CountUp
<1>4. IdBits - d \in Nat /\ IdBits - d <= IdBits /\ IdBits - (IdBits - d) = d
  BY <1>0
<1>5. IdBits - d \in Q
  BY <1>3, <1>4
<1> QED
  BY <1>4, <1>5 DEF Q

LEMMA XorIs ==
    ASSUME NEW a, NEW b
    PROVE  Xor(a, b) = SumOver(Worth, Differ(a, b))
<1> DEFINE D == Differ(a, b)
           R == {Worth[i] : i \in D}
           id == [x \in R |-> x]
<1>1. D \in SUBSET Bits /\ IsFiniteSet(D)
  BY WorthIs DEF Differ
<1>2. R = {2^(IdBits - 1 - i) : i \in {j \in Bits : Bit(a, j) # Bit(b, j)}}
  BY DEF Worth, Differ, Power
<1>3. Xor(a, b) = SumSet(R)
  BY <1>2 DEF Xor
<1>4. ASSUME NEW i \in D, NEW j \in D, Worth[i] = Worth[j] PROVE i = j
  <2>1. /\ i \in Bits /\ j \in Bits /\ i \in Nat /\ j \in Nat
    BY <1>1, WorthIs
  <2>2. ASSUME NEW k \in Bits, NEW l \in Bits, k < l PROVE Worth[l] < Worth[k]
    <3>1. IdBits - 1 - k \in Nat /\ k + 1 \in 0..IdBits /\ IdBits - (k + 1) = IdBits - 1 - k
      BY <2>2, WorthIs, IdsAre, SMTT(60)
    <3>2. {l} \in SUBSET Bits /\ \A m \in {l} : m >= k + 1
      BY <2>2, WorthIs
    <3>3. SumOver(Worth, {l}) < Power(IdBits - 1 - k)
      BY <3>1, <3>2, WorthBelow
    <3>4. SumOver(Worth, {l}) = Worth[l] + SumOver(Worth, {l} \ {l})
      BY <3>2, WorthIs
    <3>5. SumOver(Worth, {l} \ {l}) = 0
      BY SumEmpty
    <3> QED
      BY <3>3, <3>4, <3>5, WorthIs
  <2>3. CASE i < j
    BY <1>4, <2>1, <2>2, <2>3, WorthIs
  <2>4. CASE j < i
    BY <1>4, <2>1, <2>2, <2>4, WorthIs
  <2> QED
    BY <2>1, <2>3, <2>4
<1>5. IsFiniteSet(R)
  <2>1. [i \in D |-> Worth[i]] \in Surjection(D, R)
    BY DEF Surjection
  <2> QED
    BY <1>1, <2>1, FS_Surjection
<1>6. SumSet(R) = SumOver(id, R)
  BY <1>5, SumSetIs
<1>7. \A i \in D : Worth[i] \in Int /\ id[Worth[i]] = Worth[i]
  BY <1>1, WorthIs
<1> HIDE DEF D, id
<1>8. SumOver(id, R) = SumOver(Worth, D)
  BY <1>1, <1>4, <1>7, SumMoved
<1> QED
  BY <1>3, <1>6, <1>8 DEF D

\* xorcmp() compares by XOR, for ids of any width.
LEMMA CloserIs ==
    ASSUME NEW a \in Ids, NEW b \in Ids, NEW ref \in Ids
    PROVE  /\ Closer(a, b, ref) <=> Xor(a, ref) < Xor(b, ref)
           /\ Xor(a, ref) \in Nat
           /\ a # b => Xor(a, ref) # Xor(b, ref)
<1> DEFINE A == Differ(a, ref)
           B == Differ(b, ref)
<1>1. /\ A \in SUBSET Bits /\ B \in SUBSET Bits
      /\ Xor(a, ref) = SumOver(Worth, A) /\ Xor(b, ref) = SumOver(Worth, B)
  BY XorIs DEF Differ
<1>2. SumOver(Worth, A) \in Nat /\ SumOver(Worth, B) \in Nat
  BY <1>1, WorthIs
<1>3. CASE a = b
  BY <1>1, <1>2, <1>3 DEF Closer
<1>4. CASE a # b
  <2> DEFINE c == CommonBits(a, b)
  <2>1. c \in Bits /\ Bit(a, c) # Bit(b, c) /\ \A i \in Bits : i < c => Bit(a, i) = Bit(b, i)
    BY <1>4, OrderIs, CommonIs
  <2>2. Bit(a, c) \in {0, 1} /\ Bit(b, c) \in {0, 1} /\ Bit(ref, c) \in {0, 1}
    BY <2>1, PathStep
  <2>3. Closer(a, b, ref) <=> Bit(a, c) = Bit(ref, c)
    BY <1>4 DEF Closer
  <2> HIDE DEF c
  <2>4. \A i \in Bits : i < c => (i \in A <=> i \in B)
    BY <2>1 DEF Differ
  <2>5. c \in A <=> ~(c \in B)
    BY <2>1, <2>2 DEF Differ
  <2>6. Closer(a, b, ref) <=> c \notin A
    BY <2>1, <2>3 DEF Differ
  <2> HIDE DEF A, B
  <2>7. ASSUME NEW X \in SUBSET Bits, NEW Y \in SUBSET Bits, c \notin X, c \in Y,
               \A i \in Bits : i < c => (i \in X <=> i \in Y)
        PROVE  SumOver(Worth, X) < SumOver(Worth, Y)
    <3> DEFINE U == {i \in X : i < c}
               V == {i \in X : i > c}
               W == {i \in Y : i > c}
    <3>1. X = U \cup V /\ Y = (U \cup W) \cup {c}
      BY <2>1, <2>7, WorthIs
    <3>2. /\ U \cap V = {} /\ U \cap W = {} /\ c \notin U \cup W
          /\ U \in SUBSET Bits /\ V \in SUBSET Bits /\ W \in SUBSET Bits
          /\ \A i \in V : i >= c + 1
      BY <2>1, WorthIs
    <3> HIDE DEF U, V, W
    <3>3. /\ IsFiniteSet(U) /\ IsFiniteSet(V) /\ IsFiniteSet(W)
          /\ SumOver(Worth, U) \in Nat /\ SumOver(Worth, V) \in Nat /\ SumOver(Worth, W) \in Nat
      BY <3>2, WorthIs
    <3>4. \A i \in Bits : Worth[i] \in Int
      BY WorthIs
    <3>5. SumOver(Worth, X) = SumOver(Worth, U) + SumOver(Worth, V)
      BY <3>1, <3>2, <3>3, <3>4, SumUnion
    <3>6. SumOver(Worth, U \cup W) = SumOver(Worth, U) + SumOver(Worth, W)
      BY <3>2, <3>3, <3>4, SumUnion
    <3>7. SumOver(Worth, Y) = Worth[c] + SumOver(Worth, U \cup W)
      <4>1. Y \ {c} = U \cup W
        BY <3>1, <3>2
      <4> QED
        BY <2>7, <4>1, WorthIs
    <3>8. SumOver(Worth, V) < Worth[c]
      <4>1. c + 1 \in 0..IdBits /\ IdBits - (c + 1) = IdBits - 1 - c
        BY <2>1, IdsAre, WorthIs, SMTT(60)
      <4> QED
        BY <2>1, <3>2, <4>1, WorthBelow, WorthIs
    <3>9. Worth[c] \in Nat
      BY <2>1, WorthIs
    <3> QED
      BY <3>3, <3>5, <3>6, <3>7, <3>8, <3>9
  <2>8. CASE c \in A
    <3>1. SumOver(Worth, B) < SumOver(Worth, A)
      BY <1>1, <2>4, <2>5, <2>7, <2>8
    <3> QED
      BY <1>1, <1>2, <2>6, <2>8, <3>1
  <2>9. CASE c \notin A
    <3>1. SumOver(Worth, A) < SumOver(Worth, B)
      BY <1>1, <2>4, <2>5, <2>7, <2>9
    <3> QED
      BY <1>1, <1>2, <2>6, <2>9, <3>1
  <2> QED
    BY <2>8, <2>9
<1> QED
  BY <1>3, <1>4

\* For ids of any width: xorcmp(), which finds the first bit two ids differ in and
\* looks which of them has it as the reference does, says what comparing their
\* distances, as numbers, says; so "nearest" has one meaning for searches and answers.
THEOREM CloserComparesByXor ==
    \A a, b, ref \in Ids : Closer(a, b, ref) <=> Xor(a, ref) < Xor(b, ref)
BY CloserIs

(***************************************************************************)
(* Lists sorted by a value, here the distance to the target: what is       *)
(* inserted goes behind the smaller ones, and the list is cut to n.        *)
(***************************************************************************)
LEMMA PrefixIs ==
    ASSUME NEW n \in Nat, NEW P \in SUBSET (1..n),
           \A j \in P : \A k \in 1..n : k < j => k \in P
    PROVE  Cardinality(P) \in 0..n /\ P = 1..Cardinality(P)
<1>0. \A x \in P : x \in 1..n /\ x \in Int
  OBVIOUS
<1>1. IsFiniteSet(P)
  <2>1. IsFiniteSet(1..n)
    BY FS_Interval
  <2> QED
    BY <2>1, FS_Subset
<1>2. CASE P = {}
  BY <1>2, FS_EmptySet
<1>3. CASE P # {}
  <2>1. PICK m \in P : \A k \in P : m >= k
    BY <1>0, <1>1, <1>3, GreatestExists
  <2>2. P = 1..m
    <3>1. \A x \in P : x \in 1..m
      BY <1>0, <2>1
    <3>2. \A x \in 1..m : x \in P
      BY <1>0, <2>1
    <3> QED
      BY <3>1, <3>2
  <2>3. Cardinality(P) = m
    BY <2>1, <2>2, FS_Interval
  <2> QED
    BY <2>1, <2>2, <2>3
<1> QED
  BY <1>2, <1>3

Insert(list, i, e, n) == SubSeq(SubSeq(list, 1, i) \o <<e>> \o SubSeq(list, i + 1, Len(list)), 1, n)

LEMMA InsertIs ==
    ASSUME NEW S, NEW list \in Seq(S), NEW e \in S, NEW i \in 0..Len(list),
           NEW n \in 0..Len(list) + 1
    PROVE  /\ Insert(list, i, e, n) \in Seq(S)
           /\ Len(Insert(list, i, e, n)) = n /\ DOMAIN Insert(list, i, e, n) = 1..n
           /\ \A k \in 1..n : Insert(list, i, e, n)[k] =
                 IF k <= i THEN list[k] ELSE IF k = i + 1 THEN e ELSE list[k - 1]
<1> DEFINE l == Len(list)
           front == SubSeq(list, 1, i)
           back == SubSeq(list, i + 1, l)
           long == front \o <<e>> \o back
<1>1. l \in Nat /\ i \in 0..l /\ n \in 0..l + 1 /\ \A k \in 1..l : list[k] \in S
  OBVIOUS
<1>2. front \in Seq(S) /\ Len(front) = i /\ \A k \in 1..i : front[k] = list[k]
  <2>1. \A k \in 1..i : list[k] \in S
    BY <1>1
  <2> HIDE DEF l
  <2> QED
    BY <1>1, <2>1, SubSeqProperties
<1>3. back \in Seq(S) /\ Len(back) = l - i /\ \A k \in 1..l - i : back[k] = list[k + i]
  <2>1. \A k \in i + 1..l : list[k] \in S
    BY <1>1
  <2>2. back \in Seq(S) /\ Len(back) = (IF i + 1 <= l THEN l - (i + 1) + 1 ELSE 0)
        /\ \A k \in 1..l - (i + 1) + 1 : back[k] = list[(i + 1) + k - 1]
    <3> HIDE DEF l
    <3>1. i + 1 \in Int /\ l \in Int
      BY <1>1
    <3> QED
      BY <2>1, <3>1, SubSeqProperties
  <2> HIDE DEF l, back
  <2> QED
    BY <1>1, <2>2
<1> HIDE DEF l, front, back
<1>4. <<e>> \in Seq(S) /\ Len(<<e>>) = 1 /\ <<e>>[1] = e
  OBVIOUS
<1>5. /\ front \o <<e>> \in Seq(S) /\ Len(front \o <<e>>) = i + 1
      /\ \A k \in 1..i + 1 : (front \o <<e>>)[k] = IF k <= i THEN list[k] ELSE e
  BY <1>1, <1>2, <1>4, ConcatProperties
<1>6. /\ long \in Seq(S) /\ Len(long) = l + 1
      /\ \A k \in 1..l + 1 : long[k] =
            IF k <= i THEN list[k] ELSE IF k = i + 1 THEN e ELSE list[k - 1]
  <2> DEFINE fe == front \o <<e>>
  <2>1. /\ fe \o back \in Seq(S) /\ Len(fe \o back) = (i + 1) + (l - i)
        /\ \A k \in 1..(i + 1) + (l - i) :
              (fe \o back)[k] = IF k <= i + 1 THEN fe[k] ELSE back[k - (i + 1)]
    <3>1. fe \in Seq(S) /\ Len(fe) = i + 1
      BY <1>5
    <3> HIDE DEF fe
    <3>2. fe \o back \in Seq(S) /\ Len(fe \o back) = Len(fe) + Len(back)
      BY <1>3, <3>1, ConcatProperties
    <3>3. \A k \in 1..Len(fe) + Len(back) :
             (fe \o back)[k] = IF k <= Len(fe) THEN fe[k] ELSE back[k - Len(fe)]
      BY <1>3, <3>1, ConcatProperties
    <3> QED
      BY <1>3, <3>1, <3>2, <3>3
  <2>2. \A k \in 1..i + 1 : fe[k] = IF k <= i THEN list[k] ELSE e
    BY <1>5
  <2>3. long = fe \o back
    OBVIOUS
  <2> HIDE DEF fe, long
  <2>4. (i + 1) + (l - i) = l + 1
    BY <1>1
  <2>5. \A k \in 1..l + 1 : k > i + 1 => back[k - (i + 1)] = list[k - 1]
    <3>1. \A k \in 1..l + 1 : k > i + 1 => k - (i + 1) \in 1..l - i /\ (k - (i + 1)) + i = k - 1
      BY <1>1
    <3> QED
      BY <1>3, <3>1
  <2>6. ASSUME NEW k \in 1..l + 1
        PROVE  long[k] = IF k <= i THEN list[k] ELSE IF k = i + 1 THEN e ELSE list[k - 1]
    <3>1. long[k] = IF k <= i + 1 THEN fe[k] ELSE back[k - (i + 1)]
      BY <2>1, <2>3, <2>4
    <3>2. CASE k <= i + 1
      <4>1. k \in 1..i + 1
        BY <1>1, <3>2
      <4>2. fe[k] = IF k <= i THEN list[k] ELSE e
        BY <2>2, <4>1
      <4> QED
        BY <1>1, <3>1, <3>2, <4>1, <4>2
    <3>3. CASE k > i + 1
      BY <1>1, <2>5, <3>1, <3>3
    <3> QED
      BY <1>1, <3>2, <3>3
  <2>7. long \in Seq(S) /\ Len(long) = l + 1
    BY <2>1, <2>3, <2>4
  <2> QED
    BY <2>6, <2>7
<1>7. Insert(list, i, e, n) = SubSeq(long, 1, n)
  BY DEF Insert, l, front, back
<1> HIDE DEF long
<1>8. /\ SubSeq(long, 1, n) \in Seq(S) /\ Len(SubSeq(long, 1, n)) = n
      /\ \A k \in 1..n : SubSeq(long, 1, n)[k] = long[k]
  <2>1. long \in Seq(S) /\ Len(long) = l + 1
    BY <1>6
  <2>2. 1 \in 1..Len(long) + 1 /\ n \in 1 - 1..Len(long) /\ n - 1 + 1 = n
    BY <1>1, <2>1
  <2>3. /\ SubSeq(long, 1, n) \in Seq(S)
        /\ Len(SubSeq(long, 1, n)) = n - 1 + 1
        /\ \A k \in 1..n - 1 + 1 : SubSeq(long, 1, n)[k] = long[1 + k - 1]
    BY <2>1, <2>2, SubSeqProperties
  <2>4. \A k \in 1..n : 1 + k - 1 = k
    BY <1>1
  <2> QED
    BY <2>2, <2>3, <2>4
<1>9. DOMAIN SubSeq(long, 1, n) = 1..n
  BY <1>8, LenProperties
<1> QED
  BY <1>1, <1>6, <1>7, <1>8, <1>9

Ascending(list, v) == \A i, j \in DOMAIN list : i < j => v[list[i]] < v[list[j]]

\* How many of the list go before e.
PlaceOf(list, e, v) == Cardinality({j \in DOMAIN list : v[list[j]] <= v[e]})

\* new is a sorted list with e put behind its first i and what n has no room for left out.
Placed(new, list, i, e, n, v) ==
    /\ i \in 0..Len(list)
    /\ Ascending(new, v)
    /\ ToSet(new) \subseteq ToSet(list) \cup {e}
    /\ n = Len(list) + 1 => ToSet(new) = ToSet(list) \cup {e}
    /\ \A x \in (ToSet(list) \cup {e}) \ ToSet(new) : \A k \in 1..n : v[new[k]] < v[x]
    /\ n = Len(list) /\ e \in ToSet(new) => \E j \in DOMAIN list : v[e] < v[list[j]]

LEMMA SortedInsert ==
    ASSUME NEW S, NEW v, \A x \in S : v[x] \in Nat,
           NEW list \in Seq(S), Ascending(list, v),
           NEW e \in S, \A j \in DOMAIN list : v[list[j]] # v[e],
           NEW i, i = PlaceOf(list, e, v),
           NEW n \in 0..Len(list) + 1
    PROVE  Placed(Insert(list, i, e, n), list, i, e, n, v)
<1> DEFINE l == Len(list)
           P == {j \in DOMAIN list : v[list[j]] <= v[e]}
           new == Insert(list, i, e, n)
<1>1. /\ l \in Nat /\ n \in 0..l + 1 /\ DOMAIN list = 1..l /\ v[e] \in Nat
      /\ \A j \in 1..l : list[j] \in S /\ v[list[j]] \in Nat
  OBVIOUS
<1>2. i \in 0..l /\ P = 1..i
  <2>1. P \in SUBSET (1..l)
    BY <1>1
  <2>2. \A j \in P : \A k \in 1..l : k < j => k \in P
    BY <1>1 DEF Ascending
  <2> HIDE DEF P, l
  <2> QED
    BY <1>1, <2>1, <2>2, PrefixIs DEF P, PlaceOf
<1>3. ASSUME NEW j \in 1..l
      PROVE  IF j <= i THEN v[list[j]] < v[e] ELSE v[e] < v[list[j]]
  <2>1. j \in DOMAIN list /\ v[list[j]] \in Nat /\ v[e] \in Nat /\ v[list[j]] # v[e]
    BY <1>1
  <2>2. v[list[j]] <= v[e] <=> j \in P
    BY <2>1
  <2>3. j \in P <=> j <= i
    BY <1>2
  <2> QED
    BY <2>1, <2>2, <2>3
<1>4. \A j, k \in 1..l : j < k => v[list[j]] < v[list[k]]
  BY <1>1 DEF Ascending
<1>5. /\ DOMAIN new = 1..n
      /\ \A k \in 1..n : new[k] = IF k <= i THEN list[k] ELSE IF k = i + 1 THEN e ELSE list[k - 1]
  <2>1. i \in 0..Len(list) /\ n \in 0..Len(list) + 1
    BY <1>2
  <2>2. DOMAIN new = 1..n
    BY <2>1, InsertIs
  <2>3. ASSUME NEW k \in 1..n
        PROVE  new[k] = IF k <= i THEN list[k] ELSE IF k = i + 1 THEN e ELSE list[k - 1]
    BY <2>1, InsertIs
  <2> QED
    BY <2>2, <2>3
<1> HIDE DEF l, P, new
<1>6. Ascending(new, v)
  <2>1. SUFFICES ASSUME NEW j \in 1..n, NEW k \in 1..n, j < k PROVE v[new[j]] < v[new[k]]
    BY <1>5 DEF Ascending
  <2>2. CASE k <= i
    BY <1>1, <1>2, <1>4, <1>5, <2>1, <2>2
  <2>3. CASE k = i + 1
    BY <1>1, <1>2, <1>3, <1>5, <2>1, <2>3
  <2>4. CASE k > i + 1
    <3>1. k - 1 \in 1..l /\ new[k] = list[k - 1] /\ k - 1 > i
      BY <1>1, <1>2, <1>5, <2>4
    <3>2. CASE j <= i
      BY <1>1, <1>2, <1>4, <1>5, <2>1, <3>1, <3>2
    <3>3. CASE j = i + 1
      BY <1>1, <1>2, <1>3, <1>5, <2>1, <3>1, <3>3
    <3>4. CASE j > i + 1
      <4>1. j - 1 \in 1..l /\ new[j] = list[j - 1] /\ j - 1 < k - 1
        BY <1>1, <1>2, <1>5, <2>1, <3>4
      <4> QED
        BY <1>4, <3>1, <4>1
    <3> QED
      BY <1>1, <1>2, <3>2, <3>3, <3>4
  <2> QED
    BY <1>1, <1>2, <2>2, <2>3, <2>4
\* where what was there is found
<1>7. ASSUME NEW k \in 1..n PROVE new[k] \in ToSet(list) \cup {e}
  <2>1. CASE k <= i
    BY <1>1, <1>2, <1>5, <2>1, SMTT(60) DEF ToSet
  <2>2. CASE k = i + 1
    BY <1>5, <1>2, <2>2
  <2>3. CASE k > i + 1
    <3>1. k - 1 \in 1..l /\ new[k] = list[k - 1]
      BY <1>1, <1>2, <1>5, <2>3
    <3> QED
      BY <1>1, <3>1 DEF ToSet
  <2> QED
    BY <1>1, <1>2, <2>1, <2>2, <2>3
<1>8. ASSUME NEW x \in ToSet(list) \cup {e}
      PROVE  \E p \in 1..l + 1 :
                /\ p <= n => new[p] = x
                /\ p > n => \A k \in 1..n : v[new[k]] < v[x]
  <2>1. CASE x = e
    <3>1. i + 1 \in 1..l + 1 /\ (i + 1 <= n => new[i + 1] = e)
      BY <1>1, <1>2, <1>5
    <3>2. i + 1 > n => \A k \in 1..n : v[new[k]] < v[e]
      BY <1>1, <1>2, <1>3, <1>5
    <3> QED
      BY <2>1, <3>1, <3>2
  <2>2. ASSUME NEW j \in 1..l, x = list[j], j <= i
        PROVE  /\ j \in 1..l + 1 /\ (j <= n => new[j] = x)
               /\ j > n => \A k \in 1..n : v[new[k]] < v[x]
    BY <1>1, <1>2, <1>4, <1>5, <2>2
  <2>3. ASSUME NEW j \in 1..l, x = list[j], j > i
        PROVE  /\ j + 1 \in 1..l + 1 /\ (j + 1 <= n => new[j + 1] = x)
               /\ j + 1 > n => \A k \in 1..n : v[new[k]] < v[x]
    <3>1. j + 1 \in 1..l + 1
      BY <1>1, <2>3
    <3>2. j + 1 <= n => new[j + 1] = x
      <4>1. SUFFICES ASSUME j + 1 <= n PROVE new[j + 1] = x
        OBVIOUS
      <4>2. j + 1 \in 1..n /\ ~(j + 1 <= i) /\ j + 1 # i + 1 /\ (j + 1) - 1 = j
        BY <1>1, <1>2, <2>3, <4>1
      <4> QED
        BY <1>5, <2>3, <4>2
    <3>3. ASSUME j + 1 > n, NEW k \in 1..n PROVE v[new[k]] < v[x]
      <4>1. CASE k <= i
        BY <1>1, <1>2, <1>4, <1>5, <2>3, <4>1
      <4>2. CASE k = i + 1
        BY <1>1, <1>2, <1>3, <1>5, <2>3, <4>2
      <4>3. CASE k > i + 1
        <5>1. k - 1 \in 1..l /\ new[k] = list[k - 1] /\ k - 1 < j
          BY <1>1, <1>2, <1>5, <3>3, <4>3
        <5> QED
          BY <1>4, <2>3, <5>1
      <4> QED
        BY <1>1, <1>2, <4>1, <4>2, <4>3
    <3> QED
      BY <3>1, <3>2, <3>3
  <2>4. CASE x # e
    <3>1. PICK j \in 1..l : x = list[j]
      BY <1>1, <2>4 DEF ToSet
    <3>2. CASE j <= i
      BY <2>2, <3>1, <3>2
    <3>3. CASE j > i
      BY <2>3, <3>1, <3>3
    <3> QED
      BY <1>1, <1>2, <3>2, <3>3
  <2> QED
    BY <2>1, <2>4
<1>9. \A x \in (ToSet(list) \cup {e}) \ ToSet(new) : \A k \in 1..n : v[new[k]] < v[x]
  <2>1. ASSUME NEW x \in (ToSet(list) \cup {e}) \ ToSet(new)
        PROVE  \A k \in 1..n : v[new[k]] < v[x]
    <3>1. PICK p \in 1..l + 1 : /\ p <= n => new[p] = x
                                /\ p > n => \A k \in 1..n : v[new[k]] < v[x]
      BY <1>8
    <3>2. ~(p <= n)
      BY <1>1, <1>5, <2>1, <3>1 DEF ToSet
    <3> QED
      BY <1>1, <3>1, <3>2
  <2> QED
    BY <2>1
<1>10. ToSet(new) \subseteq ToSet(list) \cup {e}
  BY <1>5, <1>7 DEF ToSet
<1>11. n = l + 1 => ToSet(list) \cup {e} \subseteq ToSet(new)
  <2>1. SUFFICES ASSUME n = l + 1, NEW x \in ToSet(list) \cup {e} PROVE x \in ToSet(new)
    OBVIOUS
  <2>2. PICK p \in 1..l + 1 : p <= n => new[p] = x
    BY <1>8
  <2>3. p \in 1..n /\ new[p] = x
    BY <1>1, <2>1, <2>2
  <2> QED
    BY <1>5, <2>3 DEF ToSet
<1>12. ASSUME n = l, e \in ToSet(new) PROVE \E j \in DOMAIN list : v[e] < v[list[j]]
  <2>1. PICK k \in 1..n : new[k] = e
    BY <1>5, <1>12 DEF ToSet
  <2>2. \A j \in 1..l : list[j] # e
    BY <1>1, <1>3
  <2>3. k = i + 1
    <3>1. ~(k <= i)
      BY <1>1, <1>2, <1>5, <2>1, <2>2
    <3>2. ~(k > i + 1)
      <4>1. SUFFICES ASSUME k > i + 1 PROVE FALSE
        OBVIOUS
      <4>2. k - 1 \in 1..l /\ new[k] = list[k - 1]
        BY <1>1, <1>2, <1>5, <4>1
      <4> QED
        BY <2>1, <2>2, <4>2
    <3> QED
      BY <1>1, <1>2, <3>1, <3>2
  <2>4. i + 1 \in 1..l /\ ~(i + 1 <= i)
    BY <1>1, <1>2, <1>12, <2>3
  <2>5. v[e] < v[list[i + 1]]
    BY <1>3, <2>4
  <2> QED
    BY <1>1, <2>4, <2>5
<1> QED
  <2>1. n = l + 1 => ToSet(new) = ToSet(list) \cup {e}
    BY <1>10, <1>11
  <2>2. n = l /\ e \in ToSet(new) => \E j \in DOMAIN list : v[e] < v[list[j]]
    BY <1>12
  <2> HIDE DEF new
  <2>3. i \in 0..Len(list)
    BY <1>2 DEF l
  <2>4. Placed(new, list, i, e, n, v)
    BY <1>6, <1>9, <1>10, <2>1, <2>2, <2>3 DEF Placed, l
  <2> QED
    BY <2>4 DEF new

(***************************************************************************)
(* The list of a search.                                                   *)
(***************************************************************************)
Distance == [e \in Entry |-> Xor(e.id, Target)]

SearchList(list) ==
    list \in Seq(Entry) /\ Len(list) <= SearchNodes /\ Ascending(list, Distance)

LEMMA DistanceIs ==
    /\ Peers \subseteq Ids
    /\ \A e \in Entry : e.id \in Peers /\ Distance[e] = Xor(e.id, Target) /\ Distance[e] \in Nat
    /\ \A d, e \in Entry : /\ Closer(d.id, e.id, Target) <=> Distance[d] < Distance[e]
                           /\ d.id # e.id => Distance[d] # Distance[e]
                           /\ d.id = e.id => Distance[d] = Distance[e]
<1>1. Peers \subseteq Ids /\ Target \in Ids
  BY TableAssumption, SearchAssumption
<1>2. ASSUME NEW e \in Entry PROVE e.id \in Peers /\ Distance[e] = Xor(e.id, Target) /\ e.id \in Ids
  BY <1>1 DEF Distance, Entry
<1>3. ASSUME NEW e \in Entry PROVE Distance[e] \in Nat
  BY <1>1, <1>2, CloserIs
<1>4. ASSUME NEW d \in Entry, NEW e \in Entry
      PROVE  /\ Closer(d.id, e.id, Target) <=> Distance[d] < Distance[e]
             /\ d.id # e.id => Distance[d] # Distance[e]
             /\ d.id = e.id => Distance[d] = Distance[e]
  BY <1>1, <1>2, CloserIs
<1> QED
  BY <1>1, <1>2, <1>3, <1>4

LEMMA SizesAre ==
    /\ SearchNodes \in Nat /\ SearchNodes > 0
    /\ BucketSize \in Nat /\ BucketSize > 0
    /\ AnswerNodes \in Nat /\ AnswerNodes > 0
    /\ MaxBlacklisted \in Nat /\ MaxBlacklisted > 0
BY SearchAssumption, TableAssumption

LEMMA ListEntry ==
    ASSUME NEW list, SearchList(list)
    PROVE  /\ Len(list) \in Nat /\ DOMAIN list = 1..Len(list)
           /\ \A i \in DOMAIN list : list[i] \in Entry /\ list[i].id \in Peers
<1>1. list \in Seq(Entry)
  BY DEF SearchList
<1>2. Len(list) \in Nat /\ DOMAIN list = 1..Len(list) /\ \A i \in DOMAIN list : list[i] \in Entry
  BY <1>1
<1> QED
  BY <1>2, DistanceIs

\* A list with some of the nodes of another, in the same order.
IsPart(part, list, n, h) ==
    /\ n \in Nat /\ n <= Len(list) /\ part \in [1..n -> Entry]
    /\ \A k \in 1..n : h[k] \in DOMAIN list /\ part[k].id = list[h[k]].id
    /\ \A k, l \in 1..n : k < l => h[k] < h[l]

LEMMA PartList ==
    ASSUME NEW list, SearchList(list), NEW part, NEW n, NEW h, IsPart(part, list, n, h)
    PROVE  SearchList(part)
<1>1. part \in Seq(Entry) /\ Len(part) = n /\ DOMAIN part = 1..n
  BY ListIs DEF IsPart
<1>2. \A k \in 1..n : Distance[part[k]] = Distance[list[h[k]]]
  BY ListEntry, DistanceIs DEF IsPart
<1>3. Ascending(part, Distance)
  BY <1>1, <1>2 DEF Ascending, SearchList, IsPart
<1>4. Len(part) <= SearchNodes
  BY <1>1, ListEntry, SizesAre DEF SearchList, IsPart
<1> QED
  BY <1>1, <1>3, <1>4 DEF SearchList

LEMMA SameList ==
    ASSUME NEW list, SearchList(list),
           NEW part, DOMAIN part = DOMAIN list, part = [i \in DOMAIN part |-> part[i]],
           \A i \in DOMAIN list : part[i] \in Entry /\ part[i].id = list[i].id
    PROVE  SearchList(part)
<1> DEFINE n == Len(list)
           h == [k \in 1..n |-> k]
<1>1. n \in Nat /\ n <= n /\ DOMAIN list = 1..n
  BY ListEntry
<1>2. \A k \in 1..n : h[k] = k
  OBVIOUS
<1>3. part \in [1..n -> Entry]
  BY <1>1
<1>4. n <= Len(list)
  BY <1>1
<1> HIDE DEF h, n
<1>5. \A k \in 1..n : h[k] \in DOMAIN list /\ part[k].id = list[h[k]].id
  BY <1>1, <1>2
<1>6. \A k, l \in 1..n : k < l => h[k] < h[l]
  BY <1>2
<1>7. IsPart(part, list, n, h)
  BY <1>1, <1>3, <1>4, <1>5, <1>6 DEF IsPart
<1> QED
  BY <1>7, PartList

LEMMA PairIsFinite == \A x, y : IsFiniteSet({x, y})
<1> SUFFICES ASSUME NEW x, NEW y PROVE IsFiniteSet({x, y})
  OBVIOUS
<1>1. IsFiniteSet({x} \cup {y})
  BY FS_Singleton, FS_AddElement
<1>2. {x} \cup {y} = {x, y}
  OBVIOUS
<1> QED
  BY <1>1, <1>2

\* Field by field, for the provers.
LEMMA FieldsSet ==
    ASSUME NEW e \in Entry
    PROVE  /\ \A b \in BOOLEAN : /\ [e EXCEPT !.asked = b] \in Entry
                                /\ [e EXCEPT !.replied = b] \in Entry
                                /\ [e EXCEPT !.recent = b] \in Entry
           /\ \A n \in 0..3 : [e EXCEPT !.pinged = n] \in Entry
<1>1. \A b \in BOOLEAN : [e EXCEPT !.asked = b] \in Entry
  BY DEF Entry
<1>2. \A b \in BOOLEAN : [e EXCEPT !.replied = b] \in Entry
  BY DEF Entry
<1>3. \A b \in BOOLEAN : [e EXCEPT !.recent = b] \in Entry
  BY DEF Entry
<1>4. \A n \in 0..3 : [e EXCEPT !.pinged = n] \in Entry
  BY DEF Entry
<1> QED
  BY <1>1, <1>2, <1>3, <1>4

LEMMA EntriesAre ==
    /\ \A id \in Peers : /\ NewEntry(id) \in Entry /\ NewEntry(id).id = id
                         /\ Replied(NewEntry(id)) \in Entry /\ Replied(NewEntry(id)).id = id
    /\ \A e \in Entry : /\ Replied(e) \in Entry /\ Replied(e).id = e.id
                        /\ e.pinged < 3 => AskedEntry(e) \in Entry /\ AskedEntry(e).id = e.id
<1>1. ASSUME NEW id \in Peers PROVE NewEntry(id) \in Entry /\ NewEntry(id).id = id
  BY DEF NewEntry, Entry
<1>3. ASSUME NEW e \in Entry PROVE Replied(e) \in Entry /\ Replied(e).id = e.id
  <2> DEFINE e1 == [e EXCEPT !.replied = TRUE]
             e2 == [e1 EXCEPT !.recent = TRUE]
             e3 == [e2 EXCEPT !.asked = FALSE]
  <2>1. Replied(e) \in Entry
    <3>1. e1 \in Entry
      BY FieldsSet
    <3> HIDE DEF e1
    <3>2. e2 \in Entry
      BY <3>1, FieldsSet
    <3> HIDE DEF e2
    <3>3. e3 \in Entry
      BY <3>2, FieldsSet
    <3> HIDE DEF e3
    <3>4. 0 \in 0..3
      OBVIOUS
    <3>5. [e3 EXCEPT !.pinged = 0] \in Entry
      BY <3>3, <3>4, FieldsSet
    <3> QED
      BY <3>5 DEF Replied, e3, e2, e1
  <2>2. Replied(e).id = e.id
    BY DEF Replied, Entry
  <2> QED
    BY <2>1, <2>2
<1>4. ASSUME NEW e \in Entry, e.pinged < 3
      PROVE  AskedEntry(e) \in Entry /\ AskedEntry(e).id = e.id
  <2> DEFINE e1 == [e EXCEPT !.pinged = e.pinged + 1]
  <2>1. AskedEntry(e) \in Entry
    <3>1. e.pinged + 1 \in 0..3
      BY <1>4 DEF Entry
    <3>2. e1 \in Entry
      BY <3>1, FieldsSet
    <3> HIDE DEF e1
    <3>3. [e1 EXCEPT !.asked = TRUE] \in Entry
      BY <3>2, FieldsSet
    <3> QED
      BY <3>3 DEF AskedEntry, e1
  <2>2. AskedEntry(e).id = e.id
    BY DEF AskedEntry, Entry
  <2> QED
    BY <2>1, <2>2
<1> QED
  BY <1>1, <1>3, <1>4

LEMMA InsertSearchList ==
    ASSUME NEW list, SearchList(list), NEW id \in Peers, NEW replied \in BOOLEAN
    PROVE  SearchList(InsertSearchNode(list, id, replied))
<1> DEFINE new == InsertSearchNode(list, id, replied)
           i == PlaceFor(list, id)
           e == IF replied THEN Replied(NewEntry(id)) ELSE NewEntry(id)
           n == Min({SearchNodes, Len(list) + 1})
<1>1. /\ list \in Seq(Entry) /\ Len(list) \in Nat /\ DOMAIN list = 1..Len(list)
      /\ \A j \in DOMAIN list : list[j] \in Entry /\ list[j].id \in Peers
      /\ Len(list) <= SearchNodes /\ Ascending(list, Distance)
  BY ListEntry DEF SearchList
<1>2. CASE Listed(list, id)
  <2>1. new = [j \in DOMAIN list |->
                 IF list[j].id = id /\ replied THEN Replied(list[j]) ELSE list[j]]
    BY <1>2 DEF InsertSearchNode
  <2>2. /\ DOMAIN new = DOMAIN list /\ new = [j \in DOMAIN new |-> new[j]]
        /\ \A j \in DOMAIN list : new[j] = list[j] \/ new[j] = Replied(list[j])
    BY <2>1
  <2> HIDE DEF new
  <2>3. \A j \in DOMAIN list : new[j] \in Entry /\ new[j].id = list[j].id
    BY <1>1, <2>2, EntriesAre
  <2> QED
    BY <2>2, <2>3, SameList DEF new
<1>3. CASE ~Listed(list, id)
  <2>1. new = Insert(list, i, e, n)
    BY <1>3 DEF InsertSearchNode, Insert
  <2>2. e \in Entry /\ e.id = id
    BY EntriesAre
  <2>3. n \in 0..Len(list) + 1 /\ n <= SearchNodes
    <3>1. IsFiniteSet({SearchNodes, Len(list) + 1})
      BY PairIsFinite
    <3> DEFINE M == {SearchNodes, Len(list) + 1}
    <3>2. M # {} /\ \A x \in M : x \in Int
      BY <1>1, SizesAre
    <3>3. n \in M /\ \A y \in M : n <= y
      <4> HIDE DEF M
      <4> QED
        BY <3>1, <3>2, MinIs DEF M
    <3> HIDE DEF n
    <3> QED
      BY <1>1, <3>3, SizesAre
  <2>4. i = PlaceOf(list, e, Distance)
    <3>1. ASSUME NEW j \in DOMAIN list
          PROVE  ~Closer(id, list[j].id, Target) <=> Distance[list[j]] <= Distance[e]
      BY <1>1, <2>2, DistanceIs
    <3>2. {j \in DOMAIN list : ~Closer(id, list[j].id, Target)} =
          {j \in DOMAIN list : Distance[list[j]] <= Distance[e]}
      BY <3>1
    <3> QED
      BY <3>2 DEF PlaceFor, PlaceOf
  <2>5. \A j \in DOMAIN list : Distance[list[j]] # Distance[e]
    BY <1>1, <1>3, <2>2, DistanceIs DEF Listed
  <2>6. \A x \in Entry : Distance[x] \in Nat
    BY DistanceIs
  <2> HIDE DEF i, e, n
  <2>7. i \in 0..Len(list) /\ Ascending(Insert(list, i, e, n), Distance)
    <3>1. list \in Seq(Entry)
      BY <1>1
    <3>2. Ascending(list, Distance)
      BY <1>1
    <3>3. e \in Entry
      BY <2>2
    <3>4. n \in 0..Len(list) + 1
      BY <2>3
    <3>5. Placed(Insert(list, i, e, n), list, i, e, n, Distance)
      BY <2>4, <2>5, <2>6, <3>1, <3>2, <3>3, <3>4, SortedInsert
    <3> QED
      BY <3>5 DEF Placed
  <2>8. Insert(list, i, e, n) \in Seq(Entry)
    BY <1>1, <2>2, <2>3, <2>7, InsertIs
  <2>9. Len(Insert(list, i, e, n)) = n
    BY <1>1, <2>2, <2>3, <2>7, InsertIs
  <2> QED
    BY <2>1, <2>3, <2>7, <2>8, <2>9 DEF SearchList
<1> QED
  BY <1>2, <1>3

(***************************************************************************)
(* The k-th element of a set of indices.                                   *)
(***************************************************************************)
Below(P, i) == {j \in P : j < i}

LEMMA BelowIs ==
    ASSUME NEW P, IsFiniteSet(P), \A x \in P : x \in Int
    PROVE  /\ Cardinality(P) \in Nat
           /\ \A i \in P : IsFiniteSet(Below(P, i)) /\ Cardinality(Below(P, i)) \in Nat
           /\ \A i, j \in P : i < j => Cardinality(Below(P, i)) < Cardinality(Below(P, j))
<1>1. Cardinality(P) \in Nat
  BY FS_CardinalityType
<1>2. ASSUME NEW i \in P PROVE IsFiniteSet(Below(P, i)) /\ Cardinality(Below(P, i)) \in Nat
  <2>1. Below(P, i) \in SUBSET P
    BY DEF Below
  <2> QED
    BY <2>1, FS_Subset, FS_CardinalityType
<1>3. ASSUME NEW i \in P, NEW j \in P, i < j
      PROVE  Cardinality(Below(P, i)) < Cardinality(Below(P, j))
  <2>1. i \in Int /\ j \in Int /\ i \notin Below(P, i)
    BY DEF Below
  <2>2. ASSUME NEW x \in Below(P, i) \cup {i} PROVE x \in Below(P, j)
    <3>1. x \in P /\ x \in Int /\ x <= i
      BY <2>1 DEF Below
    <3> QED
      BY <1>3, <2>1, <3>1 DEF Below
  <2>3. Cardinality(Below(P, i) \cup {i}) = Cardinality(Below(P, i)) + 1
    BY <1>2, <2>1, FS_AddElement
  <2>4. Cardinality(Below(P, i) \cup {i}) <= Cardinality(Below(P, j))
    BY <1>2, <2>2, FS_Subset
  <2> QED
    BY <1>2, <2>3, <2>4
<1> QED
  BY <1>1, <1>2, <1>3

LEMMA NthExists ==
    ASSUME NEW P, IsFiniteSet(P), \A x \in P : x \in Int, NEW k \in 1..Cardinality(P)
    PROVE  \E i \in P : Cardinality(Below(P, i)) = k - 1
<1> DEFINE T == {m \in Nat : m < Cardinality(P) => \E i \in P : Cardinality(Below(P, i)) = m}
<1>1. /\ Cardinality(P) \in Nat
      /\ \A i \in P : IsFiniteSet(Below(P, i)) /\ Cardinality(Below(P, i)) \in Nat
  BY BelowIs
<1>2. 0 \in T
  <2>1. SUFFICES ASSUME 0 < Cardinality(P) PROVE \E i \in P : Cardinality(Below(P, i)) = 0
    OBVIOUS
  <2>2. P # {}
    BY <2>1, FS_EmptySet
  <2>3. PICK i \in P : \A j \in P : i <= j
    BY <2>2, LeastExists
  <2>4. ASSUME NEW j \in Below(P, i) PROVE FALSE
    <3>1. j \in P /\ j \in Int /\ i \in Int /\ j < i
      BY DEF Below
    <3> QED
      BY <2>3, <3>1
  <2>5. Below(P, i) = {}
    BY <2>4, Zenon
  <2> QED
    BY <2>5, FS_EmptySet
<1>3. ASSUME NEW m \in Nat, m \in T PROVE m + 1 \in T
  <2>1. SUFFICES ASSUME m + 1 < Cardinality(P)
                 PROVE  \E i \in P : Cardinality(Below(P, i)) = m + 1
    OBVIOUS
  <2>2. PICK i \in P : Cardinality(Below(P, i)) = m
    BY <1>1, <1>3, <2>1
  <2> DEFINE R == {j \in P : j > i}
  <2>3. \A j : j \in R <=> j \in P /\ j > i
    OBVIOUS
  <2> HIDE DEF R
  <2>4. \A j : j \in Below(P, i) <=> j \in P /\ j < i
    BY DEF Below
  <2>5. R # {}
    <3>1. SUFFICES ASSUME R = {} PROVE FALSE
      OBVIOUS
    <3>2. ASSUME NEW x \in P PROVE x \in Below(P, i) \cup {i}
      <4>1. x \in Int /\ i \in Int /\ ~(x > i)
        BY <2>3, <3>1
      <4> QED
        BY <2>4, <4>1
    <3>3. i \notin Below(P, i) /\ Below(P, i) \subseteq P
      BY DEF Below
    <3>4. P = Below(P, i) \cup {i}
      BY <3>2, <3>3, Zenon
    <3>5. Cardinality(P) = m + 1
      BY <1>1, <2>2, <3>3, <3>4, FS_AddElement
    <3> QED
      BY <1>1, <2>1, <3>5
  <2>6. IsFiniteSet(R) /\ \A j \in R : j \in Int
    <3>1. R \in SUBSET P
      BY <2>3
    <3> QED
      BY <3>1, FS_Subset
  <2>7. PICK l \in R : \A j \in R : l <= j
    BY <2>5, <2>6, LeastExists
  <2>8. l \in P /\ l \in Int /\ i \in Int /\ i < l
    BY <2>3, <2>6
  <2>9. ASSUME NEW x PROVE x \in Below(P, l) <=> x \in Below(P, i) \cup {i}
    <3>1. CASE x \in P
      <4>1. x \in Int /\ (x > i => x >= l)
        BY <2>3, <2>7, <3>1
      <4> QED
        BY <2>8, <3>1, <4>1 DEF Below
    <3>2. CASE x \notin P
      BY <3>2 DEF Below
    <3> QED
      BY <3>1, <3>2
  <2>10. Below(P, l) = Below(P, i) \cup {i} /\ i \notin Below(P, i)
    <3>1. i \notin Below(P, i)
      BY <2>8 DEF Below
    <3> QED
      BY <2>9, <3>1, Zenon
  <2>11. Cardinality(Below(P, l)) = m + 1
    BY <1>1, <2>2, <2>10, FS_AddElement
  <2> QED
    BY <2>8, <2>11
<1> HIDE DEF T
<1>4. Nat \subseteq T
  BY <1>2, <1>3, CountUp
<1>5. k - 1 \in Nat /\ k - 1 < Cardinality(P)
  BY <1>1
<1>6. k - 1 \in T
  BY <1>4, <1>5
<1> QED
  BY <1>5, <1>6 DEF T

LEMMA ReusedIs ==
    ASSUME SearchList(search.list)
    PROVE  SearchList(Reused)
<1> DEFINE list == search.list
           live == {i \in DOMAIN list : list[i].pinged < 3 /\ list[i].recent}
           nth(k) == CHOOSE i \in live : Cardinality({j \in live : j < i}) = k - 1
           n == Cardinality(live)
           h == [k \in 1..n |-> nth(k)]
<1>1. /\ list \in Seq(Entry) /\ Len(list) \in Nat /\ DOMAIN list = 1..Len(list)
      /\ \A i \in DOMAIN list : list[i] \in Entry
  BY ListEntry DEF SearchList
<1>2. Reused = [k \in 1..n |-> [list[nth(k)] EXCEPT !.pinged = 0, !.replied = FALSE]]
  BY DEF Reused
<1>3. live \in SUBSET (1..Len(list)) /\ \A i \in live : i \in DOMAIN list /\ i \in Int
  BY <1>1
<1>4. \A k : nth(k) = CHOOSE i \in live : Cardinality(Below(live, i)) = k - 1
  BY DEF Below
<1> HIDE DEF live, nth
<1>5. IsFiniteSet(live) /\ n \in Nat /\ n <= Len(list)
  <2>1. IsFiniteSet(1..Len(list)) /\ Cardinality(1..Len(list)) = Len(list)
    BY <1>1, FS_Interval
  <2> QED
    BY <1>3, <2>1, FS_Subset, FS_CardinalityType
<1>6. ASSUME NEW k \in 1..n PROVE nth(k) \in live /\ Cardinality(Below(live, nth(k))) = k - 1
  <2>1. \E i \in live : Cardinality(Below(live, i)) = k - 1
    BY <1>3, <1>5, NthExists
  <2> QED
    BY <1>4, <2>1
<1>7. ASSUME NEW k \in 1..n, NEW l \in 1..n, k < l PROVE nth(k) < nth(l)
  <2>1. /\ nth(k) \in live /\ Cardinality(Below(live, nth(k))) = k - 1
        /\ nth(l) \in live /\ Cardinality(Below(live, nth(l))) = l - 1
    BY <1>6
  <2>2. nth(k) \in Int /\ nth(l) \in Int
    BY <1>3, <2>1
  <2>3. nth(l) < nth(k) => l - 1 < k - 1
    BY <1>3, <1>5, <2>1, BelowIs
  <2>4. nth(l) = nth(k) => l - 1 = k - 1
    BY <2>1
  <2> QED
    BY <1>5, <1>7, <2>2, <2>3, <2>4
<1>8. ASSUME NEW e \in Entry
      PROVE  /\ [e EXCEPT !.pinged = 0, !.replied = FALSE] \in Entry
             /\ [e EXCEPT !.pinged = 0, !.replied = FALSE].id = e.id
  <2> DEFINE e1 == [e EXCEPT !.pinged = 0]
  <2>1. e1 \in Entry
    <3>1. 0 \in 0..3
      OBVIOUS
    <3> QED
      BY <3>1, FieldsSet
  <2>2. [e EXCEPT !.pinged = 0, !.replied = FALSE].id = e.id
    BY DEF Entry
  <2> HIDE DEF e1
  <2>3. [e1 EXCEPT !.replied = FALSE] \in Entry
    BY <2>1, FieldsSet
  <2> QED
    BY <2>2, <2>3 DEF e1
<1>9. \A k \in 1..n : h[k] = nth(k)
  OBVIOUS
<1> DEFINE part == Reused
<1>10. part = [k \in 1..n |-> [list[nth(k)] EXCEPT !.pinged = 0, !.replied = FALSE]]
  BY <1>2
<1> HIDE DEF h, part, n, list
<1>11. ASSUME NEW k \in 1..n
       PROVE  h[k] \in DOMAIN list /\ part[k] \in Entry /\ part[k].id = list[h[k]].id
  <2>1. h[k] = nth(k) /\ h[k] \in DOMAIN list /\ list[h[k]] \in Entry
    BY <1>1, <1>3, <1>6, <1>9
  <2>2. part[k] = [list[h[k]] EXCEPT !.pinged = 0, !.replied = FALSE]
    BY <1>10, <2>1
  <2> QED
    BY <1>8, <2>1, <2>2
<1>12. part \in [1..n -> Entry]
  BY <1>10, <1>11
<1>13. \A k, l \in 1..n : k < l => h[k] < h[l]
  BY <1>7, <1>9
<1>14. SearchList(list)
  BY DEF list
<1>15. IsPart(part, list, n, h)
  BY <1>5, <1>11, <1>12, <1>13, Zenon DEF IsPart
<1>16. SearchList(part)
  BY <1>14, <1>15, PartList
<1> QED
  BY <1>16 DEF part

(***************************************************************************)
(* Folding a list from the left.  g has the result for every set of        *)
(* indices, the way FoldLeft defines it; 1..k stands for the first k steps.*)
(***************************************************************************)
IsFold(g, step, base, seq, D) ==
    g = [s \in D |-> IF s = {} THEN base ELSE step[<<g[s \ {Max(s)}], seq[Max(s)]>>]]

LEMMA IndexSet ==
    ASSUME NEW n \in Nat, NEW s \in SUBSET (1..n)
    PROVE  /\ IsFiniteSet(s) /\ Cardinality(s) \in Nat /\ Cardinality(s) <= n
           /\ \A x \in s : x \in 1..n /\ x \in Int
<1>1. \A x \in s : x \in 1..n /\ x \in Int
  OBVIOUS
<1> DEFINE S == 1..n
<1>2. IsFiniteSet(S) /\ Cardinality(S) = n /\ s \in SUBSET S
  BY FS_Interval
<1> HIDE DEF S
<1>3. IsFiniteSet(s) /\ Cardinality(s) <= n
  BY <1>2, FS_Subset
<1> QED
  BY <1>1, <1>3, FS_CardinalityType

LEMMA FoldShrinks ==
    ASSUME NEW n \in Nat, NEW m \in Nat, NEW s \in SmallSubsets(1..n, m + 1), s # {}
    PROVE  Max(s) \in 1..n /\ s \ {Max(s)} \in SmallSubsets(1..n, m)
<1>1. s \in SUBSET (1..n)
  BY DEF SmallSubsets
<1>2. IsFiniteSet(s) /\ \A x \in s : x \in Int
  BY <1>1, IndexSet
<1>3. Max(s) \in s
  BY <1>2, MaxIs
<1>4. /\ Cardinality(s) \in Nat /\ Cardinality(s) <= m + 1
      /\ Cardinality(s \ {Max(s)}) = Cardinality(s) - 1
  BY <1>2, <1>3, FS_CardinalityType, FS_RemoveElement DEF SmallSubsets
<1>5. Max(s) \in 1..n
  BY <1>1, <1>3, IndexSet
<1>6. s \ {Max(s)} \in SUBSET (1..n) /\ Cardinality(s \ {Max(s)}) <= m
  <2>1. Cardinality(s \ {Max(s)}) <= m
    BY <1>4
  <2> QED
    BY <1>1, <2>1, Zenon
<1> QED
  BY <1>5, <1>6, Zenon DEF SmallSubsets

LEMMA FoldExists ==
    ASSUME NEW n \in Nat, NEW S, NEW E, NEW base \in S, NEW step \in [S \X E -> S],
           NEW seq, \A i \in 1..n : seq[i] \in E
    PROVE  \E g : IsFold(g, step, base, seq, SUBSET (1..n)) /\ \A s \in SUBSET (1..n) : g[s] \in S
<1> DEFINE Good1(g, m) == /\ IsFold(g, step, base, seq, SmallSubsets(1..n, m))
                          /\ \A s \in SmallSubsets(1..n, m) : g[s] \in S
           T == {m \in Nat : \E g : Good1(g, m)}
<1>0. IsFiniteSet(1..n) /\ Cardinality(1..n) = n
  BY FS_Interval
<1>1. \A m \in Nat : \A s \in SmallSubsets(1..n, m) : s \in SmallSubsets(1..n, m + 1)
  <2> SUFFICES ASSUME NEW m \in Nat, NEW s \in SmallSubsets(1..n, m)
               PROVE  s \in SmallSubsets(1..n, m + 1)
    OBVIOUS
  <2>1. s \in SUBSET (1..n) /\ Cardinality(s) <= m
    BY DEF SmallSubsets
  <2>2. Cardinality(s) \in Nat
    BY <1>0, <2>1, FS_Subset, FS_CardinalityType
  <2> QED
    BY <2>1, <2>2 DEF SmallSubsets
<1>2. 0 \in T
  <2>1. ASSUME NEW s \in SmallSubsets(1..n, 0) PROVE s = {}
    <3>1. s \in SUBSET (1..n) /\ Cardinality(s) <= 0
      BY DEF SmallSubsets
    <3>2. IsFiniteSet(s) /\ Cardinality(s) \in Nat
      BY <3>1, IndexSet
    <3> QED
      BY <3>1, <3>2, FS_EmptySet
  <2> DEFINE g == [s \in SmallSubsets(1..n, 0) |-> base]
  <2>2. Good1(g, 0)
    BY <2>1 DEF IsFold
  <2> QED
    BY <2>2
<1>3. ASSUME NEW m \in Nat, m \in T PROVE m + 1 \in T
  <2>1. PICK g : Good1(g, m)
    BY <1>3
  <2> DEFINE h == [s \in SmallSubsets(1..n, m + 1) |->
                      IF s = {} THEN base ELSE step[<<g[s \ {Max(s)}], seq[Max(s)]>>]]
  <2>2. \A s \in SmallSubsets(1..n, m) : h[s] = g[s]
    BY <1>1, <2>1 DEF IsFold
  <2>3. \A s \in SmallSubsets(1..n, m + 1) :
           s # {} => h[s \ {Max(s)}] = g[s \ {Max(s)}]
    <3> HIDE DEF h
    <3> QED
      BY <2>2, FoldShrinks
  <2>4. IsFold(h, step, base, seq, SmallSubsets(1..n, m + 1))
    BY <2>3 DEF IsFold
  <2>5. ASSUME NEW s \in SmallSubsets(1..n, m + 1) PROVE h[s] \in S
    <3>1. CASE s = {}
      BY <3>1
    <3>2. CASE s # {}
      <4>1. g[s \ {Max(s)}] \in S /\ seq[Max(s)] \in E
        BY <2>1, <3>2, FoldShrinks
      <4>2. h[s] = step[<<g[s \ {Max(s)}], seq[Max(s)]>>]
        BY <3>2
      <4> QED
        BY <4>1, <4>2
    <3> QED
      BY <3>1, <3>2
  <2> HIDE DEF h
  <2> QED
    BY <2>4, <2>5
<1> HIDE DEF T
<1>4. Nat \subseteq T
  BY <1>2, <1>3, CountUp
<1>5. SmallSubsets(1..n, n) = SUBSET (1..n)
  <2>1. ASSUME NEW s \in SUBSET (1..n) PROVE s \in SmallSubsets(1..n, n)
    BY <1>0, FS_Subset DEF SmallSubsets
  <2> QED
    BY <2>1 DEF SmallSubsets
<1> QED
  BY <1>4, <1>5 DEF T

LEMMA FoldUp ==
    /\ 1..0 = {}
    /\ \A k \in Nat : 1..k + 1 # {} /\ Max(1..k + 1) = k + 1 /\ (1..k + 1) \ {k + 1} = 1..k
<1>1. ASSUME NEW k \in Nat PROVE 1..k + 1 # {} /\ Max(1..k + 1) = k + 1 /\ (1..k + 1) \ {k + 1} = 1..k
  <2> DEFINE S == 1..k + 1
  <2>1. IsFiniteSet(S) /\ k + 1 \in S /\ \A x \in S : x \in Int /\ x <= k + 1
    BY FS_Interval
  <2>2. Max(S) \in S /\ Max(S) >= k + 1
    <3> HIDE DEF S
    <3> QED
      BY <2>1, MaxIs
  <2>3. Max(S) = k + 1
    BY <2>1, <2>2
  <2> QED
    BY <2>1, <2>3
<1> QED
  BY <1>1

LEMMA SeqOfSet ==
    ASSUME NEW S, IsFiniteSet(S)
    PROVE  /\ Cardinality(S) \in Nat
           /\ SetToSeq(S) \in [1..Cardinality(S) -> S] /\ IsInjective(SetToSeq(S))
<1>1. Cardinality(S) \in Nat /\ ExistsBijection(1..Cardinality(S), S)
  BY FS_CardinalityType
<1>2. PICK f \in [1..Cardinality(S) -> S] :
         \A x, y \in 1..Cardinality(S) : f[x] = f[y] => x = y
  BY <1>1 DEF ExistsBijection, Bijection, Injection, IsInjective
<1>3. IsInjective(f)
  BY <1>2 DEF IsInjective
<1> QED
  BY <1>1, <1>3 DEF SetToSeq

LEMMA InsertNodesList ==
    ASSUME NEW list, SearchList(list), NEW ids \in SUBSET Peers, IsFiniteSet(ids)
    PROVE  SearchList(InsertNodes(list, ids))
<1> DEFINE seq == SetToSeq(ids)
           n == Cardinality(ids)
           S == {l \in Seq(Entry) : SearchList(l)}
           step == [p \in S \X Peers |-> InsertSearchNode(p[1], p[2], FALSE)]
           Folds(g) == g = [s \in SUBSET DOMAIN seq |->
                              IF s = {} THEN list
                              ELSE InsertSearchNode(g[s \ {Max(s)}], seq[Max(s)], FALSE)]
           g == CHOOSE g : Folds(g)
<1>1. n \in Nat /\ seq \in [1..n -> ids] /\ DOMAIN seq = 1..n /\ \A i \in 1..n : seq[i] \in Peers
  BY SeqOfSet
<1>2. InsertNodes(list, ids) = g[DOMAIN seq]
  BY DEF InsertNodes, FoldLeft, MapThenFoldSet
<1>3. list \in S
  BY DEF SearchList
<1>4. \A l \in S : \A id \in Peers :
         InsertSearchNode(l, id, FALSE) \in S /\ step[<<l, id>>] = InsertSearchNode(l, id, FALSE)
  <2>1. \A l \in S : \A id \in Peers : SearchList(InsertSearchNode(l, id, FALSE))
    BY InsertSearchList
  <2>2. \A l \in S : \A id \in Peers : InsertSearchNode(l, id, FALSE) \in S
    BY <2>1 DEF SearchList
  <2> QED
    BY <2>2
<1>5. step \in [S \X Peers -> S]
  <2>1. \A p \in S \X Peers : InsertSearchNode(p[1], p[2], FALSE) \in S
    BY <1>4
  <2> QED
    BY <2>1
<1> HIDE DEF S, step, seq, n
<1>6. \E h : Folds(h)
  <2>1. PICK h : IsFold(h, step, list, seq, SUBSET (1..n)) /\ \A s \in SUBSET (1..n) : h[s] \in S
    BY <1>1, <1>3, <1>5, FoldExists, Zenon
  <2>2. ASSUME NEW s \in SUBSET (1..n), s # {}
        PROVE  step[<<h[s \ {Max(s)}], seq[Max(s)]>>] =
               InsertSearchNode(h[s \ {Max(s)}], seq[Max(s)], FALSE)
    <3>1. IsFiniteSet(s) /\ \A x \in s : x \in Int /\ x \in 1..n
      BY <1>1, IndexSet
    <3>2. Max(s) \in 1..n
      BY <2>2, <3>1, MaxIs
    <3>3. h[s \ {Max(s)}] \in S /\ seq[Max(s)] \in Peers
      BY <1>1, <2>1, <3>2
    <3> QED
      BY <1>4, <3>3
  <2>3. [s \in SUBSET (1..n) |-> IF s = {} THEN list
                                 ELSE step[<<h[s \ {Max(s)}], seq[Max(s)]>>]] =
        [s \in SUBSET (1..n) |-> IF s = {} THEN list
                                 ELSE InsertSearchNode(h[s \ {Max(s)}], seq[Max(s)], FALSE)]
    BY <2>2, Zenon
  <2>4. Folds(h)
    BY <1>1, <2>1, <2>3, Zenon DEF IsFold
  <2> QED
    BY <2>4
<1>7. Folds(g)
  BY <1>6, Zenon
<1> HIDE DEF g
<1> DEFINE T == {k \in Nat : k <= n => g[1..k] \in S}
<1>8. 0 \in T
  <2>1. g[{}] = list
    BY <1>7
  <2> QED
    BY <1>3, <2>1, FoldUp
<1>9. ASSUME NEW k \in Nat, k \in T PROVE k + 1 \in T
  <2>1. SUFFICES ASSUME k + 1 <= n PROVE g[1..k + 1] \in S
    OBVIOUS
  <2>2. g[1..k] \in S
    BY <1>1, <1>9, <2>1
  <2>3. 1..k + 1 \in SUBSET (1..n) /\ k + 1 \in 1..n
    BY <1>1, <2>1
  <2>4. g[1..k + 1] = InsertSearchNode(g[(1..k + 1) \ {Max(1..k + 1)}], seq[Max(1..k + 1)], FALSE)
    <3>1. 1..k + 1 # {}
      BY FoldUp
    <3> DEFINE s == 1..k + 1
    <3> HIDE DEF s
    <3> QED
      BY <1>1, <1>7, <2>3, <3>1 DEF s
  <2>5. g[1..k + 1] = InsertSearchNode(g[1..k], seq[k + 1], FALSE)
    BY <2>4, FoldUp
  <2> QED
    BY <1>1, <1>4, <2>2, <2>3, <2>5
<1> HIDE DEF T
<1>10. Nat \subseteq T
  BY <1>8, <1>9, CountUp
<1>11. n \in T
  BY <1>1, <1>10
<1>12. g[1..n] \in S
  BY <1>1, <1>11 DEF T
<1> QED
  BY <1>1, <1>2, <1>12 DEF S

(***************************************************************************)
(* A search, through every step.                                           *)
(***************************************************************************)
SearchInv ==
    /\ search \in [state : {"none", "running", "done"}, age : 0..2, list : Seq(Entry)]
    /\ SearchList(search.list)

LEMMA PeersAreFinite == \A ids \in SUBSET Peers : IsFiniteSet(ids)
<1>1. IsFiniteSet(Ids) /\ Peers \subseteq Ids
  <2>1. 2^IdBits - 1 \in Int
    BY IdsAre, Powers DEF Power
  <2> QED
    BY <2>1, FS_Interval, TableAssumption DEF Ids
<1> QED
  BY <1>1, FS_Subset

LEMMA StartListIs ==
    ASSUME SearchInv, DOMAIN nodes \subseteq Peers
    PROVE  SearchList(StartList)
<1> DEFINE f == FindBucket(Target)
           near == UNION {NodesIn(g) : g \in AnswerBuckets(Target) \ {f}}
           own == NodesIn(FindBucket(MyId))
           one == InsertNodes(Reused, NodesIn(f))
           two == IF Len(one) < SearchNodes THEN InsertNodes(one, near) ELSE one
<1>1. \A g : NodesIn(g) \in SUBSET Peers
  BY DEF NodesIn
<1>2. NodesIn(f) \in SUBSET Peers /\ near \in SUBSET Peers /\ own \in SUBSET Peers
  BY <1>1
<1>3. StartList = IF Len(two) < SearchNodes THEN InsertNodes(two, own) ELSE two
  BY DEF StartList
<1> HIDE DEF f, near, own
<1>4. SearchList(one)
  BY <1>2, ReusedIs, PeersAreFinite, InsertNodesList DEF SearchInv
<1> HIDE DEF one
<1>5. SearchList(two)
  BY <1>2, <1>4, PeersAreFinite, InsertNodesList
<1> HIDE DEF two
<1> QED
  BY <1>2, <1>3, <1>5, PeersAreFinite, InsertNodesList

LEMMA SearchStepIs ==
    ASSUME NEW list, SearchList(list), NEW age \in 0..2, SearchStep(list, age)
    PROVE  SearchInv'
<1>1. list \in Seq(Entry) /\ \A i \in DOMAIN list : list[i] \in Entry
  BY ListEntry DEF SearchList
<1> DEFINE asked == [i \in DOMAIN list |-> IF i \in ToAsk(list) THEN AskedEntry(list[i]) ELSE list[i]]
<1>2. SearchList(asked)
  <2>1. DOMAIN asked = DOMAIN list /\ asked = [i \in DOMAIN asked |-> asked[i]]
    OBVIOUS
  <2>2. ASSUME NEW i \in DOMAIN list
        PROVE  asked[i] = list[i] \/ (list[i].pinged < 3 /\ asked[i] = AskedEntry(list[i]))
    BY DEF ToAsk, MayAsk
  <2> HIDE DEF asked
  <2>3. \A i \in DOMAIN list : asked[i] \in Entry /\ asked[i].id = list[i].id
    BY <1>1, <2>2, EntriesAre
  <2> QED
    BY <2>1, <2>3, SameList
<1>3. asked \in Seq(Entry)
  BY <1>2 DEF SearchList
<1>4. \/ search' = [state |-> "done", age |-> 0, list |-> list]
      \/ search' = [state |-> "running", age |-> age, list |-> list]
      \/ search' = [state |-> "running", age |-> 0, list |-> asked]
  BY DEF SearchStep
<1> HIDE DEF asked
<1>5. CASE search' = [state |-> "done", age |-> 0, list |-> list]
  BY <1>1, <1>5 DEF SearchInv
<1>6. CASE search' = [state |-> "running", age |-> age, list |-> list]
  BY <1>1, <1>6 DEF SearchInv
<1>7. CASE search' = [state |-> "running", age |-> 0, list |-> asked]
  BY <1>2, <1>3, <1>7 DEF SearchInv
<1> QED
  BY <1>4, <1>5, <1>6, <1>7

LEMMA ListChange ==
    ASSUME SearchInv, NEW list, SearchList(list), search' = [search EXCEPT !.list = list]
    PROVE  SearchInv'
BY DEF SearchInv, SearchList

\* One entry is changed, its node stays.
LEMMA EntryChange ==
    ASSUME SearchInv, NEW i \in DOMAIN search.list, NEW e \in Entry, e.id = search.list[i].id
    PROVE  SearchList([search.list EXCEPT ![i] = e])
<1> DEFINE list == search.list
           new == [list EXCEPT ![i] = e]
<1>1. SearchList(list) /\ \A j \in DOMAIN list : list[j] \in Entry
  BY ListEntry DEF SearchInv
<1>2. DOMAIN new = DOMAIN list /\ new = [j \in DOMAIN new |-> new[j]]
  OBVIOUS
<1>3. \A j \in DOMAIN list : new[j] = IF j = i THEN e ELSE list[j]
  OBVIOUS
<1>4. e.id = list[i].id
  OBVIOUS
<1> HIDE DEF list, new
<1>5. \A j \in DOMAIN list : new[j] \in Entry /\ new[j].id = list[j].id
  BY <1>1, <1>3, <1>4
<1>6. SearchList(new)
  BY <1>1, <1>2, <1>5, SameList
<1> QED
  BY <1>6 DEF list, new

LEMMA RemovedList ==
    ASSUME NEW list, SearchList(list), NEW i \in DOMAIN list
    PROVE  SearchList(RemoveAt(list, i))
<1> DEFINE l == Len(list)
           front == SubSeq(list, 1, i - 1)
           back == SubSeq(list, i + 1, l)
           new == RemoveAt(list, i)
           h == [k \in 1..l - 1 |-> IF k < i THEN k ELSE k + 1]
<1>1. l \in Nat /\ i \in 1..l /\ DOMAIN list = 1..l /\ \A k \in 1..l : list[k] \in Entry
  BY ListEntry
<1>2. front \in Seq(Entry) /\ Len(front) = i - 1 /\ \A k \in 1..i - 1 : front[k] = list[k]
  <2>1. \A k \in 1..i - 1 : list[k] \in Entry
    BY <1>1
  <2> HIDE DEF l
  <2> QED
    BY <1>1, <2>1, SubSeqProperties
<1>3. back \in Seq(Entry) /\ Len(back) = l - i /\ \A k \in 1..l - i : back[k] = list[k + i]
  <2>1. \A k \in i + 1..l : list[k] \in Entry
    BY <1>1
  <2>2. back \in Seq(Entry) /\ Len(back) = (IF i + 1 <= l THEN l - (i + 1) + 1 ELSE 0)
        /\ \A k \in 1..l - (i + 1) + 1 : back[k] = list[(i + 1) + k - 1]
    <3> HIDE DEF l
    <3>1. i + 1 \in Int /\ l \in Int
      BY <1>1
    <3> QED
      BY <2>1, <3>1, SubSeqProperties
  <2> HIDE DEF l, back
  <2> QED
    BY <1>1, <2>2
<1>4. new = front \o back
  BY DEF RemoveAt
<1> HIDE DEF l, front, back, new
<1>5. new \in Seq(Entry) /\ Len(new) = (i - 1) + (l - i)
      /\ \A k \in 1..(i - 1) + (l - i) : new[k] = IF k <= i - 1 THEN front[k] ELSE back[k - (i - 1)]
  <2>1. new \in Seq(Entry) /\ Len(new) = Len(front) + Len(back)
    BY <1>2, <1>3, <1>4, ConcatProperties
  <2>2. \A k \in 1..Len(front) + Len(back) :
           new[k] = IF k <= Len(front) THEN front[k] ELSE back[k - Len(front)]
    BY <1>2, <1>3, <1>4, ConcatProperties
  <2> QED
    BY <1>2, <1>3, <2>1, <2>2
<1>6. (i - 1) + (l - i) = l - 1 /\ l - 1 \in Nat
  BY <1>1
<1>7. ASSUME NEW k \in 1..l - 1 PROVE h[k] \in 1..l /\ new[k] = list[h[k]]
  <2>1. CASE k < i
    BY <1>1, <1>2, <1>5, <1>6, <2>1
  <2>2. CASE ~(k < i)
    <3>1. k - (i - 1) \in 1..l - i /\ (k - (i - 1)) + i = k + 1 /\ ~(k <= i - 1) /\ k + 1 \in 1..l
      BY <1>1, <2>2
    <3>2. back[k - (i - 1)] = list[k + 1]
      BY <1>3, <3>1
    <3>3. new[k] = back[k - (i - 1)]
      BY <1>5, <1>6, <3>1
    <3> QED
      BY <2>2, <3>1, <3>2, <3>3
  <2> QED
    BY <2>1, <2>2
<1>8. \A k, m \in 1..l - 1 : k < m => h[k] < h[m]
  BY <1>1
<1> HIDE DEF h
<1>9. new \in [1..l - 1 -> Entry]
  <2>1. Len(new) = l - 1
    BY <1>5, <1>6
  <2> QED
    BY <1>5, <2>1
<1>10. l - 1 <= Len(list)
  BY <1>1 DEF l
<1>11. \A k \in 1..l - 1 : h[k] \in DOMAIN list /\ new[k].id = list[h[k]].id
  BY <1>1, <1>7
<1>12. IsPart(new, list, l - 1, h)
  BY <1>6, <1>8, <1>9, <1>10, <1>11, Zenon DEF IsPart
<1>13. SearchList(new)
  BY <1>12, PartList
<1> QED
  BY <1>13 DEF new

LEMMA SomeIndex ==
    ASSUME NEW list, SearchList(list), NEW s \in SUBSET DOMAIN list, s # {}
    PROVE  Max(s) \in s /\ Min(s) \in s
<1> DEFINE n == Len(list)
<1>1. n \in Nat /\ s \in SUBSET (1..n)
  BY ListEntry
<1> HIDE DEF n
<1>2. IsFiniteSet(s) /\ \A x \in s : x \in Int
  BY <1>1, IndexSet
<1> QED
  BY <1>2, MaxIs, MinIs

LEMMA SearchInvInit ==
    ASSUME Init
    PROVE  SearchInv
<1>1. search = [state |-> "none", age |-> 0, list |-> <<>>]
  BY DEF Init, SearchInit
<1>2. <<>> \in Seq(Entry) /\ Len(<<>>) = 0 /\ DOMAIN <<>> = {}
  OBVIOUS
<1>3. SearchList(<<>>)
  BY <1>2, SizesAre DEF SearchList, Ascending
<1> QED
  BY <1>1, <1>2, <1>3 DEF SearchInv

LEMMA SearchInvStep ==
    ASSUME ControlInv, SearchInv, DOMAIN nodes \subseteq Peers, [Next]_vars
    PROVE  SearchInv'
<1>0. /\ scenario \in Scenarios /\ todo \in Seq(Call) /\ SearchList(search.list)
      /\ search \in [state : {"none", "running", "done"}, age : 0..2, list : Seq(Entry)]
      /\ \A i \in DOMAIN search.list : search.list[i] \in Entry
  BY ListEntry DEF ControlInv, SearchInv
<1>1. CASE search' = search
  BY <1>0, <1>1 DEF SearchInv
<1>2. CASE Message
  <2>1. search' = search \/ \E from \in scenario.peers : FlushSearchNode(from)
    BY <1>2 DEF Message, Request, GetPeers, AnnouncePeer, Pong, NodesFound, PeersFound,
                BrokenReply, Calls
  <2>2. ASSUME NEW from, FlushSearchNode(from) PROVE SearchInv'
    <3> DEFINE found == {i \in DOMAIN search.list : search.list[i].id = from}
    <3>1. CASE found = {}
      BY <1>1, <2>2, <3>1 DEF FlushSearchNode
    <3>2. CASE found # {}
      <4>1. search' = [search EXCEPT !.list = RemoveAt(search.list, Min(found))]
        BY <2>2, <3>2 DEF FlushSearchNode
      <4>2. found \in SUBSET DOMAIN search.list
        OBVIOUS
      <4>3. Min(found) \in DOMAIN search.list
        BY <1>0, <3>2, <4>2, SomeIndex, Zenon
      <4> HIDE DEF found
      <4>4. SearchList(RemoveAt(search.list, Min(found)))
        BY <1>0, <4>3, RemovedList
      <4> QED
        BY <4>1, <4>4, ListChange
    <3> QED
      BY <3>1, <3>2
  <2> QED
    BY <1>1, <2>1, <2>2
<1>3. CASE Step
  <2> DEFINE c == Head(todo)
  <2>1. c \in Call
    BY <1>0, <1>3, HeadTailProperties DEF Step
  <2> HIDE DEF c
  <2>2. c.call \in {"new_node", "insert_search_node", "search_send_get_peers"}
    BY <2>1 DEF Call, AskCall
  <2>3. CASE c.call = "new_node"
    BY <1>1, <1>3, <2>3 DEF Step, c
  <2>4. CASE c.call = "insert_search_node"
    <3>1. search' = [search EXCEPT !.list = InsertSearchNode(search.list, c.id, c.replied)]
      BY <1>3, <2>4 DEF Step, c, InsertCall
    <3>2. SearchList(InsertSearchNode(search.list, c.id, c.replied))
      BY <1>0, <2>1, <2>4, CallIs, InsertSearchList
    <3> QED
      BY <3>1, <3>2, ListChange
  <2>5. CASE c.call = "search_send_get_peers"
    <3> DEFINE may == {i \in DOMAIN search.list : MayAsk(search.list[i])}
               i == Max(may)
    <3>1. SearchSendGetPeers
      BY <1>3, <2>5 DEF Step, c
    <3>2. CASE may = {}
      BY <1>1, <3>1, <3>2 DEF SearchSendGetPeers
    <3>3. CASE may # {}
      <4>1. search' = [search EXCEPT !.list[i] = AskedEntry(search.list[i])]
        BY <3>1, <3>3 DEF SearchSendGetPeers
      <4>2. i \in DOMAIN search.list /\ MayAsk(search.list[i])
        <5>1. may \in SUBSET DOMAIN search.list
          OBVIOUS
        <5>2. i \in may
          BY <1>0, <3>3, <5>1, SomeIndex, Zenon
        <5> QED
          BY <5>2
      <4> HIDE DEF i
      <4>3. AskedEntry(search.list[i]) \in Entry /\ AskedEntry(search.list[i]).id = search.list[i].id
        BY <1>0, <4>2, EntriesAre DEF MayAsk
      <4>4. SearchList([search.list EXCEPT ![i] = AskedEntry(search.list[i])])
        BY <4>2, <4>3, EntryChange
      <4>5. search' = [search EXCEPT !.list = [search.list EXCEPT ![i] = AskedEntry(search.list[i])]]
        BY <4>1
      <4> QED
        BY <4>4, <4>5, ListChange
    <3> QED
      BY <3>2, <3>3
  <2> QED
    BY <2>2, <2>3, <2>4, <2>5
<1>4. CASE TableJob \/ StorageJob
  BY <1>1, <1>4 DEF TableJob, StorageJob
<1>5. CASE StartSearch
  <2> DEFINE age == IF search.state = "none" THEN 2 ELSE search.age
  <2>1. SearchStep(StartList, age)
    BY <1>5 DEF StartSearch, DhtSearch
  <2>2. age \in 0..2
    <3>1. search.age \in 0..2 /\ 2 \in 0..2
      BY <1>0
    <3> QED
      BY <3>1
  <2> HIDE DEF age
  <2> QED
    BY <2>1, <2>2, StartListIs, SearchStepIs
<1>6. CASE SearchJob
  <2>1. CASE PeriodicSearch
    <3>1. SearchStep(search.list, search.age) /\ search.age \in 0..2
      BY <1>0, <2>1 DEF PeriodicSearch
    <3> QED
      BY <1>0, <3>1, SearchStepIs
  <2>2. CASE ExpireSearch
    <3>1. search' = [state |-> "none", age |-> 0, list |-> <<>>]
      BY <2>2 DEF ExpireSearch
    <3>2. <<>> \in Seq(Entry) /\ Len(<<>>) = 0 /\ DOMAIN <<>> = {}
      OBVIOUS
    <3>3. SearchList(<<>>)
      BY <3>2, SizesAre DEF SearchList, Ascending
    <3> QED
      BY <3>1, <3>2, <3>3 DEF SearchInv
  <2> QED
    BY <1>6, <2>1, <2>2 DEF SearchJob
<1>7. ASSUME NEW i \in DOMAIN search.list, NEW e \in Entry, e.id = search.list[i].id,
             search' = [search EXCEPT !.list = [search.list EXCEPT ![i] = e]]
      PROVE  SearchInv'
  <2>1. SearchList([search.list EXCEPT ![i] = e])
    BY <1>7, EntryChange
  <2> QED
    BY <1>7, <2>1, ListChange
<1>8. CASE RequestTimesOut
  <2>1. PICK i \in DOMAIN search.list : search' = [search EXCEPT !.list[i].asked = FALSE]
    BY <1>8 DEF RequestTimesOut, RequestAges
  <2> DEFINE e == [search.list[i] EXCEPT !.asked = FALSE]
  <2>2. search' = [search EXCEPT !.list = [search.list EXCEPT ![i] = e]]
    BY <2>1
  <2>3. e \in Entry
    BY <1>0, FieldsSet
  <2>4. e.id = search.list[i].id
    BY <1>0 DEF Entry
  <2> HIDE DEF e
  <2> QED
    BY <1>7, <2>2, <2>3, <2>4
<1>9. CASE SearchAges
  <2>1. CASE StepAges
    <3>1. search' = [search EXCEPT !.age = search.age + 1] /\ search.age < 2
      BY <2>1 DEF StepAges
    <3>2. search.age \in 0..2 /\ search.age + 1 \in 0..2
      BY <1>0, <3>1
    <3> QED
      BY <1>0, <3>1, <3>2 DEF SearchInv
  <2>2. CASE ~StepAges
    <3>1. PICK i \in DOMAIN search.list : search' = [search EXCEPT !.list[i].recent = FALSE]
      BY <1>9, <2>2 DEF SearchAges, ReplyAges
    <3> DEFINE e == [search.list[i] EXCEPT !.recent = FALSE]
    <3>2. search' = [search EXCEPT !.list = [search.list EXCEPT ![i] = e]]
      BY <3>1
    <3>3. e \in Entry
      BY <1>0, FieldsSet
    <3>4. e.id = search.list[i].id
      BY <1>0 DEF Entry
    <3> HIDE DEF e
    <3> QED
      BY <1>7, <3>2, <3>3, <3>4
  <2> QED
    BY <2>1, <2>2
<1>10. CASE UNCHANGED vars
  BY <1>1, <1>10 DEF vars
<1> QED
  BY <1>2, <1>3, <1>4, <1>5, <1>6, <1>8, <1>9, <1>10 DEF Next

(***************************************************************************)
(* What a step does to the routing table.                                  *)
(***************************************************************************)
TableStep ==
    \/ UNCHANGED tableVars
    \/ \E id \in Peers, confirm \in 0..2 : NewNode(id, confirm)
    \/ \E id \in Peers : Pinged(id) \/ BlacklistNode(id) \/ NodeAges(id)
    \/ \E ids \in SUBSET Peers : PingedAll(ids)
    \/ ExpireBuckets

LEMMA TableSteps ==
    ASSUME ControlInv, SearchInv, DOMAIN nodes \subseteq Peers, [Next]_vars
    PROVE  TableStep
<1>0. scenario \in Scenarios /\ todo \in Seq(Call) /\ scenario.peers \subseteq Peers
  BY ScenarioIs DEF ControlInv
<1>a. \A i \in DOMAIN search.list : search.list[i].id \in Peers
  BY ListEntry DEF SearchInv
<1>b. \A i \in DOMAIN StartList : StartList[i].id \in Peers
  BY StartListIs, ListEntry
<1>1. CASE UNCHANGED vars \/ SearchAges \/ RequestTimesOut \/ StorageJob
  BY <1>1 DEF vars, SearchAges, StepAges, ReplyAges, RequestTimesOut, RequestAges,
              StorageJob, TableStep, tableVars
<1>2. CASE Message
  <2>1. UNCHANGED tableVars \/ \E id \in scenario.peers : BlacklistNode(id)
    BY <1>2 DEF Message, Request, GetPeers, AnnouncePeer, Pong, NodesFound, PeersFound,
                BrokenReply, Calls
  <2> QED
    BY <1>0, <2>1 DEF TableStep
<1>3. ASSUME NEW list, \A i \in DOMAIN list : list[i].id \in Peers, NEW age, SearchStep(list, age)
      PROVE  TableStep
  <2>1. {list[i].id : i \in ToAsk(list)} \in SUBSET Peers
    BY <1>3 DEF ToAsk
  <2>2. UNCHANGED tableVars \/ PingedAll({list[i].id : i \in ToAsk(list)})
    BY <1>3 DEF SearchStep
  <2> QED
    BY <2>1, <2>2 DEF TableStep
<1>4. CASE Step
  <2> DEFINE c == Head(todo)
  <2>1. c \in Call
    BY <1>0, <1>4, HeadTailProperties DEF Step
  <2> HIDE DEF c
  <2>2. c.call \in {"new_node", "insert_search_node", "search_send_get_peers"}
    BY <2>1 DEF Call, AskCall
  <2>3. CASE c.call = "new_node"
    <3>1. NewNode(c.id, c.confirm)
      BY <1>4, <2>3 DEF Step, c
    <3> QED
      BY <2>1, <2>3, <3>1, CallIs DEF TableStep
  <2>4. CASE c.call = "insert_search_node"
    <3>1. InsertCall(c.id, c.replied)
      BY <1>4, <2>4 DEF Step, c
    <3> QED
      BY <3>1 DEF TableStep, InsertCall
  <2>5. CASE c.call = "search_send_get_peers"
    <3> DEFINE may == {i \in DOMAIN search.list : MayAsk(search.list[i])}
    <3>1. SearchSendGetPeers
      BY <1>4, <2>5 DEF Step, c
    <3>2. CASE may = {}
      BY <3>1, <3>2 DEF SearchSendGetPeers, TableStep
    <3>3. CASE may # {}
      <4>1. PingedAll({search.list[Max(may)].id})
        BY <3>1, <3>3 DEF SearchSendGetPeers
      <4>2. Max(may) \in DOMAIN search.list
        <5>1. may \in SUBSET DOMAIN search.list
          OBVIOUS
        <5>2. Max(may) \in may
          BY <3>3, <5>1, SomeIndex, Zenon DEF SearchInv
        <5> QED
          BY <5>2
      <4>3. search.list[Max(may)].id \in Peers
        BY <1>a, <4>2
      <4> QED
        BY <4>1, <4>3 DEF TableStep
    <3> QED
      BY <3>2, <3>3
  <2> QED
    BY <2>2, <2>3, <2>4, <2>5
<1>5. CASE TableJob
  BY <1>5 DEF TableJob, Maintenance, TableStep
<1>6. CASE StartSearch
  BY <1>b, <1>3, <1>6 DEF StartSearch, DhtSearch
<1>7. CASE SearchJob
  <2>1. CASE PeriodicSearch
    BY <1>a, <1>3, <2>1 DEF PeriodicSearch
  <2>2. CASE ExpireSearch
    BY <2>2 DEF ExpireSearch, TableStep
  <2> QED
    BY <1>7, <2>1, <2>2 DEF SearchJob
<1> QED
  BY <1>1, <1>2, <1>4, <1>5, <1>6, <1>7 DEF Next

(***************************************************************************)
(* The buckets, by their first ids F: the one an id belongs to, the one    *)
(* after a bucket, and the cells they make.                                *)
(***************************************************************************)
BucketIn(F, id) == Max({f \in F : f <= id})
NextIn(F, f) == IF \E g \in F : g > f THEN Min({g \in F : g > f}) ELSE -1

BucketTree(F) ==
    /\ F \subseteq Ids /\ 0 \in F
    /\ \A f \in F : \E d \in 0..IdBits : Cell(f, NextIn(F, f), d)

PathCut(F) ==
    \A f \in F : NextIn(F, f) # -1 =>
        \/ CommonBits(f, MyId) # CommonBits(NextIn(F, f), MyId)
        \/ BucketIn(F, MyId) = f \/ BucketIn(F, MyId) = NextIn(F, f)

LEMMA IdSets ==
    /\ \A id \in Ids : id \in Nat /\ id \in Int /\ 0 <= id
    /\ \A F \in SUBSET Ids : IsFiniteSet(F) /\ \A f \in F : f \in Nat /\ f \in Int
<1>1. \A id \in Ids : id \in Nat /\ id \in Int /\ 0 <= id
  BY IdsAre
<1>2. IsFiniteSet(Ids)
  <2>1. Power(IdBits) - 1 \in Int
    BY IdsAre, Powers
  <2> QED
    BY <2>1, FS_Interval, IdsAre
<1> QED
  BY <1>1, <1>2, FS_Subset

LEMMA BucketIs ==
    ASSUME NEW F, F \subseteq Ids, 0 \in F, NEW id \in Ids
    PROVE  /\ BucketIn(F, id) \in F /\ BucketIn(F, id) <= id
           /\ \A g \in F : g <= id => g <= BucketIn(F, id)
<1> DEFINE S == {f \in F : f <= id}
<1>1. S \in SUBSET Ids /\ 0 \in S /\ \A g \in F : g \in S <=> g <= id
  BY IdSets
<1>2. \A g \in S : g \in F /\ g <= id
  OBVIOUS
<1> HIDE DEF S
<1>3. Max(S) \in S /\ \A g \in S : Max(S) >= g
  BY <1>1, IdSets, MaxIs
<1>4. BucketIn(F, id) = Max(S)
  BY DEF BucketIn, S
<1>5. \A g \in F : g <= id => g <= Max(S)
  <2>1. \A g \in F : g \in Int /\ Max(S) \in Int
    BY <1>1, <1>3, IdSets
  <2> QED
    BY <1>1, <1>3, <2>1
<1> QED
  BY <1>2, <1>3, <1>4, <1>5

LEMMA NextIs ==
    ASSUME NEW F, F \subseteq Ids, NEW f \in F
    PROVE  \/ NextIn(F, f) = -1 /\ \A g \in F : g <= f
           \/ /\ NextIn(F, f) \in F /\ f < NextIn(F, f) /\ NextIn(F, f) # -1
              /\ \A g \in F : f < g => NextIn(F, f) <= g
<1>0. \A g \in F : g \in Int /\ g \in Nat
  BY IdSets
<1> DEFINE S == {g \in F : g > f}
<1>1. CASE S = {}
  BY <1>0, <1>1 DEF NextIn
<1>2. CASE S # {}
  <2>1. S \in SUBSET Ids /\ \A g \in F : g \in S <=> g > f
    OBVIOUS
  <2>2. NextIn(F, f) = Min(S)
    BY <1>2 DEF NextIn
  <2>3. \A g \in S : g \in F /\ g > f
    OBVIOUS
  <2> HIDE DEF S
  <2>4. Min(S) \in S /\ \A g \in S : Min(S) <= g
    BY <1>2, <2>1, IdSets, MinIs
  <2>5. Min(S) \in F /\ Min(S) \in Nat /\ f < Min(S)
    BY <1>0, <2>3, <2>4
  <2>6. \A g \in F : f < g => Min(S) <= g
    BY <1>0, <2>1, <2>4
  <2>7. Min(S) # -1
    BY <2>5
  <2> QED
    BY <2>2, <2>5, <2>6, <2>7
<1> QED
  BY <1>1, <1>2

LEMMA BucketRange ==
    ASSUME NEW F, F \subseteq Ids, 0 \in F, NEW f \in F, NEW id \in Ids
    PROVE  id \in IdRange(f, NextIn(F, f)) <=> BucketIn(F, id) = f
<1> DEFINE b == BucketIn(F, id)
           n == NextIn(F, f)
<1>1. b \in F /\ b <= id /\ \A g \in F : g <= id => g <= b
  BY BucketIs
<1>2. \/ n = -1 /\ \A g \in F : g <= f
      \/ n \in F /\ f < n /\ n # -1 /\ \A g \in F : f < g => n <= g
  BY NextIs
<1>3. \A g \in F : g \in Int
  BY IdSets
<1>4. id \in Int
  BY IdSets
<1>5. id \in IdRange(f, n) <=> f <= id /\ (n = -1 \/ id < n)
  BY DEF IdRange
<1> HIDE DEF b, n
<1>6. ASSUME b = f PROVE f <= id /\ (n = -1 \/ id < n)
  <2>1. f <= id /\ id \in Int
    BY <1>1, <1>4, <1>6
  <2>2. ASSUME n # -1 PROVE id < n
    <3>1. n \in F /\ f < n /\ n \in Int /\ f \in Int
      BY <1>2, <1>3, <2>2
    <3>2. n <= id => n <= f
      BY <1>1, <1>6, <3>1
    <3> QED
      BY <2>1, <3>1, <3>2
  <2> QED
    BY <2>1, <2>2
<1>7. ASSUME f <= id, n = -1 \/ id < n PROVE b = f
  <2>1. f \in Int /\ b \in Int /\ b \in F /\ f <= b /\ b <= id
    BY <1>1, <1>3, <1>7
  <2>2. CASE n = -1
    <3>1. b <= f
      BY <1>2, <1>3, <2>1, <2>2
    <3> QED
      BY <2>1, <3>1
  <2>3. CASE n # -1
    <3>1. n \in F /\ n \in Int /\ id < n /\ (f < b => n <= b)
      BY <1>2, <1>3, <1>7, <2>1, <2>3
    <3> QED
      BY <1>4, <2>1, <3>1
  <2> QED
    BY <2>2, <2>3
<1> QED
  BY <1>5, <1>6, <1>7 DEF b, n

LEMMA CutTree ==
    ASSUME NEW F, BucketTree(F), NEW f \in F,
           NEW m, m = BucketMiddle(f, NextIn(F, f)), m # -1,
           NEW G, G = F \cup {m}
    PROVE  /\ BucketTree(G) /\ m \in Ids /\ m \notin F
           /\ NextIn(G, f) = m /\ NextIn(G, m) = NextIn(F, f)
           /\ \A g \in F : g # f => NextIn(G, g) = NextIn(F, g)
           /\ \A id \in Ids : IF BucketIn(F, id) = f
                              THEN BucketIn(G, id) = f \/ BucketIn(G, id) = m
                              ELSE BucketIn(G, id) = BucketIn(F, id)
           /\ \E d \in Bits : /\ Cell(f, NextIn(F, f), d)
                              /\ Cell(f, m, d + 1) /\ Cell(m, NextIn(F, f), d + 1)
<1> DEFINE n == NextIn(F, f)
<1>1. F \subseteq Ids /\ 0 \in F /\ \A g \in F : g \in Int
  BY IdSets DEF BucketTree
<1>2. PICK d \in 0..IdBits : Cell(f, n, d)
  BY DEF BucketTree
<1>3. /\ m \in Ids /\ m \in Int /\ f < m /\ (n # -1 => m < n)
      /\ d \in Bits /\ Cell(f, m, d + 1) /\ Cell(m, n, d + 1)
  <2>1. m \in Ids /\ f < m /\ (n # -1 => m < n) /\ d \in Bits /\ Cell(f, m, d + 1) /\ Cell(m, n, d + 1)
    BY <1>2, MiddleSplits
  <2> QED
    BY <2>1, IdSets
<1>4. \/ n = -1 /\ \A g \in F : g <= f
      \/ n \in F /\ f < n /\ n # -1 /\ \A g \in F : f < g => n <= g
  BY <1>1, NextIs
<1> HIDE DEF n
<1>5. m \notin F /\ \A g \in F : g < m <=> g <= f
  <2>1. ASSUME NEW g \in F PROVE (g <= f => g < m) /\ (~(g <= f) => m < g) /\ g \in Int
    <3>1. g \in Int /\ f \in Int /\ m \in Int /\ f < m
      BY <1>1, <1>3
    <3>2. ASSUME ~(g <= f) PROVE m < g
      <4>1. n \in F /\ n # -1 /\ n <= g
        BY <1>4, <3>1, <3>2
      <4>2. m < n /\ n \in Int
        BY <1>1, <1>3, <4>1
      <4> QED
        BY <3>1, <4>1, <4>2
    <3> QED
      BY <3>1, <3>2
  <2>2. \A g \in F : g < m <=> g <= f
    BY <1>3, <2>1
  <2>3. m \notin F
    BY <1>3, <2>1
  <2> QED
    BY <2>2, <2>3
<1>6. G \subseteq Ids /\ 0 \in G /\ m \in G /\ f \in G /\ \A g \in G : g \in Int
  BY <1>1, <1>3
<1>7. ASSUME NEW g \in G
      PROVE  \/ NextIn(G, g) = -1 /\ \A h \in G : h <= g
             \/ /\ NextIn(G, g) \in G /\ g < NextIn(G, g) /\ NextIn(G, g) # -1
                /\ \A h \in G : g < h => NextIn(G, g) <= h
  BY <1>6, NextIs
<1>8. NextIn(G, f) = m
  <2> DEFINE x == NextIn(G, f)
  <2>1. \/ x = -1 /\ \A h \in G : h <= f
        \/ x \in G /\ f < x /\ x # -1 /\ \A h \in G : f < h => x <= h
    BY <1>6, <1>7
  <2> HIDE DEF x
  <2>2. x \in G /\ f < x /\ x <= m
    BY <1>3, <1>6, <2>1
  <2>3. x = m \/ x \in F
    BY <2>2
  <2>4. CASE x \in F
    <3>1. x \in Int /\ m \in Int /\ f \in Int /\ x # m
      BY <1>1, <1>3, <1>5, <2>4
    <3>2. x < m
      BY <2>2, <3>1
    <3>3. x <= f
      BY <1>5, <2>4, <3>2
    <3> QED
      BY <2>2, <3>1, <3>3
  <2> QED
    BY <2>3, <2>4 DEF x
<1>9. NextIn(G, m) = n
  <2> DEFINE x == NextIn(G, m)
  <2>1. \/ x = -1 /\ \A h \in G : h <= m
        \/ x \in G /\ m < x /\ x # -1 /\ \A h \in G : m < h => x <= h
    BY <1>6, <1>7
  <2> HIDE DEF x
  <2>2. CASE n = -1
    <3>1. \A h \in G : h <= m
      BY <1>1, <1>3, <1>4, <2>2
    <3>2. ~(x \in G /\ m < x)
      <4>1. x \in G => x \in Int /\ x <= m
        BY <1>6, <3>1
      <4> QED
        BY <1>3, <4>1
    <3> QED
      BY <2>1, <2>2, <3>2 DEF x
  <2>3. CASE n # -1
    <3>1. n \in F /\ f < n /\ m < n /\ \A g \in F : f < g => n <= g
      BY <1>3, <1>4, <2>3
    <3>2. x \in G /\ m < x /\ x <= n
      BY <1>3, <1>6, <2>1, <3>1
    <3>3. x \in F
      BY <1>3, <3>2
    <3>4. n <= x
      BY <1>1, <1>3, <3>1, <3>2, <3>3
    <3> QED
      BY <1>1, <3>1, <3>2, <3>3, <3>4 DEF x
  <2> QED
    BY <2>2, <2>3
<1>10. ASSUME NEW g \in F, g # f PROVE NextIn(G, g) = NextIn(F, g)
  <2> DEFINE x == NextIn(G, g)
             y == NextIn(F, g)
  <2>1. \/ x = -1 /\ \A h \in G : h <= g
        \/ x \in G /\ g < x /\ x # -1 /\ \A h \in G : g < h => x <= h
    BY <1>6, <1>7
  <2>2. \/ y = -1 /\ \A h \in F : h <= g
        \/ y \in F /\ g < y /\ y # -1 /\ \A h \in F : g < h => y <= h
    BY <1>1, NextIs
  <2> HIDE DEF x, y
  <2>3. g \in Int /\ f \in Int
    BY <1>1
  <2>4. CASE g < f
    <3>1. y \in F /\ g < y /\ y <= f /\ \A h \in F : g < h => y <= h
      BY <1>1, <2>2, <2>3, <2>4
    <3>2. x \in G /\ g < x /\ x <= f
      BY <1>6, <2>1, <2>3, <2>4
    <3>3. x \in F
      BY <1>3, <2>3, <3>2
    <3>4. y <= x /\ x <= y
      BY <1>6, <2>1, <2>3, <3>1, <3>2, <3>3
    <3> QED
      BY <1>1, <3>1, <3>3, <3>4 DEF x, y
  <2>5. CASE f < g
    <3>1. m < g
      BY <1>3, <1>5, <2>3, <2>5
    <3>2. \A h \in G : g < h => h \in F
      BY <1>3, <2>3, <3>1
    <3>3. CASE y = -1
      <4>1. \A h \in F : h <= g
        BY <1>6, <2>2, <2>3, <3>3
      <4>2. \A h \in G : h <= g
        BY <1>3, <2>3, <3>1, <4>1
      <4>3. ~(x \in G /\ g < x)
        <5>1. x \in G => x \in Int /\ x <= g
          BY <1>6, <4>2
        <5> QED
          BY <2>3, <5>1
      <4> QED
        BY <2>1, <3>3, <4>3 DEF x, y
    <3>4. CASE y # -1
      <4>1. y \in F /\ y \in G /\ g < y /\ \A h \in F : g < h => y <= h
        BY <2>2, <3>4
      <4>2. x \in G /\ g < x /\ x <= y
        BY <1>6, <2>1, <2>3, <4>1
      <4>3. x \in F /\ y <= x
        BY <3>2, <4>1, <4>2
      <4> QED
        BY <1>1, <4>1, <4>2, <4>3 DEF x, y
    <3> QED
      BY <3>3, <3>4
  <2> QED
    BY <1>10, <2>3, <2>4, <2>5
<1>11. BucketTree(G)
  <2>1. ASSUME NEW g \in G PROVE \E e \in 0..IdBits : Cell(g, NextIn(G, g), e)
    <3>0. d + 1 \in 0..IdBits
      BY <1>3, IdsAre DEF Bits
    <3>1. CASE g = f
      BY <1>3, <1>8, <3>0, <3>1
    <3>2. CASE g = m
      BY <1>3, <1>9, <3>0, <3>2
    <3>3. CASE g # f /\ g # m
      <4>1. g \in F
        BY <3>3
      <4> QED
        BY <1>10, <3>3, <4>1 DEF BucketTree
    <3> QED
      BY <3>1, <3>2, <3>3
  <2> QED
    BY <1>6, <2>1 DEF BucketTree
<1>12. ASSUME NEW id \in Ids
       PROVE  IF BucketIn(F, id) = f THEN BucketIn(G, id) = f \/ BucketIn(G, id) = m
                                     ELSE BucketIn(G, id) = BucketIn(F, id)
  <2> DEFINE a == BucketIn(F, id)
             b == BucketIn(G, id)
  <2>1. a \in F /\ a <= id /\ \A g \in F : g <= id => g <= a
    BY <1>1, BucketIs
  <2>2. b \in G /\ b <= id /\ \A g \in G : g <= id => g <= b
    BY <1>6, BucketIs
  <2>3. id \in Int
    BY IdSets
  <2> HIDE DEF a, b
  <2>4. CASE b = m
    <3>1. a = f
      <4>1. f <= a /\ a <= m
        BY <1>1, <1>3, <1>6, <2>1, <2>2, <2>3, <2>4
      <4>2. a < m
        BY <1>1, <1>3, <1>5, <2>1, <4>1
      <4>3. a <= f
        BY <1>5, <2>1, <4>2
      <4> QED
        BY <1>1, <2>1, <4>1, <4>3
    <3> QED
      BY <2>4, <3>1 DEF a, b
  <2>5. CASE b # m
    <3>1. b \in F /\ a <= b /\ b <= a
      BY <1>1, <2>1, <2>2, <2>5
    <3> QED
      BY <1>1, <2>1, <3>1 DEF a, b
  <2> QED
    BY <2>4, <2>5
<1>13. \E e \in Bits : Cell(f, n, e) /\ Cell(f, m, e + 1) /\ Cell(m, n, e + 1)
  BY <1>2, <1>3
<1> QED
  BY <1>3, <1>5, <1>8, <1>9, <1>10, <1>11, <1>12, <1>13 DEF n

\* The own bucket is cut: what was said of its neighbours is still true.
LEMMA CutsApart ==
    ASSUME NEW first, NEW next, NEW d, Cell(first, next, d), MyId \in IdRange(first, next),
           NEW id \in Ids, id \notin IdRange(first, next)
    PROVE  CommonBits(id, MyId) < d
<1>1. MyId \in Ids
  BY TableAssumption
<1>2. PathOf(MyId, d) = PathOf(first, d) /\ PathOf(id, d) # PathOf(first, d)
  BY <1>1, InCell
<1>3. d \in 0..IdBits /\ d \in Int
  BY DEF Cell
<1>4. ~(d <= CommonBits(id, MyId))
  BY <1>1, <1>2, <1>3, CommonPath
<1>5. CommonBits(id, MyId) \in Int
  BY <1>1, CommonIs
<1> QED
  BY <1>3, <1>4, <1>5

LEMMA CutsHalf ==
    ASSUME NEW first, NEW next, NEW d, Cell(first, next, d), MyId \in IdRange(first, next),
           NEW half, NEW end, d + 1 \in 0..IdBits, Cell(half, end, d + 1),
           half \in IdRange(first, next), MyId \notin IdRange(half, end)
    PROVE  CommonBits(half, MyId) = d
<1>1. MyId \in Ids /\ half \in Ids
  BY TableAssumption DEF IdRange
<1>2. PathOf(MyId, d) = PathOf(first, d) /\ PathOf(half, d) = PathOf(first, d)
  BY <1>1, InCell
<1>3. PathOf(MyId, d + 1) # PathOf(half, d + 1)
  BY <1>1, InCell
<1>4. d \in 0..IdBits /\ d \in Int
  BY DEF Cell
<1>5. CommonBits(half, MyId) \in Int
  BY <1>1, CommonIs
<1>6. d <= CommonBits(half, MyId)
  <2>1. PathOf(half, d) = PathOf(MyId, d)
    BY <1>2
  <2> QED
    BY <1>1, <1>4, <2>1, CommonPath
<1>7. ~(d + 1 <= CommonBits(half, MyId))
  BY <1>1, <1>3, CommonPath
<1> QED
  BY <1>4, <1>5, <1>6, <1>7

LEMMA CutPath ==
    ASSUME NEW F, BucketTree(F), PathCut(F), NEW f \in F, BucketIn(F, MyId) = f,
           NEW m, m = BucketMiddle(f, NextIn(F, f)), m # -1,
           NEW G, G = F \cup {m}
    PROVE  PathCut(G)
<1> DEFINE n == NextIn(F, f)
           mine == BucketIn(G, MyId)
<1>1. MyId \in Ids
  BY TableAssumption
<1>2. F \subseteq Ids /\ 0 \in F /\ \A g \in F : g \in Int /\ g \in Ids
  BY IdSets DEF BucketTree
<1>3. /\ BucketTree(G) /\ m \in Ids /\ m \notin F /\ m \in Int
      /\ NextIn(G, f) = m /\ NextIn(G, m) = n
      /\ \A g \in F : g # f => NextIn(G, g) = NextIn(F, g)
      /\ mine = f \/ mine = m
  <2>1. /\ BucketTree(G) /\ m \in Ids /\ m \notin F
        /\ NextIn(G, f) = m /\ NextIn(G, m) = n
        /\ \A g \in F : g # f => NextIn(G, g) = NextIn(F, g)
    BY CutTree
  <2>2. mine = f \/ mine = m
    BY <1>1, CutTree
  <2>3. m \in Int
    BY <2>1, IdSets
  <2> QED
    BY <2>1, <2>2, <2>3
<1>4. PICK d \in Bits : Cell(f, n, d) /\ Cell(f, m, d + 1) /\ Cell(m, n, d + 1)
  BY CutTree
<1>5. d \in Int /\ d + 1 \in 0..IdBits
  BY IdsAre DEF Bits
<1>6. G \subseteq Ids /\ 0 \in G /\ f \in G /\ m \in G
  BY <1>2, <1>3
<1>7. MyId \in IdRange(f, n)
  BY <1>1, <1>2, BucketRange
<1>8. \A g \in G : MyId \in IdRange(g, NextIn(G, g)) <=> mine = g
  BY <1>1, <1>6, BucketRange
<1>9. \A g \in F : g # f => g \notin IdRange(f, n)
  <2>1. ASSUME NEW g \in F, g # f PROVE g \notin IdRange(f, n)
    <3>1. BucketIn(F, g) \in F /\ BucketIn(F, g) <= g /\ \A h \in F : h <= g => h <= BucketIn(F, g)
      BY <1>2, BucketIs
    <3>2. BucketIn(F, g) = g
      <4>1. g \in Int /\ g <= g /\ BucketIn(F, g) \in Int
        BY <1>2, <3>1
      <4>2. g <= BucketIn(F, g)
        BY <3>1, <4>1
      <4> QED
        BY <3>1, <4>1, <4>2
    <3>3. g \in IdRange(f, n) <=> BucketIn(F, g) = f
      BY <1>2, BucketRange
    <3> QED
      BY <2>1, <3>2, <3>3
  <2> QED
    BY <2>1
<1>10. f \in IdRange(f, n) /\ m \in IdRange(f, n)
  <2>1. f < m /\ (n # -1 => m < n) /\ f \in Int
    <3>1. d # IdBits
      BY IdsAre DEF Bits
    <3> QED
      BY <1>2, <1>4, <3>1, MiddleSplits
  <2>2. n # -1 => n \in Int
    BY <1>4, CellIs, IdSets
  <2> QED
    BY <1>2, <1>3, <2>1, <2>2 DEF IdRange
<1> HIDE DEF n, mine
<1>11. \A g \in F : g # f => CommonBits(g, MyId) < d /\ CommonBits(g, MyId) \in Int
  <2>1. \A g \in F : g # f => CommonBits(g, MyId) < d
    BY <1>2, <1>4, <1>7, <1>9, CutsApart
  <2>2. \A g \in F : CommonBits(g, MyId) \in Int
    BY <1>1, <1>2, CommonIs
  <2> QED
    BY <2>1, <2>2
<1>12. mine # f => CommonBits(f, MyId) = d
  <2>1. mine # f => MyId \notin IdRange(f, m)
    BY <1>3, <1>6, <1>8
  <2> QED
    BY <1>4, <1>5, <1>7, <1>10, <2>1, CutsHalf
<1>13. mine # m => CommonBits(m, MyId) = d
  <2>1. mine # m => MyId \notin IdRange(m, n)
    BY <1>3, <1>6, <1>8
  <2> QED
    BY <1>4, <1>5, <1>7, <1>10, <2>1, CutsHalf
<1>14. n # -1 => n \in F /\ n # f
  <2>1. \/ n = -1
        \/ n \in F /\ f < n
    BY <1>2, NextIs DEF n
  <2> QED
    BY <1>2, <2>1
<1>15. SUFFICES ASSUME NEW g \in G, NextIn(G, g) # -1, mine # g, mine # NextIn(G, g)
                PROVE  CommonBits(g, MyId) # CommonBits(NextIn(G, g), MyId)
  BY DEF PathCut, mine
<1>16. CASE g = f
  BY <1>3, <1>15, <1>16
<1>17. CASE g = m
  <2>1. CommonBits(m, MyId) = d /\ CommonBits(n, MyId) < d /\ CommonBits(n, MyId) \in Int
    BY <1>3, <1>11, <1>13, <1>14, <1>15, <1>17
  <2> QED
    BY <1>3, <1>5, <1>17, <2>1
<1>18. CASE g # f /\ g # m
  <2>1. g \in F /\ NextIn(G, g) = NextIn(F, g) /\ NextIn(F, g) # -1
    BY <1>3, <1>15, <1>18
  <2>2. CASE NextIn(F, g) = f
    <3>1. CommonBits(f, MyId) = d
      BY <1>12, <1>15, <2>1, <2>2
    <3>2. CommonBits(g, MyId) < d /\ CommonBits(g, MyId) \in Int
      BY <1>11, <1>18, <2>1
    <3> QED
      BY <1>5, <2>1, <2>2, <3>1, <3>2
  <2>3. CASE NextIn(F, g) # f
    <3>1. \/ CommonBits(g, MyId) # CommonBits(NextIn(F, g), MyId)
          \/ BucketIn(F, MyId) = g \/ BucketIn(F, MyId) = NextIn(F, g)
      BY <2>1 DEF PathCut
    <3> QED
      BY <1>18, <2>1, <2>3, <3>1
  <2> QED
    BY <2>2, <2>3
<1> QED
  BY <1>16, <1>17, <1>18

(***************************************************************************)
(* The routing table, through every step.                                  *)
(***************************************************************************)
InBucket(F, D, f) == {id \in D : BucketIn(F, id) = f}

GoodNode(n) == n \in Node /\ (n.asked => n.pinged > 0)

TableInv ==
    /\ BucketTree(firsts) /\ PathCut(firsts)
    /\ DOMAIN nodes \subseteq Peers
    /\ \A id \in DOMAIN nodes : GoodNode(nodes[id])
    /\ \A f \in firsts : Cardinality(InBucket(firsts, DOMAIN nodes, f)) <= BucketSize
    /\ cached \subseteq firsts
    /\ blacklist \in Seq(Peers) /\ Len(blacklist) <= MaxBlacklisted

LEMMA BucketsAre ==
    /\ \A id : FindBucket(id) = BucketIn(firsts, id)
    /\ \A f : NextBucket(f) = NextIn(firsts, f)
    /\ \A f : NodesIn(f) = InBucket(firsts, DOMAIN nodes, f)
    /\ \A f : MyBucket(f) <=> BucketIn(firsts, MyId) = f
BY DEF FindBucket, BucketIn, NextBucket, NextIn, NodesIn, InBucket, MyBucket

LEMMA NodeFields ==
    ASSUME NEW n \in Node
    PROVE  /\ \A p \in 0..4 : [n EXCEPT !.pinged = p] \in Node /\ [n EXCEPT !.pinged = p].pinged = p
           /\ \A b \in BOOLEAN : [n EXCEPT !.asked = b] \in Node
           /\ \A l \in {"new", "stale", "good"} :
                 /\ [n EXCEPT !.level = l] \in Node
                 /\ [n EXCEPT !.level = l].asked = n.asked
                 /\ [n EXCEPT !.level = l].pinged = n.pinged
<1>1. \A p \in 0..4 : [n EXCEPT !.pinged = p] \in Node /\ [n EXCEPT !.pinged = p].pinged = p
  BY DEF Node
<1>2. \A b \in BOOLEAN : [n EXCEPT !.asked = b] \in Node
  BY DEF Node
<1>3. \A l \in {"new", "stale", "good"} :
         /\ [n EXCEPT !.level = l] \in Node
         /\ [n EXCEPT !.level = l].asked = n.asked
         /\ [n EXCEPT !.level = l].pinged = n.pinged
  BY DEF Node
<1> QED
  BY <1>1, <1>2, <1>3

LEMMA NodesChange ==
    /\ \A c \in 0..2 : GoodNode(Fresh(c))
    /\ \A n : GoodNode(n) =>
          /\ GoodNode(Asked(n)) /\ \A c \in 0..2 : GoodNode(Updated(n, c))
          /\ GoodNode([n EXCEPT !.pinged = 4, !.asked = TRUE])
          /\ GoodNode([n EXCEPT !.asked = FALSE])
          /\ \A l \in {"new", "stale", "good"} : GoodNode([n EXCEPT !.level = l])
<1>1. ASSUME NEW c \in 0..2 PROVE GoodNode(Fresh(c))
  <2>1. 0 \in 0..4 /\ FALSE \in BOOLEAN
    OBVIOUS
  <2> QED
    BY <2>1 DEF GoodNode, Fresh, Node
<1>2. SUFFICES ASSUME NEW n, GoodNode(n)
               PROVE  /\ GoodNode(Asked(n)) /\ \A c \in 0..2 : GoodNode(Updated(n, c))
                      /\ GoodNode([n EXCEPT !.pinged = 4, !.asked = TRUE])
                      /\ GoodNode([n EXCEPT !.asked = FALSE])
                      /\ \A l \in {"new", "stale", "good"} : GoodNode([n EXCEPT !.level = l])
  BY <1>1
<1>3. n \in Node /\ n.pinged \in 0..4 /\ (n.asked => n.pinged > 0)
  BY <1>2 DEF GoodNode, Node
<1>4. ASSUME NEW p \in 0..4, p > 0 PROVE GoodNode([n EXCEPT !.pinged = p, !.asked = TRUE])
  <2> DEFINE m == [n EXCEPT !.pinged = p]
  <2>1. m \in Node /\ m.pinged = p
    BY <1>3, NodeFields
  <2>2. [n EXCEPT !.pinged = p, !.asked = TRUE] = [m EXCEPT !.asked = TRUE]
    OBVIOUS
  <2> HIDE DEF m
  <2>3. [m EXCEPT !.asked = TRUE] \in Node
    BY <2>1, NodeFields
  <2>4. [m EXCEPT !.asked = TRUE].pinged = p
    BY <2>1 DEF Node
  <2> QED
    BY <1>4, <2>2, <2>3, <2>4 DEF GoodNode
<1>5. GoodNode(Asked(n))
  <2> DEFINE p == IF n.pinged = 4 THEN 4 ELSE n.pinged + 1
  <2>1. p \in 0..4 /\ p > 0
    BY <1>3
  <2>2. Asked(n) = [n EXCEPT !.pinged = p, !.asked = TRUE]
    BY DEF Asked
  <2> HIDE DEF p
  <2> QED
    BY <1>4, <2>1, <2>2
<1>6. \A l \in {"new", "stale", "good"} : GoodNode([n EXCEPT !.level = l])
  BY <1>3, NodeFields DEF GoodNode
<1>7. ASSUME NEW c \in 0..2 PROVE GoodNode(Updated(n, c))
  <2>1. 2 \in 0..2
    OBVIOUS
  <2>2. Updated(n, c) = Fresh(2) \/ Updated(n, c) = [n EXCEPT !.level = "good"] \/ Updated(n, c) = n
    BY DEF Updated
  <2> QED
    BY <1>1, <1>2, <1>6, <2>1, <2>2
<1>8. GoodNode([n EXCEPT !.pinged = 4, !.asked = TRUE])
  <2>1. 4 \in 0..4 /\ 4 > 0
    OBVIOUS
  <2> QED
    BY <1>4, <2>1
<1>9. GoodNode([n EXCEPT !.asked = FALSE])
  <2>1. [n EXCEPT !.asked = FALSE] \in Node
    BY <1>3, NodeFields
  <2>2. ~[n EXCEPT !.asked = FALSE].asked
    BY <1>3 DEF Node
  <2> QED
    BY <2>1, <2>2 DEF GoodNode
<1> QED
  BY <1>5, <1>6, <1>7, <1>8, <1>9

\* The nodes there are keep to their buckets.
LEMMA RoomLeft ==
    ASSUME NEW F, NEW D \in SUBSET Peers, NEW E \in SUBSET D, NEW f,
           Cardinality(InBucket(F, D, f)) <= BucketSize
    PROVE  /\ IsFiniteSet(InBucket(F, D, f)) /\ Cardinality(InBucket(F, D, f)) \in Nat
           /\ IsFiniteSet(InBucket(F, E, f)) /\ Cardinality(InBucket(F, E, f)) \in Nat
           /\ Cardinality(InBucket(F, E, f)) <= BucketSize
<1>1. InBucket(F, E, f) \in SUBSET InBucket(F, D, f) /\ InBucket(F, D, f) \in SUBSET Peers
  BY DEF InBucket
<1>2. IsFiniteSet(InBucket(F, D, f))
  BY <1>1, PeersAreFinite
<1>3. IsFiniteSet(InBucket(F, E, f)) /\ Cardinality(InBucket(F, E, f)) <= Cardinality(InBucket(F, D, f))
  BY <1>1, <1>2, FS_Subset
<1>4. Cardinality(InBucket(F, D, f)) \in Nat /\ Cardinality(InBucket(F, E, f)) \in Nat
  BY <1>2, <1>3, FS_CardinalityType
<1> QED
  BY <1>2, <1>3, <1>4, SizesAre

LEMMA TableInvInit ==
    ASSUME Init
    PROVE  TableInv
<1>1. firsts = {0} /\ nodes = <<>> /\ cached = {} /\ blacklist = <<>>
  BY DEF Init, TableInit
<1>2. 0 \in Ids
  BY IdsAre, Powers, SMTT(60)
<1>3. NextIn({0}, 0) = -1
  BY DEF NextIn
<1>4. Cell(0, -1, 0)
  <2>1. 0 \in 0..IdBits /\ IdBits - 0 = IdBits /\ Power(IdBits) \in Nat /\ Power(IdBits) > 0
    BY IdsAre, Powers
  <2>2. 0 + Power(IdBits - 0) = Power(IdBits) /\ 0 % Power(IdBits - 0) = 0
    BY <2>1
  <2> QED
    BY <1>2, <2>1, <2>2, EndIs DEF Cell
<1>5. BucketTree({0}) /\ PathCut({0})
  <2>1. 0 \in 0..IdBits
    BY IdsAre
  <2> QED
    BY <1>2, <1>3, <1>4, <2>1 DEF BucketTree, PathCut
<1>6. DOMAIN nodes = {} /\ blacklist \in Seq(Peers) /\ Len(blacklist) = 0
  BY <1>1
<1>7. \A f \in firsts : InBucket(firsts, DOMAIN nodes, f) = {}
  BY <1>6 DEF InBucket
<1>8. \A f \in firsts : Cardinality(InBucket(firsts, DOMAIN nodes, f)) <= BucketSize
  BY <1>7, FS_EmptySet, SizesAre
<1> QED
  BY <1>1, <1>5, <1>6, <1>8, SizesAre DEF TableInv

\* The buckets stay, no node is added.
LEMMA TableKept ==
    ASSUME TableInv, firsts' = firsts, DOMAIN nodes' \subseteq DOMAIN nodes,
           \A id \in DOMAIN nodes' : GoodNode(nodes'[id]),
           cached' \subseteq firsts,
           blacklist' \in Seq(Peers), Len(blacklist') <= MaxBlacklisted
    PROVE  TableInv'
<1>1. DOMAIN nodes' \in SUBSET DOMAIN nodes /\ DOMAIN nodes \in SUBSET Peers
  BY DEF TableInv
<1>2. \A f \in firsts : Cardinality(InBucket(firsts, DOMAIN nodes', f)) <= BucketSize
  BY <1>1, RoomLeft DEF TableInv
<1>3. DOMAIN nodes' \subseteq Peers
  BY <1>1
<1> QED
  BY <1>2, <1>3 DEF TableInv

LEMMA PeerBucket ==
    ASSUME TableInv, NEW id \in Peers
    PROVE  FindBucket(id) \in firsts
BY BucketIs, BucketsAre, TableAssumption DEF TableInv, BucketTree



LEMMA NewNodeTable ==
    ASSUME TableInv, NEW id \in Peers, NEW confirm \in 0..2, NewNode(id, confirm)
    PROVE  /\ TableInv'
           /\ \A n \in DOMAIN nodes : n \notin DOMAIN nodes' => nodes[n].pinged >= 3
<1> DEFINE D == DOMAIN nodes
           f == FindBucket(id)
<1>0. /\ D \in SUBSET Peers /\ f \in firsts
      /\ \A n \in D : GoodNode(nodes[n]) /\ GoodNode(Asked(nodes[n]))
      /\ cached \subseteq firsts /\ blacklist \in Seq(Peers) /\ Len(blacklist) <= MaxBlacklisted
  BY PeerBucket, NodesChange DEF TableInv
<1>1. CASE IgnoreNode(id)
  BY <1>0, <1>1, TableKept DEF IgnoreNode, tableVars
<1>2. CASE KnownNode(id, confirm)
  <2>1. /\ id \in D /\ nodes' = [nodes EXCEPT ![id] = Updated(nodes[id], confirm)]
        /\ UNCHANGED <<firsts, cached, blacklist>>
    BY <1>2 DEF KnownNode
  <2>2. DOMAIN nodes' = D /\ \A n \in D : nodes'[n] = IF n = id THEN Updated(nodes[id], confirm) ELSE nodes[n]
    BY <2>1
  <2>3. GoodNode(Updated(nodes[id], confirm))
    BY <1>0, <2>1, NodesChange
  <2>4. \A n \in D : GoodNode(nodes'[n])
    BY <1>0, <2>2, <2>3
  <2> QED
    BY <1>0, <2>1, <2>2, <2>4, TableKept
\* A node comes in, for another one or into a bucket with room.
<1>3. ASSUME NEW kept \in SUBSET D, id \notin D, nodes' = WithNode(kept, id, confirm),
             UNCHANGED <<firsts, cached, blacklist>>,
             Cardinality(InBucket(firsts, kept, f)) < BucketSize
      PROVE  TableInv' /\ DOMAIN nodes' = kept \cup {id}
  <2>1. /\ DOMAIN nodes' = kept \cup {id} /\ nodes'[id] = Fresh(confirm)
        /\ \A n \in kept : nodes'[n] = nodes[n]
    <3>1. id \notin kept
      BY <1>3
    <3>2. nodes' = [n \in kept \cup {id} |-> IF n = id THEN Fresh(confirm) ELSE nodes[n]]
      BY <1>3 DEF WithNode
    <3> QED
      BY <3>1, <3>2
  <2>2. \A n \in DOMAIN nodes' : GoodNode(nodes'[n])
    BY <1>0, <2>1, NodesChange
  <2>3. f = BucketIn(firsts, id)
    BY BucketsAre
  <2>4. ASSUME NEW g \in firsts PROVE Cardinality(InBucket(firsts, kept \cup {id}, g)) <= BucketSize
    <3>0. /\ IsFiniteSet(InBucket(firsts, kept, g)) /\ Cardinality(InBucket(firsts, kept, g)) \in Nat
          /\ Cardinality(InBucket(firsts, kept, g)) <= BucketSize
      BY <1>0, RoomLeft DEF TableInv
    <3>1. CASE g = f
      <4>1. InBucket(firsts, kept \cup {id}, g) = InBucket(firsts, kept, g) \cup {id}
        BY <2>3, <3>1 DEF InBucket
      <4>2. id \notin InBucket(firsts, kept, g)
        BY <1>3 DEF InBucket
      <4>3. Cardinality(InBucket(firsts, kept, g) \cup {id}) = Cardinality(InBucket(firsts, kept, g)) + 1
        BY <3>0, <4>2, FS_AddElement
      <4>4. Cardinality(InBucket(firsts, kept, g)) < BucketSize
        BY <1>3, <3>1
      <4>5. Cardinality(InBucket(firsts, kept \cup {id}, g)) = Cardinality(InBucket(firsts, kept, g)) + 1
        BY <4>1, <4>3, Zenon
      <4> QED
        BY <3>0, <4>4, <4>5, SizesAre
    <3>2. CASE g # f
      <4>1. InBucket(firsts, kept \cup {id}, g) = InBucket(firsts, kept, g)
        BY <2>3, <3>2 DEF InBucket
      <4> QED
        BY <3>0, <4>1
    <3> QED
      BY <3>1, <3>2
  <2>5. DOMAIN nodes' \subseteq Peers
    BY <1>0, <2>1
  <2>6. \A g \in firsts' : Cardinality(InBucket(firsts', DOMAIN nodes', g)) <= BucketSize
    BY <1>3, <2>1, <2>4
  <2> QED
    BY <1>0, <1>3, <2>1, <2>2, <2>5, <2>6 DEF TableInv
<1>4. CASE ReplaceBadNode(id, confirm)
  <2>1. PICK bad \in BadNodes(f) : nodes' = WithNode(D \ {bad}, id, confirm)
    BY <1>4 DEF ReplaceBadNode
  <2>2. bad \in D /\ nodes[bad].pinged >= 3 /\ bad \in InBucket(firsts, D, f)
    <3>1. NodesIn(f) = InBucket(firsts, D, f)
      BY BucketsAre
    <3>2. bad \in NodesIn(f) /\ nodes[bad].pinged >= 3
      BY <2>1 DEF BadNodes
    <3> QED
      BY <3>1, <3>2 DEF NodesIn
  <2>3. InBucket(firsts, D \ {bad}, f) = InBucket(firsts, D, f) \ {bad}
    BY DEF InBucket
  <2>4. /\ IsFiniteSet(InBucket(firsts, D, f)) /\ Cardinality(InBucket(firsts, D, f)) \in Nat
        /\ Cardinality(InBucket(firsts, D, f)) <= BucketSize
    BY <1>0, RoomLeft DEF TableInv
  <2>5. Cardinality(InBucket(firsts, D \ {bad}, f)) < BucketSize
    <3>1. Cardinality(InBucket(firsts, D, f) \ {bad}) = Cardinality(InBucket(firsts, D, f)) - 1
      BY <2>2, <2>4, FS_RemoveElement
    <3>2. Cardinality(InBucket(firsts, D \ {bad}, f)) = Cardinality(InBucket(firsts, D, f)) - 1
      BY <2>3, <3>1, Zenon
    <3> QED
      BY <2>4, <3>2, SizesAre
  <2>6. id \notin D /\ UNCHANGED <<firsts, cached, blacklist>> /\ D \ {bad} \in SUBSET D
    BY <1>4 DEF ReplaceBadNode
  <2> HIDE DEF D
  <2>7. TableInv' /\ DOMAIN nodes' = (D \ {bad}) \cup {id}
    BY <1>3, <2>1, <2>5, <2>6
  <2> QED
    BY <2>2, <2>7 DEF D
<1>5. CASE AddNode(id, confirm)
  <2>1. /\ id \notin D /\ nodes' = WithNode(D, id, confirm) /\ UNCHANGED <<firsts, cached, blacklist>>
        /\ Cardinality(InBucket(firsts, D, f)) < BucketSize /\ D \in SUBSET D
    BY <1>5, BucketsAre DEF AddNode
  <2>2. TableInv' /\ DOMAIN nodes' = D \cup {id}
    BY <1>3, <2>1
  <2> QED
    BY <2>2
\* A dubious node is pinged.
<1>6. ASSUME PingDubious(f) PROVE DOMAIN nodes' = D /\ \A n \in D : GoodNode(nodes'[n])
  <2>1. CASE UNCHANGED nodes
    BY <1>0, <2>1
  <2>2. CASE \E n \in D : nodes' = [nodes EXCEPT ![n] = Asked(nodes[n])]
    <3>1. PICK n \in D : nodes' = [nodes EXCEPT ![n] = Asked(nodes[n])]
      BY <2>2
    <3>2. DOMAIN nodes' = D /\ \A k \in D : nodes'[k] = IF k = n THEN Asked(nodes[n]) ELSE nodes[k]
      BY <3>1
    <3> QED
      BY <1>0, <3>2
  <2> QED
    BY <1>6, <2>1, <2>2 DEF PingDubious, Dubious, NodesIn
<1>7. CASE SplitBucket(id)
  <2> DEFINE m == BucketMiddle(f, NextIn(firsts, f))
  <2>1. /\ PingDubious(f) /\ m # -1 /\ firsts' = firsts \cup {m} /\ cached' = cached \ {f}
        /\ blacklist' = blacklist /\ BucketIn(firsts, MyId) = f
    BY <1>7, BucketsAre DEF SplitBucket, Splits
  <2>2. DOMAIN nodes' = D /\ \A n \in D : GoodNode(nodes'[n])
    BY <1>6, <2>1
  <2> HIDE DEF m
  <2>3. BucketTree(firsts) /\ PathCut(firsts) /\ m = BucketMiddle(f, NextIn(firsts, f))
    BY DEF TableInv, m
  <2>4. PathCut(firsts')
    BY <1>0, <2>1, <2>3, CutPath
  <2>5. /\ BucketTree(firsts') /\ m \notin firsts
        /\ \A n \in Ids : IF BucketIn(firsts, n) = f
                          THEN BucketIn(firsts', n) = f \/ BucketIn(firsts', n) = m
                          ELSE BucketIn(firsts', n) = BucketIn(firsts, n)
    <3>1. firsts' = firsts \cup {m} /\ m # -1 /\ BucketTree(firsts) /\ f \in firsts
          /\ m = BucketMiddle(f, NextIn(firsts, f))
      BY <1>0, <2>1, <2>3
    <3> DEFINE F == firsts
               G == firsts'
    <3> HIDE DEF f, F, G
    <3>2. G = F \cup {m} /\ m # -1 /\ BucketTree(F) /\ f \in F
          /\ m = BucketMiddle(f, NextIn(F, f))
      BY <3>1 DEF F, G
    <3>3. BucketTree(G) /\ m \notin F
      BY <3>2, CutTree
    <3>4. \A n \in Ids : IF BucketIn(F, n) = f THEN BucketIn(G, n) = f \/ BucketIn(G, n) = m
                                               ELSE BucketIn(G, n) = BucketIn(F, n)
      BY <3>2, CutTree
    <3> QED
      BY <3>3, <3>4 DEF F, G
  <2>6. ASSUME NEW g \in firsts' PROVE Cardinality(InBucket(firsts', D, g)) <= BucketSize
    <3>0. D \subseteq Ids
      BY <1>0, TableAssumption
    <3>1. PICK h \in firsts : InBucket(firsts', D, g) \in SUBSET InBucket(firsts, D, h)
      <4>1. CASE g = m
        <5>1. \A n \in D : BucketIn(firsts', n) = m => BucketIn(firsts, n) = f
          BY <2>3, <2>5, <3>0, BucketIs, TableAssumption DEF BucketTree
        <5> QED
          BY <1>0, <4>1, <5>1 DEF InBucket
      <4>2. CASE g # m
        <5>1. g \in firsts
          BY <2>1, <4>2
        <5>2. \A n \in D : BucketIn(firsts', n) = g => BucketIn(firsts, n) = g
          BY <2>5, <3>0, <4>2
        <5> QED
          BY <5>1, <5>2 DEF InBucket
      <4> QED
        BY <4>1, <4>2
    <3>2. /\ IsFiniteSet(InBucket(firsts, D, h)) /\ Cardinality(InBucket(firsts, D, h)) \in Nat
          /\ Cardinality(InBucket(firsts, D, h)) <= BucketSize
      BY <1>0, RoomLeft DEF TableInv
    <3>3. /\ IsFiniteSet(InBucket(firsts', D, g))
          /\ Cardinality(InBucket(firsts', D, g)) <= Cardinality(InBucket(firsts, D, h))
      BY <3>1, <3>2, FS_Subset
    <3>4. Cardinality(InBucket(firsts', D, g)) \in Nat
      BY <3>3, FS_CardinalityType
    <3> QED
      BY <3>2, <3>3, <3>4, SizesAre
  <2>7. cached' \subseteq firsts'
    BY <1>0, <2>1
  <2>8. \A g \in firsts' : Cardinality(InBucket(firsts', DOMAIN nodes', g)) <= BucketSize
    BY <2>2, <2>6
  <2> QED
    BY <1>0, <2>1, <2>2, <2>4, <2>5, <2>7, <2>8 DEF TableInv
<1>8. CASE CacheNode(id, confirm)
  <2>1. /\ PingDubious(f) /\ cached' = cached \cup {f} /\ UNCHANGED <<firsts, blacklist>>
    BY <1>8 DEF CacheNode
  <2>2. DOMAIN nodes' = D /\ \A n \in D : GoodNode(nodes'[n])
    BY <1>6, <2>1
  <2> QED
    BY <1>0, <2>1, <2>2, TableKept
<1> QED
  BY <1>1, <1>2, <1>4, <1>5, <1>7, <1>8 DEF NewNode

LEMMA TableStepIs ==
    ASSUME TableInv, TableStep
    PROVE  /\ TableInv'
           /\ \A n \in DOMAIN nodes : n \notin DOMAIN nodes' => nodes[n].pinged >= 3
<1> DEFINE D == DOMAIN nodes
<1>0. /\ D \in SUBSET Peers
      /\ \A n \in D : GoodNode(nodes[n])
      /\ cached \subseteq firsts /\ blacklist \in Seq(Peers) /\ Len(blacklist) <= MaxBlacklisted
  BY DEF TableInv
<1>1. CASE UNCHANGED tableVars
  BY <1>0, <1>1, TableKept DEF tableVars
<1>2. CASE \E id \in Peers, confirm \in 0..2 : NewNode(id, confirm)
  BY <1>2, NewNodeTable
<1>3. ASSUME NEW id \in D, NEW n, GoodNode(n), nodes' = [nodes EXCEPT ![id] = n]
      PROVE  DOMAIN nodes' = D /\ \A k \in D : GoodNode(nodes'[k])
  <2>1. DOMAIN nodes' = D /\ \A k \in D : nodes'[k] = IF k = id THEN n ELSE nodes[k]
    BY <1>3
  <2> QED
    BY <1>0, <1>3, <2>1
<1>4. ASSUME NEW id \in Peers, Pinged(id)
      PROVE  TableInv' /\ DOMAIN nodes' = D
  <2>1. CASE id \notin D
    BY <1>0, <1>4, <2>1, TableKept DEF Pinged, tableVars
  <2>2. CASE id \in D
    <3>1. /\ nodes' = [nodes EXCEPT ![id] = Asked(nodes[id])]
          /\ cached' \subseteq cached /\ UNCHANGED <<firsts, blacklist>>
      BY <1>4, <2>2 DEF Pinged
    <3>2. GoodNode(Asked(nodes[id]))
      BY <1>0, <2>2, NodesChange
    <3>3. DOMAIN nodes' = D /\ \A k \in D : GoodNode(nodes'[k])
      BY <1>3, <2>2, <3>1, <3>2
    <3> QED
      BY <1>0, <3>1, <3>3, TableKept
  <2> QED
    BY <2>1, <2>2
<1>5. ASSUME NEW id \in Peers, BlacklistNode(id)
      PROVE  TableInv' /\ DOMAIN nodes' = D
  <2>1. DOMAIN nodes' = D /\ \A k \in D : GoodNode(nodes'[k])
    <3>1. CASE id \notin D
      BY <1>0, <1>5, <3>1 DEF BlacklistNode
    <3>2. CASE id \in D
      <4>1. nodes' = [nodes EXCEPT ![id] = [nodes[id] EXCEPT !.pinged = 4, !.asked = TRUE]]
        BY <1>5, <3>2 DEF BlacklistNode
      <4>2. GoodNode([nodes[id] EXCEPT !.pinged = 4, !.asked = TRUE])
        BY <1>0, <3>2, NodesChange
      <4> QED
        BY <1>3, <3>2, <4>1, <4>2
    <3> QED
      BY <3>1, <3>2
  <2>2. cached' \subseteq cached /\ firsts' = firsts
    BY <1>5 DEF BlacklistNode
  <2>3. blacklist' \in Seq(Peers) /\ Len(blacklist') <= MaxBlacklisted
    <3>1. Len(blacklist) \in Nat /\ MaxBlacklisted \in Nat /\ MaxBlacklisted > 0
      BY <1>0, SizesAre, LenProperties
    <3>2. CASE Len(blacklist) = MaxBlacklisted
      <4>1. blacklist' = Append(Tail(blacklist), id)
        BY <1>5, <3>2 DEF BlacklistNode
      <4>2. blacklist # <<>>
        BY <1>0, <3>1, <3>2, EmptySeq
      <4>3. Tail(blacklist) \in Seq(Peers) /\ Len(Tail(blacklist)) = Len(blacklist) - 1
        BY <1>0, <4>2, HeadTailProperties
      <4>4. blacklist' \in Seq(Peers) /\ Len(blacklist') = Len(Tail(blacklist)) + 1
        BY <4>1, <4>3, AppendProperties
      <4> QED
        BY <3>1, <3>2, <4>3, <4>4
    <3>3. CASE Len(blacklist) # MaxBlacklisted
      <4>1. blacklist' = Append(blacklist, id)
        BY <1>5, <3>3 DEF BlacklistNode
      <4>2. blacklist' \in Seq(Peers) /\ Len(blacklist') = Len(blacklist) + 1
        BY <1>0, <4>1, AppendProperties
      <4> QED
        BY <1>0, <3>1, <3>3, <4>2
    <3> QED
      BY <3>2, <3>3
  <2> QED
    BY <1>0, <2>1, <2>2, <2>3, TableKept
<1>6. ASSUME NEW id \in Peers, NodeAges(id)
      PROVE  TableInv' /\ DOMAIN nodes' = D
  <2>1. id \in D /\ UNCHANGED <<firsts, cached, blacklist>>
    BY <1>6 DEF NodeAges
  <2>2. PICK n : GoodNode(n) /\ nodes' = [nodes EXCEPT ![id] = n]
    <3>1. \/ nodes' = [nodes EXCEPT ![id] = [nodes[id] EXCEPT !.asked = FALSE]]
          \/ nodes' = [nodes EXCEPT ![id] = [nodes[id] EXCEPT !.level = "stale"]]
          \/ nodes' = [nodes EXCEPT ![id] = [nodes[id] EXCEPT !.level = "new"]]
      BY <1>6 DEF NodeAges
    <3>2. /\ GoodNode([nodes[id] EXCEPT !.asked = FALSE])
          /\ GoodNode([nodes[id] EXCEPT !.level = "stale"])
          /\ GoodNode([nodes[id] EXCEPT !.level = "new"])
      BY <1>0, <2>1, NodesChange
    <3> QED
      BY <3>1, <3>2
  <2>3. DOMAIN nodes' = D /\ \A k \in D : GoodNode(nodes'[k])
    BY <1>3, <2>1, <2>2
  <2> QED
    BY <1>0, <2>1, <2>3, TableKept
<1>7. ASSUME NEW ids \in SUBSET Peers, PingedAll(ids)
      PROVE  TableInv' /\ DOMAIN nodes' = D
  <2>1. /\ DOMAIN nodes' = D /\ cached' \subseteq cached /\ UNCHANGED <<firsts, blacklist>>
        /\ \A k \in D : nodes'[k] = Asked(nodes[k]) \/ nodes'[k] = nodes[k]
    BY <1>7 DEF PingedAll
  <2>2. \A k \in D : GoodNode(nodes'[k])
    BY <1>0, <2>1, NodesChange
  <2> QED
    BY <1>0, <2>1, <2>2, TableKept
<1>8. ASSUME ExpireBuckets
      PROVE  TableInv' /\ \A n \in D : n \notin DOMAIN nodes' => nodes[n].pinged >= 3
  <2> DEFINE dead == {id \in D : nodes[id].pinged >= 4}
  <2>1. /\ nodes' = [n \in D \ dead |-> nodes[n]] /\ cached' \subseteq cached
        /\ UNCHANGED <<firsts, blacklist>>
    BY <1>8 DEF ExpireBuckets, Restrict
  <2>2. /\ DOMAIN nodes' = D \ dead /\ \A k \in DOMAIN nodes' : nodes'[k] = nodes[k]
    BY <2>1
  <2>3. TableInv'
    BY <1>0, <2>1, <2>2, TableKept
  <2>4. ASSUME NEW n \in D, n \notin DOMAIN nodes' PROVE nodes[n].pinged >= 3
    <3>1. nodes[n].pinged >= 4 /\ nodes[n].pinged \in 0..4
      BY <1>0, <2>2, <2>4 DEF GoodNode, Node
    <3> QED
      BY <3>1
  <2> QED
    BY <2>3, <2>4
<1> QED
  BY <1>1, <1>2, <1>4, <1>5, <1>6, <1>7, <1>8 DEF TableStep

(***************************************************************************)
(* The invariant of a node, and the theorems.                              *)
(***************************************************************************)
DhtInv == TokenInv /\ StorageInv /\ ControlInv /\ SearchInv /\ TableInv

LEMMA DhtInvInit == Init => DhtInv
BY TokenInvInit, StorageInvInit, ControlInvInit, SearchInvInit, TableInvInit DEF Init, DhtInv

LEMMA DhtInvStep ==
    ASSUME DhtInv, [Next]_vars
    PROVE  DhtInv' /\ TableStep
<1>1. /\ TokenInv /\ StorageInv /\ ControlInv /\ SearchInv /\ TableInv
      /\ DOMAIN nodes \subseteq Peers
  BY DEF DhtInv, TableInv
<1>2. TokenInv'
  BY <1>1, StorageSteps, TokenInvStep
<1>3. StorageInv'
  BY <1>1, StorageSteps, StorageInvStep
<1>4. ControlInv'
  BY <1>1, ControlInvStep
<1>5. SearchInv'
  BY <1>1, SearchInvStep
<1>6. TableStep
  BY <1>1, TableSteps
<1>7. TableInv'
  BY <1>1, <1>6, TableStepIs
<1> QED
  BY <1>2, <1>3, <1>4, <1>5, <1>6, <1>7 DEF DhtInv

LEMMA DhtInvHolds == Spec => []DhtInv
<1>1. Init => DhtInv
  BY DhtInvInit
<1>2. DhtInv /\ [Next]_vars => DhtInv'
  BY DhtInvStep
<1> QED
  BY <1>1, <1>2, PTL DEF Spec

\* Every variable of a node keeps its type: the routing table, the search, the calls
\* still to be made, the storage and the tokens.
THEOREM DhtTypesOK == Spec => []DhtTypeOK
<1>1. DhtInv => DhtTypeOK
  <2> SUFFICES ASSUME DhtInv PROVE DhtTypeOK
    OBVIOUS
  <2>1. TableTypeOK
    BY DEF DhtInv, TableInv, ControlInv, TableTypeOK, GoodNode, BucketTree
  <2>2. SearchTypeOK
    <3>1. /\ search \in [state : {"none", "running", "done"}, age : 0..2, list : Seq(Entry)]
          /\ Len(search.list) <= SearchNodes
      BY DEF DhtInv, SearchInv, SearchList
    <3> QED
      BY <3>1 DEF SearchTypeOK
  <2>3. StorageTypeOK
    BY StorageTypes DEF DhtInv
  <2> QED
    BY <2>1, <2>2, <2>3 DEF DhtTypeOK, DhtInv, ControlInv
<1> QED
  BY <1>1, DhtInvHolds, PTL

\* The list of a search is sorted by distance from its target and holds no node twice,
\* in whatever order nodes are inserted, asked, thrown out and taken over from an
\* earlier search.
THEOREM SearchesAreSorted == Spec => []SearchSorted
<1>1. DhtInv => SearchSorted
  <2> SUFFICES ASSUME DhtInv, NEW i \in DOMAIN search.list, NEW j \in DOMAIN search.list, i < j
               PROVE  Xor(search.list[i].id, Target) < Xor(search.list[j].id, Target)
    BY DEF SearchSorted
  <2>1. SearchList(search.list)
    BY DEF DhtInv, SearchInv
  <2>2. search.list[i] \in Entry /\ search.list[j] \in Entry
    BY <2>1, ListEntry
  <2>3. Distance[search.list[i]] < Distance[search.list[j]]
    BY <2>1 DEF SearchList, Ascending
  <2> QED
    BY <2>2, <2>3, DistanceIs
<1> QED
  BY <1>1, DhtInvHolds, PTL

\* The buckets are subtrees that cover the ids, only those on the way to the node's
\* own id were ever cut, and none holds more nodes than it may.
THEOREM BucketsFollowThePath == Spec => []OwnPathSplit
<1>1. DhtInv => OwnPathSplit
  <2> SUFFICES ASSUME DhtInv PROVE OwnPathSplit
    OBVIOUS
  <2>1. /\ BucketTree(firsts) /\ PathCut(firsts) /\ firsts \subseteq Ids /\ 0 \in firsts
        /\ \A f \in firsts : Cardinality(InBucket(firsts, DOMAIN nodes, f)) <= BucketSize
    BY DEF DhtInv, TableInv, BucketTree
  <2>2. \A f \in firsts : <<f, NextBucket(f)>> \in Subtrees
    BY <2>1, BucketsAre, SubtreesAre DEF BucketTree
  <2>3. ASSUME NEW f \in firsts, NEW id \in IdRange(f, NextBucket(f)) PROVE FindBucket(id) = f
    <3>1. id \in Ids /\ id \in IdRange(f, NextIn(firsts, f))
      BY <2>3, BucketsAre DEF IdRange
    <3>2. BucketIn(firsts, id) = f
      BY <2>1, <3>1, BucketRange
    <3> QED
      BY <3>2, BucketsAre
  <2>4. \A f \in firsts : Cardinality(NodesIn(f)) <= BucketSize
    BY <2>1, BucketsAre
  <2>5. \A f \in firsts : NextBucket(f) # -1 =>
           CommonBits(f, MyId) # CommonBits(NextBucket(f), MyId)
           \/ MyBucket(f) \/ MyBucket(NextBucket(f))
    BY <2>1, BucketsAre DEF PathCut
  <2> QED
    BY <2>2, <2>3, <2>4, <2>5 DEF OwnPathSplit
<1> QED
  BY <1>1, DhtInvHolds, PTL

\* A node is dropped from the table only after three requests without an answer or
\* when it was blacklisted, never while it is good.
THEOREM GoodNodesAreKept == Spec => RespondersStay
<1>1. DhtInv /\ [Next]_vars =>
        [\A id \in DOMAIN nodes : id \notin DOMAIN nodes' => nodes[id].pinged >= 3 /\ ~Good(id)]_vars
  <2> SUFFICES ASSUME DhtInv, [Next]_vars, NEW id \in DOMAIN nodes, id \notin DOMAIN nodes'
               PROVE  nodes[id].pinged >= 3 /\ ~Good(id)
    OBVIOUS
  <2>1. nodes[id].pinged >= 3 /\ GoodNode(nodes[id])
    BY DhtInvStep, TableStepIs DEF DhtInv, TableInv
  <2>2. nodes[id].pinged \in 0..4
    BY <2>1 DEF GoodNode, Node
  <2> QED
    BY <2>1, <2>2 DEF Good
<1> QED
  BY <1>1, DhtInvHolds, PTL DEF Spec, RespondersStay

(***************************************************************************)
(* An answer: the candidates, met in any order, nearest first.             *)
(***************************************************************************)
Far == [id \in Ids |-> Xor(id, Target)]

LEMMA FarIs ==
    /\ Target \in Ids
    /\ \A id \in Ids : Far[id] = Xor(id, Target) /\ Far[id] \in Nat
    /\ \A a, b \in Ids : /\ Closer(a, b, Target) <=> Far[a] < Far[b]
                         /\ a # b => Far[a] # Far[b]
<1>1. Target \in Ids /\ \A id \in Ids : Far[id] = Xor(id, Target)
  BY SearchAssumption DEF Far
<1> QED
  BY <1>1, CloserIs

LEMMA MinOfTwo == \A a, b \in Nat : Min({a, b}) = IF a <= b THEN a ELSE b
<1> SUFFICES ASSUME NEW a \in Nat, NEW b \in Nat PROVE Min({a, b}) = IF a <= b THEN a ELSE b
  OBVIOUS
<1> DEFINE M == {a, b}
<1>1. IsFiniteSet(M) /\ M # {} /\ \A x \in M : x \in Int
  BY PairIsFinite
<1>2. Min(M) \in M /\ \A y \in M : Min(M) <= y
  <2> HIDE DEF M
  <2> QED
    BY <1>1, MinIs
<1> QED
  BY <1>2

\* What the first k candidates of an order make of the list.
Met(order, k) == {order[i] : i \in 1..k}

Nearest(order, k, list) ==
    /\ list \in Seq(Ids) /\ Ascending(list, Far)
    /\ Len(list) = IF k <= AnswerNodes THEN k ELSE AnswerNodes
    /\ ToSet(list) \subseteq Met(order, k)
    /\ \A x \in Met(order, k) \ ToSet(list) :
          k > AnswerNodes /\ \A j \in DOMAIN list : Far[list[j]] < Far[x]

LEMMA InsertClosestIs ==
    ASSUME NEW list \in Seq(Ids), NEW id \in Ids
    PROVE  LET i == Cardinality({j \in DOMAIN list : ~Closer(id, list[j], Target)})
               n == IF AnswerNodes <= Len(list) + 1 THEN AnswerNodes ELSE Len(list) + 1
           IN  /\ InsertClosest(list, id, Target) = Insert(list, i, id, n)
               /\ InsertClosest(list, id, Target) \in Seq(Ids)
               /\ n \in 0..Len(list) + 1
               /\ i = PlaceOf(list, id, Far)
<1> DEFINE P == {j \in DOMAIN list : ~Closer(id, list[j], Target)}
           i == Cardinality(P)
           n == IF AnswerNodes <= Len(list) + 1 THEN AnswerNodes ELSE Len(list) + 1
           l == Len(list)
<1>1. l \in Nat /\ l + 1 \in Nat /\ DOMAIN list = 1..l /\ \A j \in DOMAIN list : list[j] \in Ids
  OBVIOUS
<1>2. n \in 0..l + 1 /\ n = Min({AnswerNodes, l + 1})
  BY <1>1, SizesAre, MinOfTwo
<1>3. InsertClosest(list, id, Target) = Insert(list, i, id, n)
  BY <1>2 DEF InsertClosest, Insert
<1>4. i \in 0..l
  <2>1. P \in SUBSET (1..l)
    BY <1>1
  <2> HIDE DEF P, l
  <2>2. Cardinality(P) \in Nat /\ Cardinality(P) <= l
    BY <1>1, <2>1, IndexSet
  <2> QED
    BY <1>1, <2>2
<1>5. P = {j \in DOMAIN list : Far[list[j]] <= Far[id]}
  <2>1. ASSUME NEW j \in DOMAIN list
        PROVE  ~Closer(id, list[j], Target) <=> Far[list[j]] <= Far[id]
    <3>1. list[j] \in Ids /\ Far[list[j]] \in Nat /\ Far[id] \in Nat
      BY <1>1, FarIs
    <3>2. Closer(id, list[j], Target) <=> Far[id] < Far[list[j]]
      BY <3>1, FarIs
    <3> QED
      BY <3>1, <3>2
  <2> QED
    BY <2>1
<1> HIDE DEF i, n
<1>6. Insert(list, i, id, n) \in Seq(Ids)
  BY <1>2, <1>4, InsertIs
<1> QED
  BY <1>2, <1>3, <1>5, <1>6 DEF i, n, PlaceOf

LEMMA NearestStep ==
    ASSUME NEW m \in Nat, NEW order \in [1..m -> Ids],
           \A i, j \in 1..m : i # j => order[i] # order[j],
           NEW k \in Nat, k + 1 <= m, NEW list, Nearest(order, k, list)
    PROVE  Nearest(order, k + 1, InsertClosest(list, order[k + 1], Target))
<1> DEFINE id == order[k + 1]
           new == InsertClosest(list, id, Target)
           i == Cardinality({j \in DOMAIN list : ~Closer(id, list[j], Target)})
           n == IF AnswerNodes <= Len(list) + 1 THEN AnswerNodes ELSE Len(list) + 1
           l == Len(list)
           M == AnswerNodes
<1>1. /\ list \in Seq(Ids) /\ Ascending(list, Far) /\ l \in Nat /\ DOMAIN list = 1..l
      /\ l = IF k <= M THEN k ELSE M
      /\ ToSet(list) \subseteq Met(order, k)
      /\ \A x \in Met(order, k) \ ToSet(list) :
            k > M /\ \A j \in DOMAIN list : Far[list[j]] < Far[x]
      /\ M \in Nat /\ M > 0
      /\ \A j \in DOMAIN list : list[j] \in Ids
  <2>1. list \in Seq(Ids)
    BY DEF Nearest
  <2> QED
    BY <2>1, SizesAre DEF Nearest
<1>2. id \in Ids /\ k + 1 \in 1..m
  OBVIOUS
<1>3. id \notin Met(order, k)
  <2>1. \A j \in 1..k : j \in 1..m /\ j # k + 1
    OBVIOUS
  <2>2. \A j \in 1..k : order[j] # id
    BY <1>2, <2>1
  <2> QED
    BY <2>2 DEF Met
<1>4. Met(order, k + 1) = Met(order, k) \cup {id}
  <2>1. \A j : j \in 1..k + 1 <=> j \in 1..k \/ j = k + 1
    OBVIOUS
  <2> QED
    BY <2>1 DEF Met
<1>5. /\ new = Insert(list, i, id, n) /\ new \in Seq(Ids) /\ n \in 0..l + 1
      /\ i = PlaceOf(list, id, Far)
  BY <1>1, <1>2, InsertClosestIs
<1>6. \A j \in DOMAIN list : Far[list[j]] # Far[id]
  <2>1. \A j \in DOMAIN list : list[j] \in ToSet(list)
    BY DEF ToSet
  <2>2. \A j \in DOMAIN list : list[j] # id
    BY <1>1, <1>3, <2>1
  <2> QED
    BY <1>1, <1>2, <2>2, FarIs
<1>7. n = IF k + 1 <= M THEN k + 1 ELSE M
  BY <1>1
<1>8. k + 1 > M => n = l
  BY <1>1
<1>9. k + 1 <= M => n = l + 1
  BY <1>1
<1> HIDE DEF id, new, i, n, l, M
<1>10. \A x \in Ids : Far[x] \in Nat
  BY FarIs

<1>d. Placed(new, list, i, id, n, Far)
  <2>1. list \in Seq(Ids)
    BY <1>1
  <2>2. Ascending(list, Far)
    BY <1>1
  <2>3. i = PlaceOf(list, id, Far)
    BY <1>5
  <2>4. n \in 0..Len(list) + 1
    BY <1>5 DEF l
  <2>5. id \in Ids
    BY <1>2
  <2>6. Placed(Insert(list, i, id, n), list, i, id, n, Far)
    BY <1>6, <1>10, <2>1, <2>2, <2>3, <2>4, <2>5, SortedInsert
  <2> QED
    BY <1>5, <2>6
<1>11. i \in 0..l /\ n \in 0..l + 1
  BY <1>5, <1>d DEF l, Placed
<1>12. Ascending(new, Far)
  BY <1>d DEF Placed
<1>13. ToSet(new) \subseteq ToSet(list) \cup {id}
  BY <1>d DEF Placed
<1>14. n = l + 1 => ToSet(new) = ToSet(list) \cup {id}
  BY <1>d DEF Placed, l
<1>15. \A x \in (ToSet(list) \cup {id}) \ ToSet(new) : \A j \in 1..n : Far[new[j]] < Far[x]
  BY <1>d DEF Placed
<1>16. n = l /\ id \in ToSet(new) => \E j \in DOMAIN list : Far[id] < Far[list[j]]
  BY <1>d DEF Placed, l
<1>17. Len(new) = n /\ DOMAIN new = 1..n
  BY <1>1, <1>2, <1>5, <1>11, InsertIs DEF l
<1>18. ASSUME NEW x \in Met(order, k + 1) \ ToSet(new)
       PROVE  k + 1 > M /\ \A j \in DOMAIN new : Far[new[j]] < Far[x]
  <2>1. CASE x \in ToSet(list) \cup {id}
    <3>1. k + 1 > M
      BY <1>1, <1>9, <1>14, <1>18, <2>1
    <3> QED
      BY <1>15, <1>17, <1>18, <2>1, <3>1
  <2>2. CASE x \notin ToSet(list) \cup {id}
    <3>1. k > M /\ x \in Ids /\ \A j \in DOMAIN list : Far[list[j]] < Far[x]
      <4>1. x \in Met(order, k)
        BY <1>4, <1>18, <2>2
      <4>2. \A j \in 1..k : order[j] \in Ids
        OBVIOUS
      <4> QED
        BY <1>1, <2>2, <4>1, <4>2 DEF Met
    <3>2. ASSUME NEW j \in DOMAIN new PROVE Far[new[j]] < Far[x]
      <4>1. new[j] \in ToSet(new)
        BY DEF ToSet
      <4>2. CASE new[j] \in ToSet(list)
        <5>1. PICK h \in DOMAIN list : list[h] = new[j]
          BY <4>2 DEF ToSet
        <5> QED
          BY <3>1, <5>1
      <4>3. CASE new[j] = id
        <5>1. n = l
          BY <1>1, <1>8, <3>1
        <5>2. PICK h \in DOMAIN list : Far[id] < Far[list[h]]
          BY <1>16, <4>1, <4>3, <5>1
        <5>3. Far[list[h]] < Far[x] /\ Far[id] \in Nat /\ Far[list[h]] \in Nat /\ Far[x] \in Nat
          BY <1>1, <1>2, <1>10, <3>1
        <5> QED
          BY <4>3, <5>2, <5>3
      <4> QED
        BY <1>13, <4>1, <4>2, <4>3
    <3>3. k + 1 > M
      BY <1>1, <3>1
    <3> QED
      BY <3>2, <3>3
  <2> QED
    BY <2>1, <2>2
<1>19. ToSet(new) \subseteq Met(order, k + 1)
  BY <1>1, <1>4, <1>13
<1> QED
  BY <1>5, <1>7, <1>12, <1>17, <1>18, <1>19 DEF Nearest, new, id, M

LEMMA NearestStart == \A order : Nearest(order, 0, <<>>)
<1> SUFFICES ASSUME NEW order PROVE Nearest(order, 0, <<>>)
  OBVIOUS
<1>1. <<>> \in Seq(Ids) /\ Len(<<>>) = 0
  OBVIOUS
<1>2. DOMAIN <<>> = {}
  OBVIOUS
<1>3. ToSet(<<>>) = {} /\ Met(order, 0) = {}
  BY <1>2 DEF ToSet, Met
<1>4. Len(<<>>) = IF 0 <= AnswerNodes THEN 0 ELSE AnswerNodes
  BY <1>1, SizesAre
<1>5. Ascending(<<>>, Far)
  BY <1>2 DEF Ascending
<1> QED
  BY <1>1, <1>3, <1>4, <1>5 DEF Nearest

LEMMA ClosestNodesAre ==
    ASSUME NEW m \in Nat, NEW order \in [1..m -> Ids],
           \A i, j \in 1..m : i # j => order[i] # order[j]
    PROVE  Nearest(order, m, ClosestNodes(order, Target))
<1> DEFINE S == Seq(Ids)
           step == [p \in S \X Ids |-> InsertClosest(p[1], p[2], Target)]
           Folds(g) == g = [s \in SUBSET DOMAIN order |->
                              IF s = {} THEN <<>>
                              ELSE InsertClosest(g[s \ {Max(s)}], order[Max(s)], Target)]
           g == CHOOSE g : Folds(g)
<1>1. DOMAIN order = 1..m /\ \A i \in 1..m : order[i] \in Ids
  OBVIOUS
<1>2. ClosestNodes(order, Target) = g[DOMAIN order]
  BY DEF ClosestNodes, FoldLeft, MapThenFoldSet
<1>3. <<>> \in S
  OBVIOUS
<1>4. \A l \in S : \A id \in Ids :
         InsertClosest(l, id, Target) \in S /\ step[<<l, id>>] = InsertClosest(l, id, Target)
  <2>1. \A l \in S : \A id \in Ids : InsertClosest(l, id, Target) \in S
    BY InsertClosestIs
  <2> QED
    BY <2>1
<1>5. step \in [S \X Ids -> S]
  <2>1. \A p \in S \X Ids : InsertClosest(p[1], p[2], Target) \in S
    BY <1>4
  <2> QED
    BY <2>1
<1> HIDE DEF S, step
<1>6. \E h : Folds(h)
  <2>1. PICK h : IsFold(h, step, <<>>, order, SUBSET (1..m)) /\ \A s \in SUBSET (1..m) : h[s] \in S
    BY <1>1, <1>3, <1>5, FoldExists, Zenon
  <2>2. ASSUME NEW s \in SUBSET (1..m), s # {}
        PROVE  step[<<h[s \ {Max(s)}], order[Max(s)]>>] =
               InsertClosest(h[s \ {Max(s)}], order[Max(s)], Target)
    <3>1. IsFiniteSet(s) /\ \A x \in s : x \in Int /\ x \in 1..m
      BY <1>1, IndexSet
    <3>2. Max(s) \in 1..m
      BY <2>2, <3>1, MaxIs
    <3>3. h[s \ {Max(s)}] \in S /\ order[Max(s)] \in Ids
      BY <1>1, <2>1, <3>2
    <3> QED
      BY <1>4, <3>3
  <2>3. [s \in SUBSET (1..m) |-> IF s = {} THEN <<>>
                                 ELSE step[<<h[s \ {Max(s)}], order[Max(s)]>>]] =
        [s \in SUBSET (1..m) |-> IF s = {} THEN <<>>
                                 ELSE InsertClosest(h[s \ {Max(s)}], order[Max(s)], Target)]
    BY <2>2, Zenon
  <2>4. Folds(h)
    BY <1>1, <2>1, <2>3, Zenon DEF IsFold
  <2> QED
    BY <2>4
<1>7. Folds(g)
  BY <1>6, Zenon
<1> HIDE DEF g
<1> DEFINE T == {k \in Nat : k <= m => Nearest(order, k, g[1..k])}
<1>8. 0 \in T
  <2>1. g[{}] = <<>>
    BY <1>7
  <2>2. Nearest(order, 0, g[{}])
    BY <2>1, NearestStart
  <2>3. 1..0 = {}
    BY FoldUp
  <2>4. Nearest(order, 0, g[1..0])
    BY <2>2, <2>3, Zenon
  <2> QED
    BY <2>4
<1>9. ASSUME NEW k \in Nat, k \in T PROVE k + 1 \in T
  <2>1. SUFFICES ASSUME k + 1 <= m PROVE Nearest(order, k + 1, g[1..k + 1])
    OBVIOUS
  <2>2. Nearest(order, k, g[1..k])
    BY <1>9, <2>1
  <2>3. 1..k + 1 \in SUBSET (1..m) /\ k + 1 \in 1..m
    BY <1>1, <2>1
  <2>4. g[1..k + 1] = InsertClosest(g[(1..k + 1) \ {Max(1..k + 1)}], order[Max(1..k + 1)], Target)
    <3>1. 1..k + 1 # {}
      BY FoldUp
    <3> DEFINE s == 1..k + 1
    <3> HIDE DEF s
    <3> QED
      BY <1>1, <1>7, <2>3, <3>1 DEF s
  <2>5. g[1..k + 1] = InsertClosest(g[1..k], order[k + 1], Target)
    BY <2>4, FoldUp
  <2> HIDE DEF T, Folds
  <2>6. Nearest(order, k + 1, InsertClosest(g[1..k], order[k + 1], Target))
    BY <2>1, <2>2, NearestStep
  <2> QED
    BY <2>5, <2>6
<1> HIDE DEF T
<1>10. Nat \subseteq T
  BY <1>8, <1>9, CountUp
<1>11. m \in T
  BY <1>10
<1>12. Nearest(order, m, g[1..m])
  BY <1>11 DEF T
<1> QED
  BY <1>1, <1>2, <1>12

\* An order of a finite set meets all of it.
LEMMA OrderMeetsAll ==
    ASSUME NEW S, IsFiniteSet(S), NEW order \in SetToSeqs(S)
    PROVE  LET m == Cardinality(S) IN
           /\ m \in Nat /\ order \in [1..m -> S] /\ Len(order) = m
           /\ \A i, j \in 1..m : i # j => order[i] # order[j]
           /\ Met(order, m) = S
<1> DEFINE m == Cardinality(S)
<1>1. m \in Nat
  BY FS_CardinalityType
<1>2. order \in [1..m -> S] /\ \A i, j \in 1..m : i # j => order[i] # order[j]
  BY DEF SetToSeqs
<1> HIDE DEF m
<1>3. order \in Seq(S) /\ Len(order) = m
  BY <1>1, <1>2, ListIs
<1>4. order \in Injection(1..m, S)
  <2>1. IsInjective(order)
    BY <1>2 DEF IsInjective
  <2> QED
    BY <1>2, <2>1 DEF Injection
<1>5. Cardinality(1..m) = Cardinality(S)
  <2>1. Cardinality(1..m) = m
    BY <1>1, FS_Interval
  <2> QED
    BY <2>1 DEF m
<1>6. order \in Surjection(1..m, S)
  BY <1>4, <1>5, FS_Injection
<1>7. \A x \in S : \E i \in 1..m : order[i] = x
  BY <1>6 DEF Surjection
<1>8. Met(order, m) = S
  BY <1>2, <1>7 DEF Met
<1> QED
  BY <1>1, <1>2, <1>3, <1>8 DEF m

\* find_node and get_peers are answered with as many good nodes as the answer has
\* room for and there are in the buckets looked at, each once and nearest first,
\* and none that is left out is nearer than one that is in: in whatever order
\* buffer_closest_nodes() meets the nodes of send_closest_nodes().
THEOREM AnswersAreNearest == Spec => []AnswersAreClosest
<1>1. DhtInv => AnswersAreClosest
  <2> SUFFICES ASSUME DhtInv, NEW order \in SetToSeqs(AnswerCandidates(Target))
               PROVE  LET list == ClosestNodes(order, Target) IN
                      /\ Len(list) = Min({AnswerNodes, Len(order)})
                      /\ \A i, j \in DOMAIN list : i < j => Xor(list[i], Target) < Xor(list[j], Target)
                      /\ \A id \in AnswerCandidates(Target) \ ToSet(list), i \in DOMAIN list :
                            Xor(list[i], Target) < Xor(id, Target)
    BY DEF AnswersAreClosest
  <2> DEFINE S == AnswerCandidates(Target)
             m == Cardinality(S)
             list == ClosestNodes(order, Target)
  <2>1. S \in SUBSET Peers
    <3>1. \A id \in DOMAIN nodes : id \in Peers
      BY DEF DhtInv, TableInv
    <3> QED
      BY <3>1 DEF AnswerCandidates
  <2>2. IsFiniteSet(S)
    BY <2>1, PeersAreFinite
  <2>3. \A id \in S : id \in Ids
    BY <2>1, TableAssumption
  <2> HIDE DEF S
  <2>4. /\ m \in Nat /\ order \in [1..m -> S] /\ Len(order) = m
        /\ \A i, j \in 1..m : i # j => order[i] # order[j]
        /\ Met(order, m) = S
    BY <2>2, OrderMeetsAll DEF S
  <2> HIDE DEF m
  <2>5. order \in [1..m -> Ids]
    BY <2>3, <2>4
  <2>6. Nearest(order, m, list)
    BY <2>4, <2>5, ClosestNodesAre
  <2> HIDE DEF list
  <2>7. /\ list \in Seq(Ids) /\ Len(list) = IF m <= AnswerNodes THEN m ELSE AnswerNodes
        /\ \A i, j \in DOMAIN list : i < j => Far[list[i]] < Far[list[j]]
        /\ \A x \in S \ ToSet(list) : \A j \in DOMAIN list : Far[list[j]] < Far[x]
    BY <2>4, <2>6 DEF Nearest, Ascending
  <2>8. \A j \in DOMAIN list : list[j] \in Ids /\ Far[list[j]] = Xor(list[j], Target)
    BY <2>7, FarIs
  <2>9. \A x \in S : Far[x] = Xor(x, Target)
    BY <2>3, FarIs
  <2>10. Len(list) = Min({AnswerNodes, Len(order)})
    BY <2>4, <2>7, SizesAre, MinOfTwo
  <2>11. \A i, j \in DOMAIN list : i < j => Xor(list[i], Target) < Xor(list[j], Target)
    BY <2>7, <2>8
  <2>12. \A id \in S \ ToSet(list), i \in DOMAIN list : Xor(list[i], Target) < Xor(id, Target)
    BY <2>7, <2>8, <2>9
  <2> QED
    BY <2>10, <2>11, <2>12 DEF S, list
<1> QED
  BY <1>1, DhtInvHolds, PTL
===============================================================================

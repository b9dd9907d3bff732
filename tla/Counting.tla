------------------------------- MODULE Counting -------------------------------
(***************************************************************************)
(* Induction over finite sets and numbers, sums over finite sets, powers   *)
(* and division: what the proofs about wallets and DHT nodes share.        *)
(***************************************************************************)
EXTENDS Integers, FiniteSetTheorems, WellFoundedInduction, TLAPS

(***************************************************************************)
(* Induction.  A set of finite sets has a smallest member, and so has a    *)
(* set of natural numbers.                                                 *)
(***************************************************************************)
LEMMA MinimalSet ==
    ASSUME NEW S, IsFiniteSet(S), NEW B, B \subseteq SUBSET S, B # {}
    PROVE  \E s \in B : \A t \in B : t \subseteq s => t = s
<1>1. B \subseteq FiniteSubsetsOf(S)
  BY FS_Subset DEF FiniteSubsetsOf
<1>2. PICK s \in B : \A t \in B : <<t, s>> \notin StrictSubsetOrdering(S)
  BY <1>1, WFMin, FS_StrictSubsetOrderingWellFounded
<1> QED
  BY <1>2 DEF StrictSubsetOrdering

LEMMA CountUp ==
    ASSUME NEW T, 0 \in T, \A n \in Nat : n \in T => n + 1 \in T
    PROVE  Nat \subseteq T
<1> SUFFICES ASSUME NEW k \in Nat, k \notin T PROVE FALSE
  OBVIOUS
<1> DEFINE B == {1..n : n \in (0..k) \ T}
<1>1. 1..k \in B /\ B \subseteq SUBSET (1..k) /\ IsFiniteSet(1..k)
  <2>1. k \in (0..k) \ T
    OBVIOUS
  <2>2. ASSUME NEW n \in (0..k) \ T PROVE 1..n \in SUBSET (1..k)
    OBVIOUS
  <2>3. IsFiniteSet(1..k)
    BY FS_Interval
  <2>4. 1..k \in B
    BY <2>1, Zenon
  <2>5. B \subseteq SUBSET (1..k)
    BY <2>2, Zenon
  <2> QED
    BY <2>3, <2>4, <2>5
<1>2. PICK s \in B : \A t \in B : t \subseteq s => t = s
  <2> DEFINE K == 1..k
  <2>1. IsFiniteSet(K) /\ B \subseteq SUBSET K /\ B # {}
    BY <1>1, Zenon
  <2>2. \A S, C : IsFiniteSet(S) /\ C \subseteq SUBSET S /\ C # {} =>
           \E s \in C : \A t \in C : t \subseteq s => t = s
    BY MinimalSet
  <2> HIDE DEF B, K
  <2> QED
    BY <2>1, <2>2
<1>3. PICK n \in (0..k) \ T : s = 1..n
  BY <1>2
<1>4. n \in Nat \ {0} /\ n - 1 \in 0..k
  BY <1>3
<1>5. n - 1 \notin T
  BY <1>3, <1>4
<1>6. 1..n - 1 \in B /\ 1..n - 1 \subseteq s
  BY <1>3, <1>4, <1>5
<1>7. 1..n - 1 = 1..n
  BY <1>2, <1>3, <1>6
<1>8. n \in 1..n /\ n \notin 1..n - 1
  BY <1>4
<1> QED
  BY <1>7, <1>8

(***************************************************************************)
(* Sums.  g adds up the values v over every subset of S, element after     *)
(* element as MapThenSumSet does.                                          *)
(***************************************************************************)
Picked(s) == CHOOSE x \in s : TRUE

IsSum(g, v, D) ==
    g = [s \in D |-> IF s = {} THEN 0 ELSE v[Picked(s)] + g[s \ {Picked(s)}]]

SmallSubsets(S, n) == {s \in SUBSET S : Cardinality(s) <= n}

LEMMA PickedIs == \A s : s # {} => Picked(s) \in s
BY DEF Picked

LEMMA SmallSubsetsShrink ==
    ASSUME NEW S, IsFiniteSet(S), NEW n \in Nat, NEW s \in SmallSubsets(S, n + 1), s # {}
    PROVE  s \ {Picked(s)} \in SmallSubsets(S, n)
<1>1. IsFiniteSet(s) /\ Picked(s) \in s
  BY FS_Subset, PickedIs DEF SmallSubsets
<1>2. /\ Cardinality(s) \in Nat /\ Cardinality(s) <= n + 1
      /\ Cardinality(s \ {Picked(s)}) = Cardinality(s) - 1
  BY <1>1, FS_CardinalityType, FS_RemoveElement DEF SmallSubsets
<1> QED
  BY <1>2 DEF SmallSubsets

LEMMA SumExists ==
    ASSUME NEW S, IsFiniteSet(S), NEW v
    PROVE  \E g : IsSum(g, v, SUBSET S)
<1> DEFINE T == {n \in Nat : \E g : IsSum(g, v, SmallSubsets(S, n))}
<1>0. \A n \in Nat : \A s \in SmallSubsets(S, n) : s \in SmallSubsets(S, n + 1)
  <2> SUFFICES ASSUME NEW n \in Nat, NEW s \in SmallSubsets(S, n)
               PROVE  s \in SmallSubsets(S, n + 1)
    OBVIOUS
  <2>1. s \in SUBSET S /\ Cardinality(s) <= n
    BY DEF SmallSubsets
  <2>2. Cardinality(s) \in Nat
    BY <2>1, FS_Subset, FS_CardinalityType
  <2> QED
    BY <2>1, <2>2 DEF SmallSubsets
<1>1. 0 \in T
  <2>1. \A s \in SmallSubsets(S, 0) : s = {}
    BY FS_Subset, FS_CardinalityType, FS_EmptySet DEF SmallSubsets
  <2> DEFINE g == [s \in SmallSubsets(S, 0) |-> 0]
  <2>2. IsSum(g, v, SmallSubsets(S, 0))
    BY <2>1 DEF IsSum
  <2> QED
    BY <2>2
<1>2. ASSUME NEW n \in Nat, n \in T PROVE n + 1 \in T
  <2>1. PICK g : IsSum(g, v, SmallSubsets(S, n))
    BY <1>2
  <2> DEFINE h == [s \in SmallSubsets(S, n + 1) |->
                      IF s = {} THEN 0 ELSE v[Picked(s)] + g[s \ {Picked(s)}]]
  <2>2. \A s \in SmallSubsets(S, n) : h[s] = g[s]
    BY <1>0, <2>1 DEF IsSum
  <2>3. \A s \in SmallSubsets(S, n + 1) :
           s # {} => h[s \ {Picked(s)}] = g[s \ {Picked(s)}]
    <3> HIDE DEF h
    <3> QED
      BY <2>2, SmallSubsetsShrink
  <2>4. IsSum(h, v, SmallSubsets(S, n + 1))
    BY <2>3 DEF IsSum
  <2> QED
    BY <2>4
<1>3. Nat \subseteq T
  <2> HIDE DEF T
  <2> QED
    BY <1>1, <1>2, CountUp
<1>4. Cardinality(S) \in Nat /\ SmallSubsets(S, Cardinality(S)) = SUBSET S
  BY FS_CardinalityType, FS_Subset DEF SmallSubsets
<1> QED
  BY <1>3, <1>4

SumOver(v, S) == (CHOOSE g : IsSum(g, v, SUBSET S))[S]

LEMMA SumUnique ==
    ASSUME NEW s, IsFiniteSet(s),
           NEW g, NEW v, NEW D, IsSum(g, v, D), SUBSET s \subseteq D,
           NEW h, NEW w, NEW E, IsSum(h, w, E), SUBSET s \subseteq E,
           \A x \in s : v[x] = w[x]
    PROVE  g[s] = h[s]
<1> DEFINE B == {t \in SUBSET s : g[t] # h[t]}
<1>1. SUFFICES ASSUME B # {} PROVE FALSE
  OBVIOUS
<1>2. PICK t \in B : \A u \in B : u \subseteq t => u = t
  <2>1. B \subseteq SUBSET s
    OBVIOUS
  <2> HIDE DEF B
  <2> QED
    BY <1>1, <2>1, MinimalSet
<1>3. t \subseteq s /\ g[t] # h[t]
  OBVIOUS
<1>4. /\ g[t] = IF t = {} THEN 0 ELSE v[Picked(t)] + g[t \ {Picked(t)}]
      /\ h[t] = IF t = {} THEN 0 ELSE w[Picked(t)] + h[t \ {Picked(t)}]
  BY <1>3 DEF IsSum
<1>5. t # {} /\ Picked(t) \in t
  BY <1>3, <1>4, PickedIs
<1>6. g[t \ {Picked(t)}] = h[t \ {Picked(t)}]
  BY <1>2, <1>3, <1>5
<1> QED
  BY <1>3, <1>4, <1>5, <1>6

LEMMA SumIs ==
    ASSUME NEW S, IsFiniteSet(S), NEW v, NEW g, NEW w, NEW R,
           IsSum(g, w, SUBSET R), S \subseteq R, \A x \in S : v[x] = w[x]
    PROVE  g[S] = SumOver(v, S)
<1> DEFINE h == CHOOSE h : IsSum(h, v, SUBSET S)
<1>1. IsSum(h, v, SUBSET S)
  BY SumExists
<1>2. SumOver(v, S) = h[S]
  BY DEF SumOver
<1> HIDE DEF h
<1>3. SUBSET S \subseteq SUBSET S /\ SUBSET S \subseteq SUBSET R /\ \A x \in S : w[x] = v[x]
  OBVIOUS
<1>4. g[S] = h[S]
  BY <1>1, <1>3, SumUnique
<1> QED
  BY <1>2, <1>4

LEMMA SumPick ==
    ASSUME NEW S, IsFiniteSet(S), NEW v
    PROVE  SumOver(v, S) =
              IF S = {} THEN 0 ELSE v[Picked(S)] + SumOver(v, S \ {Picked(S)})
<1> DEFINE h == CHOOSE h : IsSum(h, v, SUBSET S)
<1>1. IsSum(h, v, SUBSET S)
  BY SumExists
<1>2. SumOver(v, S) = h[S]
  BY DEF SumOver
<1> HIDE DEF h
<1>3. h[S] = IF S = {} THEN 0 ELSE v[Picked(S)] + h[S \ {Picked(S)}]
  BY <1>1 DEF IsSum
<1>4. h[S \ {Picked(S)}] = SumOver(v, S \ {Picked(S)})
  BY <1>1, SumIs, FS_RemoveElement
<1> QED
  BY <1>2, <1>3, <1>4

LEMMA SumSame ==
    ASSUME NEW S, IsFiniteSet(S), NEW v, NEW w, \A x \in S : v[x] = w[x]
    PROVE  SumOver(v, S) = SumOver(w, S)
<1>1. PICK g : IsSum(g, v, SUBSET S)
  BY SumExists
<1>2. g[S] = SumOver(v, S) /\ g[S] = SumOver(w, S)
  BY <1>1, SumIs
<1> QED
  BY <1>2

LEMMA SumInt ==
    ASSUME NEW S, IsFiniteSet(S), NEW v, \A x \in S : v[x] \in Int
    PROVE  SumOver(v, S) \in Int
<1> DEFINE B == {s \in SUBSET S : SumOver(v, s) \notin Int}
<1>1. SUFFICES ASSUME B # {} PROVE FALSE
  OBVIOUS
<1>2. PICK t \in B : \A u \in B : u \subseteq t => u = t
  <2>1. B \subseteq SUBSET S
    OBVIOUS
  <2> HIDE DEF B
  <2> QED
    BY <1>1, <2>1, MinimalSet
<1>3. t \subseteq S /\ SumOver(v, t) \notin Int /\ IsFiniteSet(t)
  BY FS_Subset
<1>4. SumOver(v, t) = IF t = {} THEN 0 ELSE v[Picked(t)] + SumOver(v, t \ {Picked(t)})
  BY <1>3, SumPick
<1>5. t # {} /\ Picked(t) \in t
  BY <1>3, <1>4, PickedIs
<1>6. SumOver(v, t \ {Picked(t)}) \in Int
  BY <1>2, <1>3, <1>5
<1> QED
  BY <1>3, <1>4, <1>5, <1>6

LEMMA SumRemove ==
    ASSUME NEW S, IsFiniteSet(S), NEW v, \A x \in S : v[x] \in Int, NEW x \in S
    PROVE  SumOver(v, S) = v[x] + SumOver(v, S \ {x})
<1> DEFINE B == {s \in SUBSET S : \E y \in s : SumOver(v, s) # v[y] + SumOver(v, s \ {y})}
<1>1. SUFFICES ASSUME B # {} PROVE FALSE
  OBVIOUS
<1>2. PICK t \in B : \A u \in B : u \subseteq t => u = t
  <2>1. B \subseteq SUBSET S
    OBVIOUS
  <2> HIDE DEF B
  <2> QED
    BY <1>1, <2>1, MinimalSet
<1>3. t \subseteq S /\ IsFiniteSet(t)
  BY FS_Subset
<1>4. PICK y \in t : SumOver(v, t) # v[y] + SumOver(v, t \ {y})
  OBVIOUS
<1> DEFINE p == Picked(t)
<1>5. p \in t
  BY <1>4, PickedIs
<1>6. SumOver(v, t) = v[p] + SumOver(v, t \ {p})
  BY <1>3, <1>5, SumPick
<1> HIDE DEF p
<1>7. p # y
  BY <1>4, <1>6
<1>8. SumOver(v, t \ {p}) = v[y] + SumOver(v, (t \ {p}) \ {y})
  <2>1. t \ {p} \notin B /\ t \ {p} \in SUBSET S /\ y \in t \ {p}
    BY <1>2, <1>3, <1>4, <1>5, <1>7
  <2> QED
    BY <2>1
<1>9. SumOver(v, t \ {y}) = v[p] + SumOver(v, (t \ {y}) \ {p})
  <2>1. t \ {y} \notin B /\ t \ {y} \in SUBSET S /\ p \in t \ {y}
    BY <1>2, <1>3, <1>4, <1>5, <1>7
  <2> QED
    BY <2>1
<1>10. (t \ {p}) \ {y} = (t \ {y}) \ {p}
  OBVIOUS
<1>11. SumOver(v, (t \ {y}) \ {p}) \in Int
  <2>1. IsFiniteSet((t \ {y}) \ {p}) /\ \A z \in (t \ {y}) \ {p} : v[z] \in Int
    BY <1>3, FS_RemoveElement
  <2> QED
    BY <2>1, SumInt
<1>12. v[p] \in Int /\ v[y] \in Int
  BY <1>3, <1>4, <1>5
<1>13. SumOver(v, t) = v[p] + (v[y] + SumOver(v, (t \ {y}) \ {p}))
  BY <1>6, <1>8, <1>10
<1>14. v[y] + SumOver(v, t \ {y}) = v[y] + (v[p] + SumOver(v, (t \ {y}) \ {p}))
  BY <1>9
<1> DEFINE rest == SumOver(v, (t \ {y}) \ {p})
<1> HIDE DEF rest
<1>15. \A a, b \in Int : \A r \in Int : a + (b + r) = b + (a + r)
  OBVIOUS
<1>16. rest \in Int
  BY <1>11 DEF rest
<1>17. SumOver(v, t) = v[p] + (v[y] + rest) /\ v[y] + SumOver(v, t \ {y}) = v[y] + (v[p] + rest)
  BY <1>13, <1>14 DEF rest
<1> QED
  BY <1>4, <1>12, <1>15, <1>16, <1>17

LEMMA SumAdd ==
    ASSUME NEW S, IsFiniteSet(S), NEW v, NEW x, x \notin S,
           v[x] \in Int, \A y \in S : v[y] \in Int
    PROVE  SumOver(v, S \cup {x}) = SumOver(v, S) + v[x]
<1>1. /\ IsFiniteSet(S \cup {x}) /\ x \in S \cup {x} /\ (S \cup {x}) \ {x} = S
      /\ \A y \in S \cup {x} : v[y] \in Int
  BY FS_AddElement
<1>2. SumOver(v, S \cup {x}) = v[x] + SumOver(v, (S \cup {x}) \ {x})
  BY <1>1, SumRemove
<1>3. SumOver(v, S \cup {x}) = v[x] + SumOver(v, S)
  BY <1>1, <1>2, Zenon
<1>4. SumOver(v, S) \in Int
  BY SumInt
<1> QED
  BY <1>3, <1>4

LEMMA SumEmpty == \A v : SumOver(v, {}) = 0
BY SumPick, FS_EmptySet

LEMMA SumUnion ==
    ASSUME NEW S, IsFiniteSet(S), NEW R, IsFiniteSet(R), S \cap R = {},
           NEW v, \A x \in S \cup R : v[x] \in Int
    PROVE  SumOver(v, S \cup R) = SumOver(v, S) + SumOver(v, R)
<1> DEFINE B == {r \in SUBSET R : SumOver(v, S \cup r) # SumOver(v, S) + SumOver(v, r)}
<1>1. SUFFICES ASSUME B # {} PROVE FALSE
  OBVIOUS
<1>2. PICK t \in B : \A u \in B : u \subseteq t => u = t
  <2>1. B \subseteq SUBSET R
    OBVIOUS
  <2> HIDE DEF B
  <2> QED
    BY <1>1, <2>1, MinimalSet
<1>3. t \subseteq R /\ IsFiniteSet(t) /\ SumOver(v, S \cup t) # SumOver(v, S) + SumOver(v, t)
  BY FS_Subset
<1>4. SumOver(v, S) \in Int
  BY SumInt
<1>5. t # {}
  <2>1. S \cup {} = S
    OBVIOUS
  <2> QED
    BY <1>3, <1>4, <2>1, SumEmpty
<1>6. PICK x : x \in t
  BY <1>5
<1> DEFINE u == t \ {x}
<1>7. IsFiniteSet(u) /\ u \cup {x} = t /\ x \notin u /\ x \notin S /\ v[x] \in Int
  BY <1>3, <1>6, FS_RemoveElement
<1>8. IsFiniteSet(S \cup u) /\ (S \cup u) \cup {x} = S \cup t /\ x \notin S \cup u
  BY <1>7, FS_Union
<1>9. \A y \in S \cup u : v[y] \in Int
  BY <1>3
<1>10. SumOver(v, S \cup u) = SumOver(v, S) + SumOver(v, u)
  BY <1>2, <1>3, <1>6
<1> HIDE DEF u
<1>11. SumOver(v, t) = SumOver(v, u) + v[x]
  <2>1. \A y \in u : v[y] \in Int
    BY <1>9
  <2> QED
    BY <1>7, <2>1, SumAdd
<1>12. SumOver(v, S \cup t) = SumOver(v, S \cup u) + v[x]
  <2> DEFINE Su == S \cup u
  <2>1. IsFiniteSet(Su) /\ Su \cup {x} = S \cup t /\ x \notin Su /\ \A y \in Su : v[y] \in Int
    BY <1>8, <1>9
  <2> HIDE DEF Su
  <2>2. SumOver(v, Su \cup {x}) = SumOver(v, Su) + v[x]
    BY <1>7, <2>1, SumAdd
  <2> QED
    BY <2>1, <2>2, Zenon DEF Su
<1>13. SumOver(v, u) \in Int
  BY <1>7, <1>9, SumInt
<1>14. SumOver(v, S \cup t) = (SumOver(v, S) + SumOver(v, u)) + v[x]
  BY <1>10, <1>12
<1>15. (SumOver(v, S) + SumOver(v, u)) + v[x] = SumOver(v, S) + (SumOver(v, u) + v[x])
  BY <1>4, <1>7, <1>13
<1> QED
  BY <1>3, <1>11, <1>14, <1>15, Zenon

LEMMA SumNat ==
    ASSUME NEW S, IsFiniteSet(S), NEW v, \A x \in S : v[x] \in Nat
    PROVE  SumOver(v, S) \in Nat
<1> DEFINE B == {s \in SUBSET S : SumOver(v, s) \notin Nat}
<1>1. SUFFICES ASSUME B # {} PROVE FALSE
  OBVIOUS
<1>2. PICK t \in B : \A u \in B : u \subseteq t => u = t
  <2>1. B \subseteq SUBSET S
    OBVIOUS
  <2> HIDE DEF B
  <2> QED
    BY <1>1, <2>1, MinimalSet
<1>3. t \subseteq S /\ SumOver(v, t) \notin Nat /\ IsFiniteSet(t)
  BY FS_Subset
<1>4. SumOver(v, t) = IF t = {} THEN 0 ELSE v[Picked(t)] + SumOver(v, t \ {Picked(t)})
  BY <1>3, SumPick
<1>5. t # {} /\ Picked(t) \in t
  BY <1>3, <1>4, PickedIs
<1>6. SumOver(v, t \ {Picked(t)}) \in Nat
  BY <1>2, <1>3, <1>5
<1> QED
  BY <1>3, <1>4, <1>5, <1>6

LEMMA SumMoved ==
    ASSUME NEW S, IsFiniteSet(S), NEW f, \A x, y \in S : f[x] = f[y] => x = y,
           NEW v, NEW w, \A x \in S : v[x] \in Int /\ w[f[x]] = v[x]
    PROVE  SumOver(w, {f[x] : x \in S}) = SumOver(v, S)
<1> DEFINE Img(s) == {f[x] : x \in s}
           B == {s \in SUBSET S : SumOver(w, Img(s)) # SumOver(v, s)}
<1>1. SUFFICES ASSUME B # {} PROVE FALSE
  OBVIOUS
<1>2. PICK t \in B : \A u \in B : u \subseteq t => u = t
  <2>1. B \subseteq SUBSET S
    OBVIOUS
  <2> HIDE DEF B
  <2> QED
    BY <1>1, <2>1, MinimalSet
<1>3. t \subseteq S /\ IsFiniteSet(t) /\ SumOver(w, Img(t)) # SumOver(v, t)
  BY FS_Subset
<1>4. Img({}) = {}
  OBVIOUS
<1>5. t # {}
  BY <1>3, <1>4, SumEmpty
<1>6. PICK x : x \in t
  BY <1>5
<1> DEFINE u == t \ {x}
<1>7. IsFiniteSet(u) /\ u \cup {x} = t /\ x \notin u /\ u \subseteq S /\ x \in S
  BY <1>3, <1>6, FS_RemoveElement
<1>8. IsFiniteSet(Img(u))
  <2> DEFINE g == [y \in u |-> f[y]]
  <2>1. g \in Surjection(u, Img(u))
    BY DEF Surjection
  <2> HIDE DEF g, Img, u
  <2> QED
    BY <1>7, <2>1, FS_Surjection
<1>9. Img(t) = Img(u) \cup {f[x]} /\ f[x] \notin Img(u)
  BY <1>7
<1>10. SumOver(w, Img(u)) = SumOver(v, u)
  BY <1>2, <1>3, <1>6
<1>11. w[f[x]] \in Int /\ \A y \in Img(u) : w[y] \in Int
  BY <1>7
<1>12. v[x] \in Int /\ w[f[x]] = v[x] /\ \A y \in u : v[y] \in Int
  BY <1>7
<1> HIDE DEF u, Img
<1>13. SumOver(v, t) = SumOver(v, u) + v[x]
  BY <1>7, <1>12, SumAdd
<1>14. SumOver(w, Img(u) \cup {f[x]}) = SumOver(w, Img(u)) + w[f[x]]
  <2> DEFINE I == Img(u)
             z == f[x]
  <2>1. IsFiniteSet(I) /\ z \notin I /\ w[z] \in Int /\ \A y \in I : w[y] \in Int
    BY <1>8, <1>9, <1>11
  <2> HIDE DEF I, z
  <2>2. SumOver(w, I \cup {z}) = SumOver(w, I) + w[z]
    BY <2>1, SumAdd, SMTT(60)
  <2> QED
    BY <2>2, Zenon DEF I, z
<1> QED
  BY <1>3, <1>9, <1>10, <1>12, <1>13, <1>14

-----------------------------------------------------------------------------

(***************************************************************************)
(* Powers of two and division by them.                                     *)
(***************************************************************************)
Power(n) == 2^n

LEMMA PowerIs == \A n \in Nat : IsFiniteSet(SUBSET (1..n)) /\ Cardinality(SUBSET (1..n)) = Power(n)
<1>2. \A n \in Nat : IsFiniteSet(1..n) /\ Cardinality(1..n) = n
  BY FS_Interval
<1> QED
  BY <1>2, FS_SUBSET DEF Power

LEMMA Powers == Power(0) = 1 /\ \A n \in Nat : Power(n) \in Nat /\ Power(n) > 0 /\ Power(n + 1) = 2 * Power(n)
<1>4. Power(0) = 1
  <2>1. SUBSET (1..0) = {{}}
    OBVIOUS
  <2>2. Cardinality(SUBSET (1..0)) = 1
    BY <2>1, FS_Singleton
  <2> QED
    BY <2>2, PowerIs
<1>5. ASSUME NEW n \in Nat PROVE Power(n) \in Nat /\ Power(n) > 0 /\ Power(n + 1) = 2 * Power(n)
  <2> DEFINE S == SUBSET (1..n)
             T == {s \cup {n + 1} : s \in S}
             f == [s \in S |-> s \cup {n + 1}]
  <2>1. IsFiniteSet(S) /\ Cardinality(S) = Power(n)
    BY PowerIs
  <2>2. {} \in S
    OBVIOUS
  <2>3. Cardinality(S) \in Nat /\ Cardinality(S) # 0
    BY <2>1, <2>2, FS_CardinalityType, FS_EmptySet
  <2>4. f \in Bijection(S, T)
    <3>1. f \in [S -> T]
      OBVIOUS
    <3>2. \A a, b \in S : f[a] = f[b] => a = b
      <4>1. SUFFICES ASSUME NEW a \in S, NEW b \in S, f[a] = f[b] PROVE a = b
        OBVIOUS
      <4>2. n + 1 \notin a /\ n + 1 \notin b /\ a \cup {n + 1} = b \cup {n + 1}
        BY <4>1
      <4> QED
        BY <4>2
    <3>3. \A t \in T : \E s \in S : f[s] = t
      OBVIOUS
    <3>4. DOMAIN f = S
      OBVIOUS
    <3> HIDE DEF f, S, T
    <3> QED
      BY <3>1, <3>2, <3>3, <3>4 DEF Bijection, Injection, Surjection, IsInjective
  <2>5. IsFiniteSet(T) /\ Cardinality(T) = Cardinality(S)
    BY <2>1, <2>4, FS_Bijection DEF ExistsBijection
  <2>6. SUBSET (1..n + 1) = S \cup T
    <3>1. ASSUME NEW s \in SUBSET (1..n + 1), n + 1 \in s PROVE s \in T
      <4>1. s \ {n + 1} \in S /\ s = (s \ {n + 1}) \cup {n + 1}
        BY <3>1
      <4> QED
        BY <4>1
    <3>2. ASSUME NEW s \in SUBSET (1..n + 1), n + 1 \notin s PROVE s \in S
      BY <3>2
    <3>3. \A s \in S : s \in SUBSET (1..n + 1) /\ s \cup {n + 1} \in SUBSET (1..n + 1)
      OBVIOUS
    <3>4. T \subseteq SUBSET (1..n + 1) /\ S \subseteq SUBSET (1..n + 1)
      BY <3>3, ZenonT(60)
    <3> HIDE DEF S, T
    <3> QED
      BY <3>1, <3>2, <3>4
  <2>7. S \cap T = {}
    OBVIOUS
  <2>8. Cardinality(S \cup T) = Cardinality(S) + Cardinality(T) - 0
    <3> HIDE DEF S, T
    <3> QED
      BY <2>1, <2>5, <2>7, FS_Union, FS_EmptySet
  <2>9. Cardinality(SUBSET (1..n + 1)) = Power(n + 1)
    <3>1. n + 1 \in Nat
      OBVIOUS
    <3> QED
      BY <3>1, PowerIs
  <2>10. Power(n) \in Nat /\ Power(n) # 0
    BY <2>1, <2>3
  <2>11. Power(n + 1) = Power(n) + Power(n) - 0
    BY <2>1, <2>5, <2>6, <2>8, <2>9, Zenon
  <2>13. Power(n + 1) = 2 * Power(n)
    BY <2>10, <2>11
  <2> QED
    BY <2>10, <2>13
<1> QED
  BY <1>4, <1>5

LEMMA DivIs ==
    ASSUME NEW a \in Nat, NEW d \in Nat, d > 0
    PROVE  /\ a \div d \in Nat /\ a % d \in Nat /\ a % d < d
           /\ a = (a \div d) * d + (a % d)
OBVIOUS

LEMMA MulStep == \A k, d \in Nat : k >= 1 => k * d >= d
OBVIOUS

LEMMA DivUnique ==
    ASSUME NEW a \in Nat, NEW d \in Nat, d > 0, NEW k \in Nat, NEW s \in Nat, s < d,
           a = k * d + s
    PROVE  a \div d = k /\ a % d = s
<1> DEFINE q == a \div d
           r == a % d
<1>1. q \in Nat /\ r \in Nat /\ r < d /\ a = q * d + r
  BY DivIs
<1> HIDE DEF q, r
<1>2. q = k
  <2>1. CASE q > k
    <3>1. q - k \in Nat /\ q - k >= 1
      BY <1>1, <2>1
    <3>2. (q - k) * d >= d
      BY <3>1, MulStep
    <3>3. (q - k) * d = q * d - k * d
      BY <1>1
    <3> QED
      BY <1>1, <3>2, <3>3
  <2>2. CASE q < k
    <3>1. k - q \in Nat /\ k - q >= 1
      BY <1>1, <2>2
    <3>2. (k - q) * d >= d
      BY <3>1, MulStep
    <3>3. (k - q) * d = k * d - q * d
      BY <1>1
    <3> QED
      BY <1>1, <3>2, <3>3
  <2> QED
    BY <1>1, <2>1, <2>2
<1> QED
  BY <1>1, <1>2 DEF q, r

LEMMA DivHalf ==
    ASSUME NEW a \in Nat, NEW p \in Nat, p > 0
    PROVE  /\ a \div (2 * p) = (a \div p) \div 2
           /\ a \div p = 2 * (a \div (2 * p)) + ((a \div p) % 2)
<1> DEFINE q == a \div p
           r == a % p
           k == q \div 2
           e == q % 2
<1>1. q \in Nat /\ r \in Nat /\ r < p /\ a = q * p + r
  BY DivIs
<1> HIDE DEF q, r
<1>2. k \in Nat /\ e \in {0, 1} /\ q = 2 * k + e
  BY <1>1
<1> HIDE DEF k, e
<1>3. a = k * (2 * p) + (e * p + r)
  BY <1>1, <1>2
<1>4. e * p + r \in Nat /\ e * p + r < 2 * p /\ 2 * p \in Nat /\ 2 * p > 0
  BY <1>1, <1>2
<1>5. a \div (2 * p) = k
  BY <1>2, <1>3, <1>4, DivUnique
<1> QED
  BY <1>1, <1>2, <1>5 DEF q, k, e

LEMMA PowersAdd == \A m, n \in Nat : Power(m + n) = Power(m) * Power(n)
<1> SUFFICES ASSUME NEW m \in Nat PROVE \A n \in Nat : Power(m + n) = Power(m) * Power(n)
  OBVIOUS
<1> DEFINE T == {n \in Nat : Power(m + n) = Power(m) * Power(n)}
<1>1. 0 \in T
  BY Powers
<1>2. ASSUME NEW n \in Nat, n \in T PROVE n + 1 \in T
  <2>1. Power(m + n) = Power(m) * Power(n)
    BY <1>2
  <2>2. m + n \in Nat /\ m + (n + 1) = (m + n) + 1
    OBVIOUS
  <2>3. Power(m + (n + 1)) = 2 * Power(m + n) /\ Power(n + 1) = 2 * Power(n)
    BY <2>2, Powers
  <2>4. Power(m) \in Nat /\ Power(n) \in Nat
    BY Powers
  <2>5. 2 * (Power(m) * Power(n)) = Power(m) * (2 * Power(n))
    BY <2>4
  <2> QED
    BY <2>1, <2>3, <2>5
<1>3. Nat \subseteq T
  <2> HIDE DEF T
  <2> QED
    BY <1>1, <1>2, CountUp
<1> QED
  BY <1>3

(***************************************************************************)
(* Largest and smallest members.                                           *)
(***************************************************************************)
LEMMA GreatestExists ==
    ASSUME NEW S, IsFiniteSet(S), S # {}, \A x \in S : x \in Int
    PROVE  \E x \in S : \A y \in S : x >= y
<1> DEFINE B == {s \in SUBSET S : s # {} /\ ~\E x \in s : \A y \in s : x >= y}
<1>1. SUFFICES ASSUME B # {} PROVE FALSE
  OBVIOUS
<1>2. PICK t \in B : \A u \in B : u \subseteq t => u = t
  <2>1. B \subseteq SUBSET S
    OBVIOUS
  <2> HIDE DEF B
  <2> QED
    BY <1>1, <2>1, MinimalSet
<1>3. t \subseteq S /\ t # {} /\ ~\E x \in t : \A y \in t : x >= y
  OBVIOUS
<1>4. PICK a \in t : TRUE
  BY <1>3
<1>5. t \ {a} \notin B
  BY <1>2, <1>4
<1>6. t \ {a} # {}
  BY <1>3, <1>4
<1>7. PICK b \in t \ {a} : \A y \in t \ {a} : b >= y
  BY <1>3, <1>5, <1>6
<1>8. a \in Int /\ \A y \in t : y \in Int
  BY <1>3, <1>4
<1>9. CASE a >= b
  BY <1>3, <1>4, <1>7, <1>8, <1>9
<1>10. CASE b >= a
  BY <1>3, <1>4, <1>7, <1>8, <1>10
<1> QED
  BY <1>7, <1>8, <1>9, <1>10

LEMMA LeastExists ==
    ASSUME NEW S, IsFiniteSet(S), S # {}, \A x \in S : x \in Int
    PROVE  \E x \in S : \A y \in S : x <= y
<1> DEFINE N == {-x : x \in S}
<1>0. PICK a \in S : TRUE
  OBVIOUS
<1>1. IsFiniteSet(N) /\ N # {} /\ \A x \in N : x \in Int
  <2>1. [x \in S |-> -x] \in Surjection(S, N)
    BY DEF Surjection
  <2>2. IsFiniteSet(N)
    BY <2>1, FS_Surjection
  <2>3. -a \in N /\ \A y \in S : -y \in Int
    BY <1>0
  <2> QED
    BY <2>2, <2>3
<1>2. PICK z \in N : \A y \in N : z >= y
  <2> HIDE DEF N
  <2> QED
    BY <1>1, GreatestExists
<1>3. PICK x \in S : z = -x
  OBVIOUS
<1>4. \A y \in S : x <= y
  <2>1. \A y \in S : z >= -y /\ y \in Int
    BY <1>2
  <2> QED
    BY <1>3, <2>1
<1> QED
  BY <1>4
===============================================================================

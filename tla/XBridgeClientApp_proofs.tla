----------------------- MODULE XBridgeClientApp_proofs ------------------------
(***************************************************************************)
(* What holds of the client's orders, payments and addresses, for all      *)
(* wallets, orders and hubs: the three parts never touch each other's      *)
(* variables, so each has an inductive invariant of its own (WalletInv,    *)
(* BookInv, OrderInv).                                                     *)
(***************************************************************************)
EXTENDS XBridgeClientApp, Counting

(***************************************************************************)
(* What a set of outputs is worth.                                         *)
(***************************************************************************)
Values(A) == [o \in A |-> o.value]

LEMMA TotalIs ==
    ASSUME NEW A, IsFiniteSet(A)
    PROVE  Total(A) = SumOver(Values(A), A)
<1> DEFINE Rec(g) == g = [s \in SUBSET A |->
             IF s = {} THEN 0
             ELSE (CHOOSE x \in s : TRUE).value + g[s \ {CHOOSE x \in s : TRUE}]]
           h == CHOOSE iter : Rec(iter)
<1>1. Total(A) = h[A]
  BY DEF Total, MapThenSumSet, MapThenFoldSet
<1>2. \A g : Rec(g) <=> IsSum(g, Values(A), SUBSET A)
  BY DEF IsSum, Picked, Values
<1>3. \E g : Rec(g)
  BY <1>2, SumExists, ZenonT(60)
<1>4. Rec(h)
  BY <1>3
<1> HIDE DEF h
<1>5. IsSum(h, Values(A), SUBSET A)
  BY <1>2, <1>4
<1>6. h[A] = SumOver(Values(A), A)
  BY <1>5, SumIs
<1> QED
  BY <1>1, <1>6

Worth(A) == IsFiniteSet(A) /\ \A o \in A : o.value \in Nat

LEMMA TotalNat ==
    ASSUME NEW A, Worth(A)
    PROVE  Total(A) \in Nat
<1>1. IsFiniteSet(A) /\ \A o \in A : Values(A)[o] \in Nat
  BY DEF Worth, Values
<1> QED
  BY <1>1, TotalIs, SumNat

LEMMA TotalUnion ==
    ASSUME NEW A, Worth(A), NEW B, Worth(B), A \cap B = {}
    PROVE  Worth(A \cup B) /\ Total(A \cup B) = Total(A) + Total(B)
<1> DEFINE v == Values(A \cup B)
<1>1. Worth(A \cup B)
  BY FS_Union DEF Worth
<1>2. /\ \A o \in A \cup B : v[o] \in Int
      /\ \A o \in A : v[o] = Values(A)[o]
      /\ \A o \in B : v[o] = Values(B)[o]
  BY <1>1 DEF Worth, Values
<1>3. IsFiniteSet(A) /\ IsFiniteSet(B) /\ IsFiniteSet(A \cup B)
  BY <1>1 DEF Worth
<1>4. Total(A \cup B) = SumOver(v, A \cup B)
  BY <1>3, TotalIs
<1> HIDE DEF v
<1>5. SumOver(v, A \cup B) = SumOver(v, A) + SumOver(v, B)
  BY <1>2, <1>3, SumUnion
<1>6. SumOver(v, A) = Total(A) /\ SumOver(v, B) = Total(B)
  BY <1>2, <1>3, SumSame, TotalIs
<1> QED
  BY <1>1, <1>4, <1>5, <1>6

LEMMA TotalPart ==
    ASSUME NEW A, Worth(A), NEW B, B \subseteq A
    PROVE  /\ Worth(B) /\ Worth(A \ B)
           /\ Total(A \ B) = Total(A) - Total(B) /\ Total(B) <= Total(A)
<1>1. Worth(B) /\ Worth(A \ B)
  BY FS_Subset DEF Worth
<1>2. B \cap (A \ B) = {} /\ B \cup (A \ B) = A
  OBVIOUS
<1> DEFINE C == A \ B
<1> HIDE DEF C
<1>3. Total(B \cup C) = Total(B) + Total(C)
  BY <1>1, <1>2, TotalUnion DEF C
<1>4. Total(A) = Total(B) + Total(C)
  BY <1>2, <1>3, Zenon DEF C
<1>5. Total(B) \in Nat /\ Total(C) \in Nat
  BY <1>1, TotalNat DEF C
<1>6. Total(C) = Total(A) - Total(B) /\ Total(B) <= Total(A)
  BY <1>4, <1>5
<1> QED
  BY <1>1, <1>6 DEF C

LEMMA TotalOne ==
    ASSUME NEW o, o.value \in Nat
    PROVE  Worth({o}) /\ Total({o}) = o.value
<1>1. Worth({o})
  BY FS_Singleton DEF Worth
<1>2. Total({o}) = SumOver(Values({o}), {o})
  BY <1>1, TotalIs DEF Worth
<1>3. /\ IsFiniteSet({}) /\ o \notin {} /\ {} \cup {o} = {o}
      /\ Values({o})[o] = o.value /\ Values({o})[o] \in Int
  BY FS_EmptySet DEF Values
<1> DEFINE v == Values({o})
<1> HIDE DEF v
<1>4. SumOver(v, {} \cup {o}) = SumOver(v, {}) + v[o]
  <2>1. v[o] \in Int /\ \A y \in {} : v[y] \in Int
    BY <1>3 DEF v
  <2> QED
    BY <1>3, <2>1, SumAdd, ZenonT(60)
<1>5. SumOver(v, {o}) = 0 + v[o]
  BY <1>3, <1>4, SumEmpty
<1> QED
  BY <1>1, <1>2, <1>3, <1>5 DEF v

-----------------------------------------------------------------------------
(***************************************************************************)
(* The balance of the wallet, for outputs u, payments p and payouts q.     *)
(***************************************************************************)
Sent(q) == {s \in Swaps : q[s] # "unsent"}
Reverted(q) == {s \in Swaps : q[s] = "reverted"}
Outs(p) == [s \in Swaps |-> p[s].out]
Inputs(p) == [s \in Swaps |-> Cardinality(p[s].ins)]

Fees(q) == (Cardinality(Sent(q)) + Cardinality(Reverted(q))) * Fee
Gone(u, p, q) == SumOver(Value, Coins) - Total(u) - SumOver(Outs(p), Sent(q) \ Reverted(q))
Balanced(u, p, q) ==
    /\ Fees(q) <= Gone(u, p, q)
    /\ Gone(u, p, q) <= Fees(q) + SumOver(Inputs(p), Sent(q))

LEMMA ValueSum ==
    MapThenSumSet(LAMBDA c : Value[c], Coins) = SumOver(Value, Coins)
<1> DEFINE Rec(g) == g = [s \in SUBSET Coins |->
             IF s = {} THEN 0
             ELSE Value[CHOOSE x \in s : TRUE] + g[s \ {CHOOSE x \in s : TRUE}]]
           h == CHOOSE iter : Rec(iter)
<1>1. MapThenSumSet(LAMBDA c : Value[c], Coins) = h[Coins]
  BY DEF MapThenSumSet, MapThenFoldSet
<1>2. \A g : Rec(g) <=> IsSum(g, Value, SUBSET Coins)
  BY DEF IsSum, Picked
<1>3. IsFiniteSet(Coins)
  BY WalletAssumption
<1>4. \E g : Rec(g)
  BY <1>2, <1>3, SumExists, ZenonT(60)
<1>5. Rec(h)
  BY <1>4
<1> HIDE DEF h
<1>6. IsSum(h, Value, SUBSET Coins)
  BY <1>2, <1>5
<1>7. h[Coins] = SumOver(Value, Coins)
  BY <1>3, <1>6, SumIs
<1> QED
  BY <1>1, <1>7

LEMMA OutSum ==
    ASSUME NEW p, NEW D, D \subseteq Swaps
    PROVE  MapThenSumSet(LAMBDA s : p[s].out, D) = SumOver(Outs(p), D)
<1> DEFINE Rec(g) == g = [s \in SUBSET D |->
             IF s = {} THEN 0
             ELSE p[CHOOSE x \in s : TRUE].out + g[s \ {CHOOSE x \in s : TRUE}]]
           h == CHOOSE iter : Rec(iter)
<1>1. MapThenSumSet(LAMBDA s : p[s].out, D) = h[D]
  BY DEF MapThenSumSet, MapThenFoldSet
<1>2. \A g : Rec(g) <=> IsSum(g, Outs(p), SUBSET D)
  BY DEF IsSum, Picked, Outs
<1>3. IsFiniteSet(D)
  BY WalletAssumption, FS_Subset
<1>4. \E g : Rec(g)
  BY <1>2, <1>3, SumExists, ZenonT(60)
<1>5. Rec(h)
  BY <1>4
<1> HIDE DEF h
<1>6. IsSum(h, Outs(p), SUBSET D)
  BY <1>2, <1>5
<1>7. h[D] = SumOver(Outs(p), D)
  BY <1>3, <1>6, SumIs
<1> QED
  BY <1>1, <1>7

LEMMA InputSum ==
    ASSUME NEW p, NEW D, D \subseteq Swaps
    PROVE  MapThenSumSet(LAMBDA s : Cardinality(p[s].ins), D) = SumOver(Inputs(p), D)
<1> DEFINE Rec(g) == g = [s \in SUBSET D |->
             IF s = {} THEN 0
             ELSE Cardinality(p[CHOOSE x \in s : TRUE].ins) + g[s \ {CHOOSE x \in s : TRUE}]]
           h == CHOOSE iter : Rec(iter)
<1>1. MapThenSumSet(LAMBDA s : Cardinality(p[s].ins), D) = h[D]
  BY DEF MapThenSumSet, MapThenFoldSet
<1>2. \A g : Rec(g) <=> IsSum(g, Inputs(p), SUBSET D)
  BY DEF IsSum, Picked, Inputs
<1>3. IsFiniteSet(D)
  BY WalletAssumption, FS_Subset
<1>4. \E g : Rec(g)
  BY <1>2, <1>3, SumExists, ZenonT(60)
<1>5. Rec(h)
  BY <1>4
<1> HIDE DEF h
<1>6. IsSum(h, Inputs(p), SUBSET D)
  BY <1>2, <1>5
<1>7. h[D] = SumOver(Inputs(p), D)
  BY <1>3, <1>6, SumIs
<1> QED
  BY <1>1, <1>7

BalanceTypes(u, p) ==
    /\ Worth(u)
    /\ \A s \in Swaps : p[s].out \in Nat /\ IsFiniteSet(p[s].ins)

LEMMA BalanceInts ==
    ASSUME NEW u, NEW p, BalanceTypes(u, p), NEW q
    PROVE  /\ IsFiniteSet(Sent(q)) /\ Sent(q) \subseteq Swaps
           /\ IsFiniteSet(Reverted(q)) /\ Reverted(q) \subseteq Swaps
           /\ Fees(q) \in Nat /\ Total(u) \in Nat /\ SumOver(Value, Coins) \in Nat
           /\ \A D : D \subseteq Swaps => SumOver(Outs(p), D) \in Nat /\ SumOver(Inputs(p), D) \in Nat
           /\ Gone(u, p, q) \in Int
<1>1. /\ Sent(q) \subseteq Swaps /\ Reverted(q) \subseteq Swaps
      /\ \A D : D \subseteq Swaps => IsFiniteSet(D)
  BY WalletAssumption, FS_Subset DEF Sent, Reverted
<1>2. Cardinality(Sent(q)) \in Nat /\ Cardinality(Reverted(q)) \in Nat /\ Fee \in Nat
  BY <1>1, FS_CardinalityType, WalletAssumption
<1>3. Fees(q) \in Nat
  BY <1>2 DEF Fees
<1>4. Total(u) \in Nat
  BY TotalNat DEF BalanceTypes
<1>5. SumOver(Value, Coins) \in Nat
  BY WalletAssumption, SumNat
<1>6. ASSUME NEW D, D \subseteq Swaps
      PROVE  SumOver(Outs(p), D) \in Nat /\ SumOver(Inputs(p), D) \in Nat
  <2>1. \A s \in D : Outs(p)[s] \in Nat /\ Inputs(p)[s] \in Nat
    BY <1>6, FS_CardinalityType DEF BalanceTypes, Outs, Inputs
  <2> QED
    BY <1>1, <1>6, <2>1, SumNat
<1>7. SumOver(Outs(p), Sent(q) \ Reverted(q)) \in Nat
  <2>1. Sent(q) \ Reverted(q) \subseteq Swaps
    BY <1>1
  <2> QED
    BY <1>6, <2>1
<1>8. Gone(u, p, q) \in Int
  BY <1>4, <1>5, <1>7 DEF Gone
<1> QED
  BY <1>1, <1>3, <1>4, <1>5, <1>6, <1>8

LEMMA MoneyIs ==
    BalanceTypes(unspent, payment) => (MoneyAccounted <=> Balanced(unspent, payment, payout))
<1> SUFFICES ASSUME BalanceTypes(unspent, payment)
             PROVE  MoneyAccounted <=> Balanced(unspent, payment, payout)
  OBVIOUS
<1> DEFINE S == Sent(payout)
           R == Reverted(payout)
<1>1. S \subseteq Swaps /\ S \ R \subseteq Swaps
  BY DEF Sent
<1>2. /\ MapThenSumSet(LAMBDA s : payment[s].out, S \ R) = SumOver(Outs(payment), S \ R)
      /\ MapThenSumSet(LAMBDA s : Cardinality(payment[s].ins), S) = SumOver(Inputs(payment), S)
  BY <1>1, OutSum, InputSum
<1>3. MoneyAccounted <=>
         SumOver(Value, Coins) - Total(unspent) - SumOver(Outs(payment), S \ R)
            \in (Cardinality(S) + Cardinality(R)) * Fee
                ..(Cardinality(S) + Cardinality(R)) * Fee + SumOver(Inputs(payment), S)
  BY <1>2, ValueSum DEF MoneyAccounted, Sent, Reverted
<1>4. Gone(unspent, payment, payout) \in
         Fees(payout)..Fees(payout) + SumOver(Inputs(payment), S)
      <=> Balanced(unspent, payment, payout)
  BY <1>1, BalanceInts DEF Balanced
<1> QED
  BY <1>3, <1>4 DEF Gone, Fees

-----------------------------------------------------------------------------
(***************************************************************************)
(* Payments.                                                               *)
(***************************************************************************)
LEMMA MoneyIsNext ==
    BalanceTypes(unspent', payment') =>
        (MoneyAccounted' <=> Balanced(unspent', payment', payout'))
<1>1. (BalanceTypes(unspent, payment) =>
          (MoneyAccounted <=> Balanced(unspent, payment, payout)))'
  BY MoneyIs, PTL
<1> QED
  BY <1>1

LEMMA Remainders ==
    ASSUME NEW w \in Nat
    PROVE  /\ \A x \in 0..w - 1 : x % w = x
           /\ \A x \in Int : -w <= x /\ x < 0 => x % w = x + w
           /\ w > 0 => \A x \in Int : x % w \in 0..w - 1
OBVIOUS

LEMMA RevertIs ==
    ASSUME NEW out \in Nat, out + Fee < Word
    PROVE  /\ Word \in Nat \ {0} /\ Fee \in Nat \ {0}
           /\ RevertOutput(out + Fee) =
                 IF out < Fee THEN out - Fee + Word ELSE out - Fee
<1>1. Word \in Nat \ {0} /\ Fee \in Nat \ {0}
  BY WalletAssumption
<1>2. RevertOutput(out + Fee) = (out - Fee) % Word
  BY <1>1 DEF RevertOutput
<1>3. CASE out < Fee
  <2> DEFINE x == out - Fee
  <2>1. x \in Int /\ -Word <= x /\ x < 0
    BY <1>1, <1>3
  <2> HIDE DEF x
  <2>2. x % Word = x + Word
    BY <1>1, <2>1, Remainders
  <2> QED
    BY <1>1, <1>2, <1>3, <2>2 DEF x
<1>4. CASE ~(out < Fee)
  <2> DEFINE x == out - Fee
  <2>1. x \in 0..Word - 1
    BY <1>1, <1>4
  <2> HIDE DEF x
  <2>2. x % Word = x
    BY <1>1, <2>1, Remainders
  <2> QED
    BY <1>1, <1>2, <1>4, <2>2 DEF x
<1> QED
  BY <1>3, <1>4

LEMMA WalletFacts ==
    ASSUME WalletInv
    PROVE  /\ BalanceTypes(unspent, payment)
           /\ Balanced(unspent, payment, payout)
           /\ Total(unspent) \in Nat /\ Total(unspent) < Word
           /\ Word \in Nat \ {0} /\ Fee \in Nat \ {0}
           /\ \A s \in Swaps : Amount[s] \in Nat /\ Amount[s] + Fee < Word
<1>1. BalanceTypes(unspent, payment)
  BY DEF WalletInv, WalletTypeOK, Output, BalanceTypes, Worth
<1>2. Balanced(unspent, payment, payout)
  BY <1>1, MoneyIs DEF WalletInv
<1>3. SumOver(Value, Coins) < Word
  BY WalletAssumption, ValueSum
<1>4. /\ Total(unspent) \in Nat /\ SumOver(Value, Coins) \in Nat /\ Fees(payout) \in Nat
      /\ Sent(payout) \subseteq Swaps
      /\ \A D : D \subseteq Swaps => SumOver(Outs(payment), D) \in Nat
  BY <1>1, BalanceInts
<1>5. SumOver(Outs(payment), Sent(payout) \ Reverted(payout)) \in Nat
  <2>1. Sent(payout) \ Reverted(payout) \subseteq Swaps
    BY <1>4
  <2> QED
    BY <1>4, <2>1
<1>6. Total(unspent) < Word
  BY <1>2, <1>3, <1>4, <1>5, WalletAssumption DEF Balanced, Gone
<1>7. \A s \in Swaps : Amount[s] \in Nat /\ Amount[s] + Fee < Word
  BY WalletAssumption
<1> QED
  BY <1>1, <1>2, <1>4, <1>6, <1>7, WalletAssumption

LEMMA WalletKept ==
    ASSUME WalletTypeOK', IsFiniteSet(unspent'), \A s \in Swaps : IsFiniteSet(payment'[s].ins),
           PaymentsBuilt', OutputsFollow', Balanced(unspent', payment', payout')
    PROVE  WalletInv'
<1>1. BalanceTypes(unspent', payment')
  BY DEF WalletTypeOK, Output, BalanceTypes, Worth
<1>2. MoneyAccounted'
  BY <1>1, MoneyIsNext
<1> QED
  BY <1>2 DEF WalletInv

LEMMA BalancedSame ==
    ASSUME NEW u, NEW p, NEW q, Balanced(u, p, q), NEW r, \A s \in Sent(q) : r[s] = p[s]
    PROVE  Balanced(u, r, q)
<1>1. IsFiniteSet(Sent(q)) /\ IsFiniteSet(Sent(q) \ Reverted(q)) /\ Sent(q) \subseteq Swaps
  BY WalletAssumption, FS_Subset DEF Sent
<1>2. \A s \in Sent(q) : Outs(r)[s] = Outs(p)[s] /\ Inputs(r)[s] = Inputs(p)[s]
  BY <1>1 DEF Outs, Inputs
<1>3. SumOver(Inputs(r), Sent(q)) = SumOver(Inputs(p), Sent(q))
  BY <1>1, <1>2, SumSame
<1>4. SumOver(Outs(r), Sent(q) \ Reverted(q)) = SumOver(Outs(p), Sent(q) \ Reverted(q))
  <2> DEFINE D == Sent(q) \ Reverted(q)
  <2>1. IsFiniteSet(D) /\ \A s \in D : Outs(r)[s] = Outs(p)[s]
    BY <1>1, <1>2
  <2> HIDE DEF D
  <2>2. SumOver(Outs(r), D) = SumOver(Outs(p), D)
    BY <2>1, SumSame
  <2> QED
    BY <2>2 DEF D
<1> QED
  BY <1>3, <1>4 DEF Balanced, Gone

LEMMA PaymentIsWorth ==
    ASSUME WalletInv, NEW s \in Swaps, NEW agreed \in AgreedAmounts(s),
           NEW ins \in Selections(agreed + Fee), NEW in \in Believed(ins), in >= agreed + Fee
    PROVE  LET rest == Rest(in, agreed + Fee)
           IN  /\ ins \subseteq Output /\ IsFiniteSet(ins)
               /\ (agreed + Fee) - Fee = agreed /\ agreed \in 0..Word - 1
               /\ agreed + Fee < Word
               /\ rest \in 0..Word - 1
               /\ Total(ins) - rest - agreed \in Fee..Fee + Cardinality(ins)
<1>1. ins \subseteq unspent
  BY DEF Selections
<1>2. Worth(unspent) /\ unspent \subseteq Output
  BY WalletFacts DEF BalanceTypes, WalletInv, WalletTypeOK
<1>3. Worth(ins) /\ Total(ins) <= Total(unspent) /\ Total(ins) \in Nat
  BY <1>1, <1>2, TotalPart, TotalNat
<1>4. IsFiniteSet(ins) /\ Cardinality(ins) \in Nat
  BY <1>3, FS_CardinalityType DEF Worth
<1>5. agreed \in Nat /\ agreed <= Amount[s] /\ Amount[s] \in Nat
  BY WalletFacts DEF AgreedAmounts
<1>6. in \in Nat /\ in <= Total(ins) /\ Total(ins) - Cardinality(ins) <= in
  BY <1>3, <1>4 DEF Believed
<1>7. /\ Total(unspent) \in Nat /\ Total(unspent) < Word /\ Word \in Nat /\ Fee \in Nat
      /\ Amount[s] + Fee < Word
  BY WalletFacts
<1> QED
  BY <1>1, <1>2, <1>3, <1>4, <1>5, <1>6, <1>7 DEF Rest

LEMMA InitWallet == WalletInit => WalletInv
<1> SUFFICES ASSUME WalletInit PROVE WalletInv
  OBVIOUS
<1> DEFINE f == [c \in Coins |-> [of |-> c, kind |-> "coin", value |-> Value[c]]]
<1>1. unspent = {f[c] : c \in Coins}
  BY DEF WalletInit
<1>2. IsFiniteSet(Coins) /\ \A c \in Coins : Value[c] \in Nat \ {0} /\ Value[c] \in Int
  BY WalletAssumption
<1>3. IsFiniteSet({f[c] : c \in Coins})
  <2>1. f \in Surjection(Coins, {f[c] : c \in Coins})
    BY DEF Surjection
  <2> HIDE DEF f
  <2> QED
    BY <1>2, <2>1, FS_Surjection
<1>4. \A c \in Coins : f[c].value = Value[c] /\ f[c].of = c /\ f[c].kind = "coin"
  OBVIOUS
<1>5. \A c \in Coins : Values(unspent)[f[c]] = Value[c]
  BY <1>1, <1>4 DEF Values
<1>6. \A c, d \in Coins : f[c] = f[d] => c = d
  BY <1>4
<1>7. \A o \in unspent : \E c \in Coins : o = f[c]
  BY <1>1
<1> HIDE DEF f
<1>8. Total(unspent) = SumOver(Value, Coins)
  <2>1. SumOver(Values(unspent), {f[c] : c \in Coins}) = SumOver(Value, Coins)
    BY <1>2, <1>5, <1>6, SumMoved
  <2> QED
    BY <1>1, <1>3, <2>1, TotalIs
<1>9. \A c \in Coins : Value[c] \in 0..Word - 1
  <2> SUFFICES ASSUME NEW c \in Coins PROVE Value[c] \in 0..Word - 1
    OBVIOUS
  <2>1. SumOver(Value, Coins) = Value[c] + SumOver(Value, Coins \ {c})
    BY <1>2, SumRemove
  <2>2. IsFiniteSet(Coins \ {c}) /\ \A d \in Coins \ {c} : Value[d] \in Nat
    BY <1>2, FS_RemoveElement
  <2>3. SumOver(Value, Coins \ {c}) \in Nat
    BY <2>2, SumNat
  <2>4. SumOver(Value, Coins) < Word /\ Word \in Nat
    BY WalletAssumption, ValueSum
  <2> QED
    BY <1>2, <2>1, <2>3, <2>4
<1>10. unspent \subseteq Output /\ IsFiniteSet(unspent)
  <2>1. ASSUME NEW c \in Coins PROVE f[c] \in Output
    BY <1>9 DEF f, Output
  <2> QED
    BY <1>1, <1>3, <2>1
<1>11. 0 \in 0..Word - 1
  BY WalletAssumption, ValueSum, <1>2, SumNat
<1>12. WalletTypeOK /\ \A s \in Swaps : payment[s].ins = {} /\ payment[s].out = 0
  BY <1>10, <1>11 DEF WalletInit, WalletTypeOK, NoTx
<1>13. PaymentsBuilt
  BY DEF PaymentsBuilt, WalletInit
<1>14. OutputsFollow
  BY <1>4, <1>7 DEF OutputsFollow
<1>15. BalanceTypes(unspent, payment)
  <2>1. Worth(unspent)
    BY <1>10 DEF Worth, Output
  <2>2. \A s \in Swaps : payment[s].out \in Nat /\ IsFiniteSet(payment[s].ins)
    <3>1. IsFiniteSet({}) /\ 0 \in Nat
      BY FS_EmptySet
    <3>2. \A s \in Swaps : payment[s].out = 0 /\ payment[s].ins = {}
      BY <1>12
    <3> QED
      BY <3>1, <3>2, Zenon
  <2> QED
    BY <2>1, <2>2 DEF BalanceTypes
<1>16. Sent(payout) = {} /\ Reverted(payout) = {}
  BY DEF Sent, Reverted, WalletInit
<1>17. Fees(payout) = 0 /\ Gone(unspent, payment, payout) = 0
  <2>1. SumOver(Outs(payment), Sent(payout) \ Reverted(payout)) = 0
    <3>1. Sent(payout) \ Reverted(payout) = {}
      BY <1>16
    <3> QED
      BY <3>1, SumEmpty
  <2>2. SumOver(Value, Coins) \in Nat
    BY <1>2, SumNat
  <2> QED
    BY <1>8, <1>16, <2>1, <2>2, FS_EmptySet, WalletAssumption DEF Fees, Gone
<1>18. Balanced(unspent, payment, payout)
  BY <1>16, <1>17, SumEmpty DEF Balanced
<1>19. MoneyAccounted
  BY <1>15, <1>18, MoneyIs
<1> QED
  BY <1>10, <1>12, <1>13, <1>14, <1>19, FS_EmptySet DEF WalletInv

LEMMA CreateKeeps ==
    ASSUME WalletInv, NEW s \in Swaps, ProcessTransactionCreate(s)
    PROVE  WalletInv'
<1>1. WalletTypeOK /\ PaymentsBuilt /\ OutputsFollow /\ IsFiniteSet(unspent)
      /\ (\A t \in Swaps : IsFiniteSet(payment[t].ins))
      /\ Balanced(unspent, payment, payout)
  BY WalletFacts DEF WalletInv
<1>2. /\ stage[s] = "trHold" /\ unspent' = unspent /\ payout' = payout
      /\ payout[s] = "unsent"
  BY <1>1 DEF ProcessTransactionCreate, PaymentsBuilt
<1>3. s \notin Sent(payout)
  BY <1>2 DEF Sent
<1>4. OutputsFollow'
  BY <1>1, <1>2 DEF OutputsFollow
<1>5. CASE stage' = [stage EXCEPT ![s] = "stopped"] /\ payment' = payment /\ revert' = revert
  <2>1. WalletTypeOK'
    BY <1>1, <1>2, <1>5 DEF WalletTypeOK
  <2>2. PaymentsBuilt'
    <3> SUFFICES ASSUME NEW t \in Swaps
                 PROVE  PaymentsBuilt!(t)'
      BY DEF PaymentsBuilt
    <3> QED
      BY <1>1, <1>2, <1>5 DEF PaymentsBuilt, WalletTypeOK
  <2> QED
    BY <1>1, <1>2, <1>4, <1>5, <2>1, <2>2, WalletKept
<1>6. ASSUME NEW agreed \in AgreedAmounts(s),
             NEW ins \in Selections(agreed + Fee), NEW in \in Believed(ins),
             in >= agreed + Fee,
             payment' = [payment EXCEPT ![s] =
                [ins |-> ins, out |-> (agreed + Fee) - Fee, rest |-> Rest(in, agreed + Fee)]],
             \/ /\ revert' = [revert EXCEPT ![s] = RevertOutput(agreed + Fee)]
                /\ stage' = [stage EXCEPT ![s] = "trCreated"]
             \/ /\ stage' = [stage EXCEPT ![s] = "stopped"]
                /\ revert' = revert
      PROVE  WalletInv'
  <2> DEFINE rest == Rest(in, agreed + Fee)
  <2>1. /\ ins \subseteq Output /\ IsFiniteSet(ins)
        /\ (agreed + Fee) - Fee = agreed /\ agreed \in 0..Word - 1
        /\ agreed + Fee < Word
        /\ rest \in 0..Word - 1
        /\ Total(ins) - rest - agreed \in Fee..Fee + Cardinality(ins)
    BY <1>6, PaymentIsWorth
  <2> HIDE DEF rest
  <2>2. payment' = [payment EXCEPT ![s] = [ins |-> ins, out |-> agreed, rest |-> rest]]
    BY <1>6, <2>1 DEF rest
  <2>3. RevertOutput(agreed + Fee) \in 0..Word - 1
    BY <2>1, RevertIs
  <2>4. /\ \A t \in Swaps \ {s} : payment'[t] = payment[t] /\ revert'[t] = revert[t]
                                  /\ stage'[t] = stage[t]
        /\ payment'[s] = [ins |-> ins, out |-> agreed, rest |-> rest]
        /\ stage'[s] \in {"trCreated", "stopped"}
        /\ stage'[s] = "trCreated" => revert'[s] = RevertOutput(agreed + Fee)
    BY <1>1, <1>6, <2>2 DEF WalletTypeOK
  <2>5. WalletTypeOK'
    BY <1>1, <1>2, <1>6, <2>1, <2>2, <2>3 DEF WalletTypeOK
  <2>6. \A t \in Swaps : IsFiniteSet(payment'[t].ins)
    BY <1>1, <2>1, <2>4
  <2>7. PaymentsBuilt'
    <3> SUFFICES ASSUME NEW t \in Swaps
                 PROVE  PaymentsBuilt!(t)'
      BY DEF PaymentsBuilt
    <3>1. CASE t = s
      BY <1>2, <1>6, <2>1, <2>4, <3>1 DEF PaymentsBuilt
    <3>2. CASE t # s
      BY <1>1, <1>2, <2>4, <3>2 DEF PaymentsBuilt
    <3> QED
      BY <3>1, <3>2
  <2>8. Balanced(unspent', payment', payout')
    BY <1>1, <1>2, <1>3, <2>4, BalancedSame DEF Sent
  <2> QED
    BY <1>1, <1>2, <1>4, <2>5, <2>6, <2>7, <2>8, WalletKept
<1>7. \/ stage' = [stage EXCEPT ![s] = "stopped"] /\ payment' = payment /\ revert' = revert
      \/ \E agreed \in AgreedAmounts(s) :
         \E ins \in Selections(agreed + Fee) : \E in \in Believed(ins) :
            /\ in >= agreed + Fee
            /\ payment' = [payment EXCEPT ![s] =
                  [ins |-> ins, out |-> (agreed + Fee) - Fee, rest |-> Rest(in, agreed + Fee)]]
            /\ \/ /\ revert' = [revert EXCEPT ![s] = RevertOutput(agreed + Fee)]
                  /\ stage' = [stage EXCEPT ![s] = "trCreated"]
               \/ /\ stage' = [stage EXCEPT ![s] = "stopped"]
                  /\ revert' = revert
  BY ZenonT(60) DEF ProcessTransactionCreate
<1> QED
  BY <1>5, <1>6, <1>7

\* What a payment of swap s does to the sums.
LEMMA SentSums ==
    ASSUME WalletInv, NEW s \in Swaps, payout[s] = "unsent",
           NEW q, q = [payout EXCEPT ![s] = "unspent"]
    PROVE  /\ Fees(q) = Fees(payout) + Fee
           /\ SumOver(Outs(payment), Sent(q) \ Reverted(q)) =
                 SumOver(Outs(payment), Sent(payout) \ Reverted(payout)) + payment[s].out
           /\ SumOver(Inputs(payment), Sent(q)) =
                 SumOver(Inputs(payment), Sent(payout)) + Cardinality(payment[s].ins)
<1> DEFINE S == Sent(payout)
           R == Reverted(payout)
           D == S \ R
<1>1. /\ Sent(q) = S \cup {s} /\ Reverted(q) = R /\ s \notin S /\ s \notin D
      /\ Sent(q) \ Reverted(q) = D \cup {s}
  BY DEF Sent, Reverted, WalletInv, WalletTypeOK
<1>2. IsFiniteSet(S) /\ IsFiniteSet(R) /\ IsFiniteSet(D) /\ S \subseteq Swaps
  BY WalletAssumption, FS_Subset DEF Sent, Reverted
<1>3. /\ \A t \in Swaps : Outs(payment)[t] \in Int /\ Inputs(payment)[t] \in Int
      /\ Outs(payment)[s] = payment[s].out
      /\ Inputs(payment)[s] = Cardinality(payment[s].ins)
  BY WalletFacts, FS_CardinalityType DEF BalanceTypes, Outs, Inputs
<1>4. /\ Cardinality(S) \in Nat /\ Cardinality(R) \in Nat /\ Fee \in Nat
      /\ Cardinality(S \cup {s}) = Cardinality(S) + 1
  BY <1>1, <1>2, FS_CardinalityType, FS_AddElement, WalletAssumption
<1> DEFINE v == Outs(payment)
           w == Inputs(payment)
<1>5. /\ \A t \in D : v[t] \in Int
      /\ \A t \in S : w[t] \in Int
      /\ v[s] \in Int /\ w[s] \in Int
  BY <1>2, <1>3
<1>6. Fees(q) = Fees(payout) + Fee
  <2> DEFINE a == Cardinality(S)
             b == Cardinality(R)
  <2>1. Fees(q) = (a + 1 + b) * Fee /\ Fees(payout) = (a + b) * Fee
    BY <1>1, <1>4 DEF Fees
  <2>2. a \in Nat /\ b \in Nat /\ Fee \in Nat
    BY <1>4
  <2> HIDE DEF a, b
  <2> QED
    BY <2>1, <2>2
<1> HIDE DEF S, R, D, v, w
<1>7. SumOver(v, D \cup {s}) = SumOver(v, D) + v[s]
  BY <1>1, <1>2, <1>5, SumAdd
<1>8. SumOver(w, S \cup {s}) = SumOver(w, S) + w[s]
  BY <1>1, <1>2, <1>5, SumAdd
<1> QED
  BY <1>1, <1>3, <1>6, <1>7, <1>8, Zenon DEF S, R, D, v, w

LEMMA RevertedSums ==
    ASSUME WalletInv, NEW s \in Swaps, payout[s] = "unspent",
           NEW q, q = [payout EXCEPT ![s] = "reverted"]
    PROVE  /\ Fees(q) = Fees(payout) + Fee
           /\ SumOver(Outs(payment), Sent(payout) \ Reverted(payout)) =
                 payment[s].out + SumOver(Outs(payment), Sent(q) \ Reverted(q))
           /\ Sent(q) = Sent(payout)
<1> DEFINE S == Sent(payout)
           R == Reverted(payout)
           D == S \ R
<1>1. /\ Sent(q) = S /\ Reverted(q) = R \cup {s} /\ s \notin R /\ s \in D
      /\ Sent(q) \ Reverted(q) = D \ {s}
  BY DEF Sent, Reverted, WalletInv, WalletTypeOK
<1>2. IsFiniteSet(S) /\ IsFiniteSet(R) /\ IsFiniteSet(D) /\ S \subseteq Swaps
  BY WalletAssumption, FS_Subset DEF Sent, Reverted
<1>3. /\ \A t \in Swaps : Outs(payment)[t] \in Int
      /\ Outs(payment)[s] = payment[s].out
  BY WalletFacts DEF BalanceTypes, Outs
<1>4. /\ Cardinality(S) \in Nat /\ Cardinality(R) \in Nat /\ Fee \in Nat
      /\ Cardinality(R \cup {s}) = Cardinality(R) + 1
  BY <1>1, <1>2, FS_CardinalityType, FS_AddElement, WalletAssumption
<1> DEFINE v == Outs(payment)
<1>5. \A t \in D : v[t] \in Int
  BY <1>2, <1>3
<1>6. Fees(q) = Fees(payout) + Fee
  <2> DEFINE a == Cardinality(S)
             b == Cardinality(R)
  <2>1. Fees(q) = (a + (b + 1)) * Fee /\ Fees(payout) = (a + b) * Fee
    BY <1>1, <1>4 DEF Fees
  <2>2. a \in Nat /\ b \in Nat /\ Fee \in Nat
    BY <1>4
  <2> HIDE DEF a, b
  <2> QED
    BY <2>1, <2>2
<1> HIDE DEF S, R, D, v
<1>7. SumOver(v, D) = v[s] + SumOver(v, D \ {s})
  BY <1>1, <1>2, <1>5, SumRemove
<1> QED
  BY <1>1, <1>3, <1>6, <1>7, Zenon DEF S, R, D, v

LEMMA PaidOutputs ==
    ASSUME WalletInv, NEW s \in Swaps, payout[s] = "unsent", payment[s].ins \subseteq unspent,
           NEW u, u = (unspent \ payment[s].ins) \cup Change(s)
    PROVE  /\ u \subseteq Output /\ IsFiniteSet(u)
           /\ Total(u) = Total(unspent) - Total(payment[s].ins) + payment[s].rest
           /\ Total(payment[s].ins) \in Nat
<1> DEFINE ins  == payment[s].ins
           rest == payment[s].rest
           o    == [of |-> s, kind |-> "change", value |-> rest]
           A    == unspent \ ins
<1>1. unspent \subseteq Output /\ Worth(unspent) /\ Total(unspent) \in Nat
  BY WalletFacts DEF WalletInv, WalletTypeOK, BalanceTypes
<1>2. Worth(ins) /\ Worth(A) /\ Total(A) = Total(unspent) - Total(ins) /\ Total(ins) \in Nat
  BY <1>1, TotalPart, TotalNat
<1>3. rest \in 0..Word - 1 /\ Word \in Nat \ {0}
  BY WalletFacts DEF WalletInv, WalletTypeOK
<1>4. o \in Output /\ o.value = rest /\ o.kind = "change" /\ o.of = s
  BY <1>3 DEF Output
<1>5. o \notin unspent
  BY <1>4 DEF WalletInv, OutputsFollow
<1>6. CASE rest = 0
  <2>1. u = A /\ A \subseteq Output
    BY <1>1, <1>6 DEF Change
  <2> DEFINE a == Total(unspent)
             b == Total(ins)
  <2>2. a \in Nat /\ b \in Nat /\ Total(u) = a - b
    BY <1>1, <1>2, <2>1
  <2> HIDE DEF a, b, A, ins, rest, o
  <2>3. Total(u) = a - b + rest
    BY <1>6, <2>2
  <2> QED
    BY <1>2, <2>1, <2>3 DEF Worth, a, b, ins, rest
<1>7. CASE rest # 0
  <2>1. u = A \cup {o} /\ A \cap {o} = {}
    BY <1>5, <1>7 DEF Change
  <2>2. Worth({o}) /\ Total({o}) = rest
    BY <1>3, <1>4, TotalOne
  <2>3. u \subseteq Output
    BY <1>1, <1>4, <2>1
  <2> HIDE DEF A, o, ins
  <2>4. Worth(u) /\ Total(u) = Total(A) + Total({o})
    BY <1>2, <2>1, <2>2, TotalUnion
  <2>5. Total(u) = Total(unspent) - Total(ins) + rest
    BY <1>1, <1>2, <1>3, <2>2, <2>4
  <2> QED
    BY <1>2, <2>3, <2>4, <2>5 DEF Worth, ins
<1> QED
  BY <1>6, <1>7

LEMMA RevertedOutputs ==
    ASSUME WalletInv, NEW s \in Swaps, payout[s] = "unspent",
           NEW u, u = unspent \cup {[of |-> s, kind |-> "revert", value |-> revert[s]]}
    PROVE  /\ u \subseteq Output /\ IsFiniteSet(u)
           /\ Total(u) = Total(unspent) + revert[s]
<1> DEFINE o == [of |-> s, kind |-> "revert", value |-> revert[s]]
<1>1. unspent \subseteq Output /\ Worth(unspent)
  BY WalletFacts DEF WalletInv, WalletTypeOK, BalanceTypes
<1>2. revert[s] \in 0..Word - 1 /\ Word \in Nat \ {0}
  BY WalletFacts DEF WalletInv, WalletTypeOK
<1>3. o \in Output /\ o.value = revert[s] /\ o.kind = "revert" /\ o.of = s
  BY <1>2 DEF Output
<1>4. unspent \cap {o} = {}
  BY <1>3 DEF WalletInv, OutputsFollow
<1>5. Worth({o}) /\ Total({o}) = revert[s]
  BY <1>2, <1>3, TotalOne
<1>6. u \subseteq Output
  BY <1>1, <1>3
<1> HIDE DEF o
<1>7. Worth(unspent \cup {o}) /\ Total(unspent \cup {o}) = Total(unspent) + Total({o})
  BY <1>1, <1>4, <1>5, TotalUnion
<1> QED
  BY <1>5, <1>6, <1>7 DEF o, Worth

LEMMA CommitKeeps ==
    ASSUME WalletInv, NEW s \in Swaps, ProcessTransactionCommit(s)
    PROVE  WalletInv'
<1>1. WalletTypeOK /\ PaymentsBuilt /\ OutputsFollow /\ IsFiniteSet(unspent)
      /\ (\A t \in Swaps : IsFiniteSet(payment[t].ins))
      /\ Balanced(unspent, payment, payout) /\ BalanceTypes(unspent, payment)
  BY WalletFacts DEF WalletInv
<1>2. /\ stage[s] = "trCreated" /\ payment' = payment /\ revert' = revert
      /\ payout[s] = "unsent"
  BY <1>1 DEF ProcessTransactionCommit, PaymentsBuilt
<1>3. CASE stage' = [stage EXCEPT ![s] = "stopped"] /\ unspent' = unspent /\ payout' = payout
  <2>1. WalletTypeOK'
    BY <1>1, <1>2, <1>3 DEF WalletTypeOK
  <2>2. PaymentsBuilt'
    <3> SUFFICES ASSUME NEW t \in Swaps
                 PROVE  PaymentsBuilt!(t)'
      BY DEF PaymentsBuilt
    <3> QED
      BY <1>1, <1>2, <1>3 DEF PaymentsBuilt, WalletTypeOK
  <2>3. OutputsFollow'
    BY <1>1, <1>3 DEF OutputsFollow
  <2> QED
    BY <1>1, <1>2, <1>3, <2>1, <2>2, <2>3, WalletKept
<1>4. CASE /\ Pays(s)
           /\ unspent' = (unspent \ payment[s].ins) \cup Change(s)
           /\ payout' = [payout EXCEPT ![s] = "unspent"]
           /\ stage' = [stage EXCEPT ![s] = "trCommited"]
  <2>1. /\ unspent' \subseteq Output /\ IsFiniteSet(unspent')
        /\ Total(unspent') = Total(unspent) - Total(payment[s].ins) + payment[s].rest
        /\ Total(payment[s].ins) \in Nat
    BY <1>2, <1>4, PaidOutputs DEF Pays
  <2>2. WalletTypeOK'
    BY <1>1, <1>2, <1>4, <2>1 DEF WalletTypeOK
  <2>3. PaymentsBuilt'
    <3> SUFFICES ASSUME NEW t \in Swaps
                 PROVE  PaymentsBuilt!(t)'
      BY DEF PaymentsBuilt
    <3> QED
      BY <1>1, <1>2, <1>4 DEF PaymentsBuilt, WalletTypeOK
  <2>4. OutputsFollow'
    <3>1. ASSUME NEW o \in unspent' PROVE o \in unspent \/ (o.kind = "change" /\ o.of = s)
      BY <1>4, <3>1 DEF Change
    <3>2. /\ payout'[s] = "unspent"
          /\ \A t \in Swaps : payout[t] # "unsent" => payout'[t] = payout[t]
      BY <1>1, <1>2, <1>4 DEF WalletTypeOK
    <3> QED
      BY <1>1, <3>1, <3>2 DEF OutputsFollow
  <2>5. Balanced(unspent', payment, payout')
    <3> DEFINE q == payout'
               p == payment
               V == SumOver(Value, Coins)
               O == SumOver(Outs(p), Sent(payout) \ Reverted(payout))
               I == SumOver(Inputs(p), Sent(payout))
               tx == payment[s]
    <3>1. /\ Fees(q) = Fees(payout) + Fee
          /\ SumOver(Outs(p), Sent(q) \ Reverted(q)) = O + tx.out
          /\ SumOver(Inputs(p), Sent(q)) = I + Cardinality(tx.ins)
      BY <1>2, <1>4, SentSums
    <3>2. Total(tx.ins) - tx.rest - tx.out \in Fee..Fee + Cardinality(tx.ins)
      BY <1>1, <1>2 DEF PaymentsBuilt
    <3>3. /\ Fees(payout) \in Nat /\ Total(unspent) \in Nat /\ V \in Nat
          /\ I \in Nat /\ O \in Nat /\ Fee \in Nat
      <4>1. /\ Sent(payout) \subseteq Swaps
            /\ Sent(payout) \ Reverted(payout) \subseteq Swaps
        BY DEF Sent
      <4> QED
        BY <1>1, <4>1, BalanceInts, WalletAssumption
    <3>4. tx.rest \in Nat /\ tx.out \in Nat /\ Cardinality(tx.ins) \in Nat
      BY <1>1, FS_CardinalityType, WalletFacts DEF WalletTypeOK
    <3>5. /\ Fees(payout) <= V - Total(unspent) - O
          /\ V - Total(unspent) - O <= Fees(payout) + I
      BY <1>1 DEF Balanced, Gone
    <3>6. Total(unspent') = Total(unspent) - Total(tx.ins) + tx.rest /\ Total(tx.ins) \in Nat
      BY <2>1
    <3> HIDE DEF V, O, I, tx
    <3>7. /\ Fees(payout) + Fee <= V - Total(unspent') - (O + tx.out)
          /\ V - Total(unspent') - (O + tx.out) <= Fees(payout) + Fee + (I + Cardinality(tx.ins))
      BY <3>2, <3>3, <3>4, <3>5, <3>6
    <3> QED
      BY <3>1, <3>7 DEF Balanced, Gone, V
  <2> QED
    BY <1>1, <1>2, <2>1, <2>2, <2>3, <2>4, <2>5, WalletKept
<1> QED
  BY <1>3, <1>4 DEF ProcessTransactionCommit

LEMMA RollbackKeeps ==
    ASSUME WalletInv, NEW s \in Swaps, ProcessTransactionRollback(s)
    PROVE  WalletInv'
<1>1. WalletTypeOK /\ PaymentsBuilt /\ OutputsFollow /\ IsFiniteSet(unspent)
      /\ (\A t \in Swaps : IsFiniteSet(payment[t].ins))
      /\ Balanced(unspent, payment, payout) /\ BalanceTypes(unspent, payment)
  BY WalletFacts DEF WalletInv
<1>2. /\ stage[s] # "trHold" /\ payment' = payment /\ revert' = revert
      /\ stage' = [stage EXCEPT ![s] = "trRollback"]
  BY DEF ProcessTransactionRollback
<1>3. CASE unspent' = unspent /\ payout' = payout
  <2>1. WalletTypeOK'
    BY <1>1, <1>2, <1>3 DEF WalletTypeOK
  <2>2. PaymentsBuilt'
    <3> SUFFICES ASSUME NEW t \in Swaps
                 PROVE  PaymentsBuilt!(t)'
      BY DEF PaymentsBuilt
    <3> QED
      BY <1>1, <1>2, <1>3 DEF PaymentsBuilt, WalletTypeOK
  <2>3. OutputsFollow'
    BY <1>1, <1>3 DEF OutputsFollow
  <2> QED
    BY <1>1, <1>2, <1>3, <2>1, <2>2, <2>3, WalletKept
<1>4. CASE /\ Reverts(s)
           /\ unspent' = unspent \cup {[of |-> s, kind |-> "revert", value |-> revert[s]]}
           /\ payout' = [payout EXCEPT ![s] = "reverted"]
  <2>1. /\ unspent' \subseteq Output /\ IsFiniteSet(unspent')
        /\ Total(unspent') = Total(unspent) + revert[s]
    BY <1>4, RevertedOutputs DEF Reverts
  <2>2. WalletTypeOK'
    BY <1>1, <1>2, <1>4, <2>1 DEF WalletTypeOK
  <2>3. PaymentsBuilt'
    <3> SUFFICES ASSUME NEW t \in Swaps
                 PROVE  PaymentsBuilt!(t)'
      BY DEF PaymentsBuilt
    <3> QED
      BY <1>1, <1>2, <1>4 DEF PaymentsBuilt, WalletTypeOK, Reverts
  <2>4. OutputsFollow'
    <3>1. ASSUME NEW o \in unspent' PROVE o \in unspent \/ (o.kind = "revert" /\ o.of = s)
      BY <1>4, <3>1
    <3>2. /\ payout'[s] = "reverted"
          /\ \A t \in Swaps \ {s} : payout'[t] = payout[t]
      BY <1>1, <1>4 DEF WalletTypeOK
    <3> QED
      BY <1>1, <3>1, <3>2 DEF OutputsFollow
  <2>5. Balanced(unspent', payment', payout')
    <3> DEFINE q == payout'
               p == payment
               V == SumOver(Value, Coins)
               O == SumOver(Outs(p), Sent(q) \ Reverted(q))
               I == SumOver(Inputs(p), Sent(q))
               out == payment[s].out
    <3>1. /\ Fees(q) = Fees(payout) + Fee
          /\ SumOver(Outs(p), Sent(payout) \ Reverted(payout)) = out + O
          /\ Sent(q) = Sent(payout)
      BY <1>4, RevertedSums DEF Reverts
    <3>2. out \in AgreedAmounts(s) /\ revert[s] = RevertOutput(out + Fee) /\ revert[s] < out
      BY <1>1, <1>4 DEF PaymentsBuilt, Reverts
    <3>3. /\ Fees(payout) \in Nat /\ Total(unspent) \in Nat /\ V \in Nat
          /\ I \in Nat /\ O \in Nat /\ Fee \in Nat
      <4>1. /\ Sent(q) \subseteq Swaps
            /\ Sent(q) \ Reverted(q) \subseteq Swaps
        BY DEF Sent
      <4> QED
        BY <1>1, <4>1, BalanceInts, WalletAssumption
    <3>4. out \in Nat /\ revert[s] = out - Fee
      <4>1. out \in Nat /\ out + Fee < Word /\ Word \in Nat /\ Fee \in Nat
        BY <3>2, WalletFacts DEF AgreedAmounts
      <4>2. revert[s] = IF out < Fee THEN out - Fee + Word ELSE out - Fee
        BY <3>2, <4>1, RevertIs
      <4> QED
        BY <3>2, <4>1, <4>2
    <3>5. /\ Fees(payout) <= V - Total(unspent) - (out + O)
          /\ V - Total(unspent) - (out + O) <= Fees(payout) + I
      BY <1>1, <3>1 DEF Balanced, Gone
    <3>6. Total(unspent') = Total(unspent) + (out - Fee)
      BY <2>1, <3>4
    <3> HIDE DEF V, O, I, out
    <3>7. /\ Fees(payout) + Fee <= V - Total(unspent') - O
          /\ V - Total(unspent') - O <= Fees(payout) + Fee + I
      BY <3>3, <3>4, <3>5, <3>6
    <3> QED
      BY <1>2, <3>1, <3>7 DEF Balanced, Gone, V, O, I
  <2> QED
    BY <1>1, <1>2, <2>1, <2>2, <2>3, <2>4, <2>5, WalletKept
<1> QED
  BY <1>3, <1>4 DEF ProcessTransactionRollback

LEMMA SpendsKeeps ==
    ASSUME WalletInv, NEW s \in Swaps, CounterpartySpends(s)
    PROVE  WalletInv'
<1>1. WalletTypeOK /\ PaymentsBuilt /\ OutputsFollow /\ IsFiniteSet(unspent)
      /\ (\A t \in Swaps : IsFiniteSet(payment[t].ins))
      /\ Balanced(unspent, payment, payout)
  BY WalletFacts DEF WalletInv
<1>2. /\ payout[s] = "unspent" /\ payout' = [payout EXCEPT ![s] = "spent"]
      /\ unspent' = unspent /\ payment' = payment /\ revert' = revert /\ stage' = stage
  BY DEF CounterpartySpends
<1>3. Sent(payout') = Sent(payout) /\ Reverted(payout') = Reverted(payout)
  BY <1>1, <1>2 DEF Sent, Reverted, WalletTypeOK
<1>4. Balanced(unspent', payment', payout')
  BY <1>1, <1>2, <1>3, Zenon DEF Balanced, Gone, Fees
<1>5. WalletTypeOK'
  BY <1>1, <1>2 DEF WalletTypeOK
<1>6. PaymentsBuilt'
  <2> SUFFICES ASSUME NEW t \in Swaps
               PROVE  PaymentsBuilt!(t)'
    BY DEF PaymentsBuilt
  <2> QED
    BY <1>1, <1>2 DEF PaymentsBuilt, WalletTypeOK
<1>7. OutputsFollow'
  BY <1>1, <1>2 DEF OutputsFollow, WalletTypeOK
<1> QED
  BY <1>1, <1>2, <1>4, <1>5, <1>6, <1>7, WalletKept

LEMMA WalletStep == WalletInv /\ WalletNext => WalletInv'
BY CreateKeeps, CommitKeeps, RollbackKeeps, SpendsKeeps DEF WalletNext

LEMMA WalletStays == WalletInv /\ UNCHANGED walletVars => WalletInv'
<1> SUFFICES ASSUME WalletInv, UNCHANGED walletVars PROVE WalletInv'
  OBVIOUS
<1>1. /\ unspent' = unspent /\ payment' = payment /\ revert' = revert
      /\ stage' = stage /\ payout' = payout
  BY DEF walletVars
<1>2. WalletTypeOK /\ PaymentsBuilt /\ OutputsFollow /\ IsFiniteSet(unspent)
      /\ (\A t \in Swaps : IsFiniteSet(payment[t].ins))
      /\ Balanced(unspent, payment, payout)
  BY WalletFacts DEF WalletInv
<1>3. WalletTypeOK'
  BY <1>1, <1>2 DEF WalletTypeOK
<1>4. PaymentsBuilt'
  BY <1>1, <1>2 DEF PaymentsBuilt
<1>5. OutputsFollow'
  BY <1>1, <1>2 DEF OutputsFollow
<1> QED
  BY <1>1, <1>2, <1>3, <1>4, <1>5, WalletKept

-----------------------------------------------------------------------------
\* The address book: what the job has still to store, what was stored and what is
\* shown are all addresses of the wallet they name.
BookInv ==
    /\ BookTypeOK
    /\ \A w \in Wallets, a \in Addresses : <<w, a>> \in entries \cup shown => Owns(w, a)
    /\ \A w \in Wallets, a \in Addresses : <<w, a>> \in shown => sessionAddrs[a] # NoWallet
    /\ \A a \in Addresses : sessionAddrs[a] # NoWallet => Owns(sessionAddrs[a], a)
    /\ \A a \in Addresses : listed[a] # NoWallet => sessionAddrs[a] # NoWallet

LEMMA InitBook == BookInit => BookInv
BY FS_EmptySet DEF BookInit, BookInv, BookTypeOK

LEMMA StoreKeeps ==
    ASSUME BookInv, NEW w \in Wallets, NEW a \in Addresses, StorageStore(w, a)
    PROVE  BookInv'
<1>1. /\ <<w, a>> \in entries /\ shown' = {<<w, a>>} /\ entries' \subseteq entries
      /\ sessionAddrs' = [sessionAddrs EXCEPT ![a] = w]
      /\ listed' = listed /\ todo' = todo
  BY DEF StorageStore
<1>2. /\ Cardinality(shown') <= 1 /\ w # NoWallet /\ Owns(w, a)
  <2>1. Cardinality({<<w, a>>}) = 1
    BY FS_Singleton
  <2>2. Owns(w, a)
    BY <1>1 DEF BookInv
  <2> QED
    BY <1>1, <2>1, <2>2, BookAssumption
<1>3. sessionAddrs \in [Addresses -> Wallets \cup {NoWallet}]
  BY DEF BookInv, BookTypeOK
<1>4. /\ sessionAddrs'[a] = w
      /\ \A b \in Addresses \ {a} : sessionAddrs'[b] = sessionAddrs[b]
  BY <1>1, <1>3
<1>5. BookTypeOK'
  BY <1>1, <1>2 DEF BookInv, BookTypeOK
<1>6. \A v \in Wallets, b \in Addresses : <<v, b>> \in shown' => v = w /\ b = a
  BY <1>1
<1>7. \A b \in Addresses : sessionAddrs'[b] # NoWallet => Owns(sessionAddrs'[b], b)
  <2> SUFFICES ASSUME NEW b \in Addresses, sessionAddrs'[b] # NoWallet
               PROVE  Owns(sessionAddrs'[b], b)
    OBVIOUS
  <2>1. CASE b = a
    BY <1>2, <1>4, <2>1
  <2>2. CASE b # a
    BY <1>4, <2>2 DEF BookInv
  <2> QED
    BY <2>1, <2>2
<1>8. \A b \in Addresses : listed'[b] # NoWallet => sessionAddrs'[b] # NoWallet
  BY <1>1, <1>2, <1>4 DEF BookInv
<1>9. \A v \in Wallets, b \in Addresses : <<v, b>> \in entries' \cup shown' => Owns(v, b)
  BY <1>1, <1>2, <1>6 DEF BookInv
<1>10. \A v \in Wallets, b \in Addresses : <<v, b>> \in shown' => sessionAddrs'[b] # NoWallet
  BY <1>2, <1>4, <1>6
<1> QED
  BY <1>5, <1>7, <1>8, <1>9, <1>10, Zenon DEF BookInv, Owns

LEMMA RequestKeeps ==
    ASSUME BookInv, NEW w \in Wallets, RequestAddressBook(w)
    PROVE  BookInv'
<1>1. /\ shown = {} /\ shown' = {} /\ todo' \subseteq todo
      /\ sessionAddrs' = sessionAddrs /\ listed' = listed
  BY DEF RequestAddressBook, Resting
<1>2. \A v \in Wallets, b \in Addresses : <<v, b>> \in entries' => Owns(v, b)
  BY BookAssumption DEF RequestAddressBook, Owns
<1>3. entries' \subseteq Wallets \X Addresses
  BY BookAssumption DEF RequestAddressBook
<1> QED
  BY <1>1, <1>2, <1>3 DEF BookInv, BookTypeOK, Owns

LEMMA ListKeeps ==
    ASSUME BookInv, NEW w \in Wallets, NEW a \in Addresses, OnAddressBookEntryReceived(w, a)
    PROVE  BookInv'
<1>1. /\ <<w, a>> \in shown /\ shown' = {}
      /\ listed' = IF listed[a] = NoWallet THEN [listed EXCEPT ![a] = w] ELSE listed
      /\ sessionAddrs' = sessionAddrs /\ entries' = entries /\ todo' = todo
  BY DEF OnAddressBookEntryReceived
<1>2. Cardinality({}) <= 1 /\ sessionAddrs[a] # NoWallet
  BY <1>1, FS_EmptySet DEF BookInv
<1>3. \A b \in Addresses : b # a => listed'[b] = listed[b]
  BY <1>1 DEF BookInv, BookTypeOK
<1> QED
  BY <1>1, <1>2, <1>3 DEF BookInv, BookTypeOK, Owns

LEMMA BookStep == BookInv /\ BookNext => BookInv'
<1> SUFFICES ASSUME BookInv, BookNext PROVE BookInv'
  OBVIOUS
<1>1. CASE GetAddressBook
  BY <1>1 DEF GetAddressBook, BookInv, BookTypeOK, Owns
<1> QED
  BY <1>1, StoreKeeps, RequestKeeps, ListKeeps DEF BookNext

LEMMA BookStays == BookInv /\ UNCHANGED bookVars => BookInv'
BY DEF bookVars, BookInv, BookTypeOK, Owns

-----------------------------------------------------------------------------
\* A payment is in the wallet as it was agreed, worth its inputs but for the fee and
\* the rounding, with the revert transaction processTransactionCreate() made for it;
\* each output of the wallet comes from a transaction that was sent.
THEOREM MoneyInvariant == Spec => []WalletInv
<1>1. Init => WalletInv
  BY InitWallet DEF Init
<1>2. WalletInv /\ [Next]_appVars => WalletInv'
  BY WalletStep, WalletStays DEF Next, RunOrders, RunPayments, RunAddresses, appVars
<1> QED
  BY <1>1, <1>2, PTL DEF Spec

LEMMA BookInvariant == Spec => []BookInv
<1>1. Init => BookInv
  BY InitBook DEF Init
<1>2. BookInv /\ [Next]_appVars => BookInv'
  BY BookStep, BookStays DEF Next, RunOrders, RunPayments, RunAddresses, appVars
<1> QED
  BY <1>1, <1>2, PTL DEF Spec

\* Whatever the wallet's coins, the amounts, the fee and the order of the packets,
\* the money that has left the wallet is in payments that were not taken back, in
\* fees and in the units lost to rounding in processTransactionCreate().
THEOREM WalletBalances == Spec => []MoneyAccounted
<1>1. WalletInv => MoneyAccounted
  BY DEF WalletInv
<1> QED
  BY <1>1, MoneyInvariant, PTL

LEMMA CanBeReverted == WalletInv => PaymentCanBeReverted
<1> SUFFICES ASSUME WalletInv, NEW s \in Swaps, payout[s] = "unspent", Amount[s] > Fee + 1
             PROVE  Reverts(s)
  BY DEF PaymentCanBeReverted
<1> DEFINE out == payment[s].out
<1>1. out \in AgreedAmounts(s) /\ revert[s] = RevertOutput(out + Fee)
  BY DEF WalletInv, PaymentsBuilt
<1>2. /\ Amount[s] \in Nat /\ Amount[s] + Fee < Word /\ Word \in Nat /\ Fee \in Nat \ {0}
      /\ out \in {Amount[s] - 1, Amount[s]}
  BY <1>1, WalletFacts DEF AgreedAmounts
<1> HIDE DEF out
<1>3. out \in Nat /\ out + Fee < Word /\ out >= Fee
  BY <1>2
<1>4. RevertOutput(out + Fee) = IF out < Fee THEN out - Fee + Word ELSE out - Fee
  BY <1>3, RevertIs
<1>5. revert[s] < out
  BY <1>1, <1>2, <1>3, <1>4
<1> QED
  BY <1>5 DEF Reverts, out

\* A payment the counterparty has not spent can be taken back with the revert
\* transaction that processTransactionCreate() built along with it.
THEOREM RevertsAreTaken == Spec => []PaymentCanBeReverted
BY MoneyInvariant, CanBeReverted, PTL

\* With any number of wallets, accounts and addresses, the user can only choose an
\* address whose packets storageStore() has given to a session that owns it.
THEOREM ListedAddressesAreServed == Spec => []ListedIsServed
<1>1. BookInv => ListedIsServed
  BY DEF BookInv, ListedIsServed
<1> QED
  BY <1>1, BookInvariant, PTL

-----------------------------------------------------------------------------
(***************************************************************************)
(* The list of orders.  What each change of the list does to the rows of   *)
(* one id: Alike says that they are the same rows, k places further on,    *)
(* and Stated that they are in the same states.                            *)
(***************************************************************************)
Rows == [id : Ids, mine : BOOLEAN, state : States, silent : 0..EraseAfter]

Alike(r, q, x, k) ==
    /\ \A i \in DOMAIN r : r[i].id = x =>
          i + k \in DOMAIN q /\ q[i + k].id = x /\ q[i + k].mine = r[i].mine
    /\ \A j \in DOMAIN q : q[j].id = x => j - k \in DOMAIN r /\ r[j - k].id = x

Stated(r, q, x, k) ==
    \A j \in DOMAIN q : q[j].id = x => q[j].state = r[j - k].state

\* What OrderInv asks of the rows of x in r, q has too.
Follows(r, q, x) ==
    /\ ~HasRow(r, x) => ~HasRow(q, x)
    /\ AtMostOne(r, x) => AtMostOne(q, x)
    /\ OwnRow(r, x) => OwnRow(q, x)

LEMMA AlikeFollows ==
    ASSUME NEW r, NEW q, NEW x, NEW k \in Int, Alike(r, q, x, k),
           DOMAIN r \subseteq Int, DOMAIN q \subseteq Int
    PROVE  /\ Follows(r, q, x)
           /\ Stated(r, q, x, k) => \A s : InState(r, x, s) => InState(q, x, s)
<1>1. ~HasRow(r, x) => ~HasRow(q, x)
  BY DEF Alike, HasRow
<1>2. AtMostOne(r, x) => AtMostOne(q, x)
  <2> SUFFICES ASSUME AtMostOne(r, x), NEW i \in DOMAIN q, NEW j \in DOMAIN q,
                      q[i].id = x, q[j].id = x
               PROVE  i = j
    BY DEF AtMostOne
  <2>1. i - k = j - k
    BY DEF Alike, AtMostOne
  <2> QED
    BY <2>1
<1>3. OwnRow(r, x) => OwnRow(q, x)
  <2> SUFFICES ASSUME OwnRow(r, x) PROVE OwnRow(q, x)
    OBVIOUS
  <2>1. HasRow(q, x)
    BY DEF Alike, HasRow, OwnRow
  <2>2. ASSUME NEW j \in DOMAIN q, q[j].id = x PROVE q[j].mine
    <3>1. j - k \in DOMAIN r /\ r[j - k].id = x
      BY <2>2 DEF Alike
    <3>2. q[(j - k) + k].mine = r[j - k].mine /\ (j - k) + k = j
      BY <3>1 DEF Alike
    <3> QED
      BY <3>1, <3>2 DEF OwnRow
  <2> QED
    BY <1>2, <2>1, <2>2 DEF OwnRow
<1>4. ASSUME Stated(r, q, x, k), NEW s, InState(r, x, s) PROVE InState(q, x, s)
  BY <1>4 DEF Alike, Stated, InState
<1> QED
  BY <1>1, <1>2, <1>3, <1>4 DEF Follows

LEMMA StatesAre ==
    {"trNew", "trPending", "trAccepting", "trHold", "trCreated", "trSigned", "trCommited",
     "trFinished", "trRollback", "trDropped", "trCancelled", "trExpired"} \subseteq States
BY DEF States, State, Range

LEMMA StepsAre == Steps \subseteq States /\ "trPending" \notin Steps /\ "trExpired" \notin Steps
BY OrderListAssumption, StatesAre

LEMMA NamesAre ==
    /\ \A id \in Ids : id \in Names(id) /\ Names(id) \subseteq Ids
    /\ \A o \in Own : HeldAs[o] \in SwapIds /\ HeldAs[o] \in Ids /\ o \in Ids /\ o \notin SwapIds
    /\ \A o, p \in Own : HeldAs[o] = HeldAs[p] => o = p
    /\ \A o \in Own : Names(o) = {o, HeldAs[o]}
    /\ \A id : id \notin Own => Names(id) = {id}
    /\ Nothing \notin Ids
BY OrderListAssumption DEF Names, Ids, IsInjective

LEMMA RowIs ==
    ASSUME NEW id \in Ids, NEW mine \in BOOLEAN, NEW state \in States
    PROVE  Row(id, mine, state) \in Rows
BY OrderListAssumption DEF Row, Rows

\* The first row with an id is a row with that id.
LEMMA FirstIs ==
    ASSUME NEW r \in Seq(Rows), NEW id, HasRow(r, id)
    PROVE  /\ First(r, id) \in DOMAIN r /\ r[First(r, id)].id = id
           /\ \A j \in 1..First(r, id) - 1 : r[j].id # id
<1> DEFINE W == {n \in Nat : \A i \in 1..n : i \in DOMAIN r => r[i].id # id}
<1>1. DOMAIN r = 1..Len(r) /\ Len(r) \in Nat
  OBVIOUS
<1>2. \E i \in DOMAIN r : r[i].id = id /\ \A j \in 1..i - 1 : r[j].id # id
  <2> SUFFICES ASSUME ~\E i \in DOMAIN r : r[i].id = id /\ \A j \in 1..i - 1 : r[j].id # id
               PROVE  FALSE
    OBVIOUS
  <2>1. 0 \in W
    OBVIOUS
  <2>2. ASSUME NEW n \in Nat, n \in W PROVE n + 1 \in W
    <3>1. \A j \in 1..n : j \in DOMAIN r => r[j].id # id
      BY <2>2
    <3>2. n + 1 \in DOMAIN r => r[n + 1].id # id
      BY <1>1, <3>1
    <3> QED
      BY <3>1, <3>2
  <2> HIDE DEF W
  <2>3. Nat \subseteq W
    BY <2>1, <2>2, CountUp
  <2> QED
    BY <1>1, <2>3 DEF HasRow, W
<1> QED
  BY <1>2 DEF First

LEMMA RenewedIs ==
    ASSUME NEW row \in Rows, NEW state \in States
    PROVE  /\ Renewed(row, state) \in Rows
           /\ Renewed(row, state).id = row.id /\ Renewed(row, state).mine = row.mine
<1> DEFINE new == IF Before(row.state, state) THEN state ELSE row.state
           q == [row EXCEPT !.state = new]
<1>1. new \in States
  BY DEF Rows
<1> HIDE DEF new
<1>2. q \in Rows /\ q.id = row.id /\ q.mine = row.mine
  BY <1>1 DEF Rows
<1>3. Renewed(row, state) = [q EXCEPT !.silent = 0]
  BY DEF Renewed, new
<1> HIDE DEF q
<1>4. [q EXCEPT !.silent = 0] \in Rows /\ [q EXCEPT !.silent = 0].id = q.id
      /\ [q EXCEPT !.silent = 0].mine = q.mine
  BY <1>2, OrderListAssumption DEF Rows
<1> QED
  BY <1>2, <1>3, <1>4

LEMMA ReceivedIs ==
    ASSUME NEW r \in Seq(Rows), NEW tx \in Rows
    PROVE  /\ Received(r, tx) \in Seq(Rows)
           /\ \A x : x # tx.id => \E k \in Int :
                 Alike(r, Received(r, tx), x, k) /\ Stated(r, Received(r, tx), x, k)
           /\ HasRow(Received(r, tx), tx.id)
           /\ AtMostOne(r, tx.id) => AtMostOne(Received(r, tx), tx.id)
           /\ OwnRow(r, tx.id) => OwnRow(Received(r, tx), tx.id)
           /\ tx.mine /\ AtMostOne(r, tx.id) => OwnRow(Received(r, tx), tx.id)
           /\ Len(Received(r, tx)) = IF HasRow(r, tx.id) THEN Len(r) ELSE Len(r) + 1
           /\ HasRow(r, tx.id) => \A i \in DOMAIN r :
                 /\ Received(r, tx)[i].id = r[i].id
                 /\ r[i].mine => Received(r, tx)[i].mine
<1> DEFINE q == Received(r, tx)
           i == First(r, tx.id)
<1>1. DOMAIN r = 1..Len(r) /\ Len(r) \in Nat
  OBVIOUS
<1>2. CASE ~HasRow(r, tx.id)
  <2>1. q = <<tx>> \o r
    BY <1>2 DEF Received
  <2>2. q \in Seq(Rows) /\ Len(q) = Len(r) + 1
    BY <2>1
  <2>3. DOMAIN q = 1..Len(r) + 1 /\ q[1] = tx /\ \A j \in 2..Len(r) + 1 : q[j] = r[j - 1]
    BY <1>1, <2>1
  <2>4. ASSUME NEW x, x # tx.id PROVE Alike(r, q, x, 1) /\ Stated(r, q, x, 1)
    <3>1. \A j \in DOMAIN r : j + 1 \in DOMAIN q /\ q[j + 1] = r[j]
      BY <1>1, <2>3
    <3>2. \A j \in DOMAIN q : q[j].id = x => j - 1 \in DOMAIN r /\ q[j] = r[j - 1]
      BY <1>1, <2>3, <2>4
    <3> HIDE DEF q
    <3> QED
      BY <3>1, <3>2 DEF Alike, Stated
  <2>5. \A j \in DOMAIN q : q[j].id = tx.id => j = 1
    BY <1>1, <1>2, <2>3 DEF HasRow
  <2> HIDE DEF q
  <2>6. HasRow(q, tx.id) /\ AtMostOne(q, tx.id) /\ (tx.mine => OwnRow(q, tx.id)) /\ ~OwnRow(r, tx.id)
    BY <1>1, <1>2, <2>3, <2>5 DEF HasRow, AtMostOne, OwnRow
  <2>7. \A x : x # tx.id => \E k \in Int : Alike(r, q, x, k) /\ Stated(r, q, x, k)
    BY <2>4
  <2> QED
    BY <1>2, <2>2, <2>6, <2>7 DEF q
<1>3. CASE HasRow(r, tx.id)
  <2>1. i \in DOMAIN r /\ r[i].id = tx.id
    BY <1>3, FirstIs
  <2>2. PICK row \in Rows : /\ q = [r EXCEPT ![i] = row]
                            /\ row.id = tx.id
                            /\ row.mine <=> (r[i].mine \/ tx.mine)
    <3>1. r[i] \in Rows
      BY <2>1
    <3>2. CASE ~r[i].mine
      <4>1. q = [r EXCEPT ![i] = tx]
        BY <1>3, <3>2 DEF Received
      <4> QED
        BY <3>1, <3>2, <4>1 DEF Rows
    <3>3. CASE r[i].mine
      <4>1. q = [r EXCEPT ![i] = Renewed(r[i], tx.state)]
        BY <1>3, <3>3 DEF Received
      <4>2. tx.state \in States
        BY DEF Rows
      <4> HIDE DEF i, q
      <4>3. Renewed(r[i], tx.state) \in Rows /\ Renewed(r[i], tx.state).id = r[i].id
            /\ Renewed(r[i], tx.state).mine = r[i].mine
        BY <3>1, <4>2, RenewedIs
      <4> QED
        BY <2>1, <3>3, <4>1, <4>3
    <3> QED
      BY <3>2, <3>3
  <2> HIDE DEF i, q
  <2>3. q \in Seq(Rows) /\ Len(q) = Len(r) /\ DOMAIN q = DOMAIN r
    BY <2>1, <2>2
  <2>4. q[i] = row /\ \A j \in DOMAIN r : j # i => q[j] = r[j]
    BY <2>1, <2>2
  <2>5. ASSUME NEW x, x # tx.id PROVE Alike(r, q, x, 0) /\ Stated(r, q, x, 0)
    BY <1>1, <2>1, <2>2, <2>3, <2>4, <2>5 DEF Alike, Stated
  <2>6. \A j \in DOMAIN r : q[j].id = tx.id <=> r[j].id = tx.id
    BY <2>1, <2>2, <2>4
  <2>7. /\ HasRow(q, tx.id) /\ (AtMostOne(r, tx.id) => AtMostOne(q, tx.id))
        /\ OwnRow(r, tx.id) => OwnRow(q, tx.id)
        /\ tx.mine /\ AtMostOne(r, tx.id) => OwnRow(q, tx.id)
    BY <2>1, <2>2, <2>3, <2>4, <2>6 DEF HasRow, AtMostOne, OwnRow
  <2>8. \A x : x # tx.id => \E k \in Int : Alike(r, q, x, k) /\ Stated(r, q, x, k)
    BY <2>5
  <2>9. \A j \in DOMAIN r : q[j].id = r[j].id /\ (r[j].mine => q[j].mine)
    BY <2>1, <2>2, <2>4
  <2> QED
    BY <1>3, <2>3, <2>7, <2>8, <2>9 DEF q
<1> QED
  BY <1>2, <1>3

\* A change that leaves the rows where they are, with their ids and marks.
LEMMA InPlace ==
    ASSUME NEW r \in Seq(Rows), NEW q \in Seq(Rows), Len(q) = Len(r), NEW x,
           \A i \in DOMAIN r : /\ r[i].id = x <=> q[i].id = x
                               /\ r[i].id = x => q[i].mine = r[i].mine
    PROVE  /\ Alike(r, q, x, 0)
           /\ (\A i \in DOMAIN r : r[i].id = x => q[i].state = r[i].state) => Stated(r, q, x, 0)
<1>1. DOMAIN q = DOMAIN r /\ \A i \in DOMAIN r : i + 0 = i /\ i - 0 = i
  OBVIOUS
<1> QED
  BY <1>1 DEF Alike, Stated

LEMMA StateChangedIs ==
    ASSUME NEW r \in Seq(Rows), NEW id, NEW state \in States
    PROVE  LET q == StateChanged(r, id, state) IN
           /\ q \in Seq(Rows) /\ Len(q) = Len(r)
           /\ \A i \in DOMAIN r : q[i].id = r[i].id /\ q[i].mine = r[i].mine
           /\ \A x : Alike(r, q, x, 0) /\ (x # id => Stated(r, q, x, 0))
           /\ AtMostOne(r, id) => InState(q, id, state)
<1> DEFINE q == StateChanged(r, id, state)
           f == First(r, id)
<1>1. CASE ~HasRow(r, id)
  <2>1. q = r
    BY <1>1 DEF StateChanged
  <2>2. \A x : Alike(r, r, x, 0) /\ Stated(r, r, x, 0)
    BY InPlace
  <2>3. InState(r, id, state)
    BY <1>1 DEF HasRow, InState
  <2> QED
    BY <2>1, <2>2, <2>3
<1>2. CASE HasRow(r, id)
  <2>1. f \in DOMAIN r /\ r[f].id = id
    BY <1>2, FirstIs
  <2>2. q = [r EXCEPT ![f] = [r[f] EXCEPT !.state = state]]
    BY <1>2, <2>1 DEF StateChanged
  <2>3. /\ [r[f] EXCEPT !.state = state] \in Rows
        /\ [r[f] EXCEPT !.state = state].id = r[f].id
        /\ [r[f] EXCEPT !.state = state].mine = r[f].mine
        /\ [r[f] EXCEPT !.state = state].state = state
    <3> DEFINE row == r[f]
    <3>1. row \in Rows
      BY <2>1
    <3> HIDE DEF row
    <3>2. /\ [row EXCEPT !.state = state] \in Rows
          /\ [row EXCEPT !.state = state].id = row.id
          /\ [row EXCEPT !.state = state].mine = row.mine
          /\ [row EXCEPT !.state = state].state = state
      BY <3>1 DEF Rows
    <3> QED
      BY <3>2 DEF row
  <2> HIDE DEF q, f
  <2>4. q \in Seq(Rows) /\ Len(q) = Len(r) /\ DOMAIN q = DOMAIN r
    BY <2>1, <2>2, <2>3
  <2>5. /\ \A i \in DOMAIN r : q[i].id = r[i].id /\ q[i].mine = r[i].mine
        /\ \A i \in DOMAIN r : i # f => q[i].state = r[i].state
        /\ q[f].state = state
    BY <2>1, <2>2, <2>3
  <2>6. \A x : Alike(r, q, x, 0) /\ (x # id => Stated(r, q, x, 0))
    <3> SUFFICES ASSUME NEW x PROVE Alike(r, q, x, 0) /\ (x # id => Stated(r, q, x, 0))
      OBVIOUS
    <3>1. x # id => \A i \in DOMAIN r : r[i].id = x => q[i].state = r[i].state
      BY <2>1, <2>5
    <3> QED
      BY <2>4, <2>5, <3>1, InPlace
  <2>7. AtMostOne(r, id) => InState(q, id, state)
    BY <2>1, <2>4, <2>5 DEF AtMostOne, InState
  <2> QED
    BY <2>4, <2>5, <2>6, <2>7 DEF q
<1> QED
  BY <1>1, <1>2

LEMMA IdChangedIs ==
    ASSUME NEW r \in Seq(Rows), NEW id, NEW new \in Ids, new # id
    PROVE  LET q == IdChanged(r, id, new) IN
           /\ q \in Seq(Rows) /\ Len(q) = Len(r)
           /\ \A i \in DOMAIN r : /\ q[i].mine = r[i].mine
                                  /\ q[i].id = r[i].id \/ (r[i].id = id /\ q[i].id = new)
           /\ \A x : x \notin {id, new} => Alike(r, q, x, 0) /\ Stated(r, q, x, 0)
           /\ AtMostOne(r, id) => ~HasRow(q, id)
           /\ OwnRow(r, id) /\ ~HasRow(r, new) => OwnRow(q, new)
<1> DEFINE q == IdChanged(r, id, new)
           f == First(r, id)
<1>1. CASE ~HasRow(r, id)
  <2>1. q = r
    BY <1>1 DEF IdChanged
  <2>2. \A x : Alike(r, r, x, 0) /\ Stated(r, r, x, 0)
    BY InPlace
  <2> QED
    BY <1>1, <2>1, <2>2 DEF OwnRow
<1>2. CASE HasRow(r, id)
  <2>1. f \in DOMAIN r /\ r[f].id = id
    BY <1>2, FirstIs
  <2>2. q = [r EXCEPT ![f] = [r[f] EXCEPT !.id = new]]
    BY <1>2, <2>1 DEF IdChanged
  <2>3. /\ [r[f] EXCEPT !.id = new] \in Rows
        /\ [r[f] EXCEPT !.id = new].id = new
        /\ [r[f] EXCEPT !.id = new].mine = r[f].mine
        /\ [r[f] EXCEPT !.id = new].state = r[f].state
    <3> DEFINE row == r[f]
    <3>1. row \in Rows
      BY <2>1
    <3> HIDE DEF row
    <3>2. /\ [row EXCEPT !.id = new] \in Rows
          /\ [row EXCEPT !.id = new].id = new
          /\ [row EXCEPT !.id = new].mine = row.mine
          /\ [row EXCEPT !.id = new].state = row.state
      BY <3>1 DEF Rows
    <3> QED
      BY <3>2 DEF row
  <2> HIDE DEF q, f
  <2>4. q \in Seq(Rows) /\ Len(q) = Len(r) /\ DOMAIN q = DOMAIN r
    BY <2>1, <2>2, <2>3
  <2>5. /\ \A i \in DOMAIN r : q[i].mine = r[i].mine /\ q[i].state = r[i].state
        /\ \A i \in DOMAIN r : i # f => q[i].id = r[i].id
        /\ q[f].id = new
    BY <2>1, <2>2, <2>3
  <2>6. \A x : x \notin {id, new} => Alike(r, q, x, 0) /\ Stated(r, q, x, 0)
    <3> SUFFICES ASSUME NEW x, x \notin {id, new} PROVE Alike(r, q, x, 0) /\ Stated(r, q, x, 0)
      OBVIOUS
    <3>1. \A i \in DOMAIN r : r[i].id = x <=> q[i].id = x
      BY <2>1, <2>5
    <3> QED
      BY <2>4, <2>5, <3>1, InPlace
  <2>7. AtMostOne(r, id) => ~HasRow(q, id)
    BY <2>1, <2>4, <2>5 DEF AtMostOne, HasRow
  <2>8. OwnRow(r, id) /\ ~HasRow(r, new) => OwnRow(q, new)
    BY <2>1, <2>4, <2>5 DEF OwnRow, AtMostOne, HasRow
  <2>9. \A i \in DOMAIN r : q[i].id = r[i].id \/ (r[i].id = id /\ q[i].id = new)
    BY <2>1, <2>5
  <2> QED
    BY <2>4, <2>5, <2>6, <2>7, <2>8, <2>9 DEF q
<1> QED
  BY <1>1, <1>2

\* The list onTimer() leaves, built up row after row.
IsChecked(F, r, n) ==
    F = [i \in 0..n |-> IF i = 0 THEN <<>>
                        ELSE IF Erased(r[i]) THEN F[i - 1]
                        ELSE Append(F[i - 1], Expired(r[i]))]

\* A function so defined does what its definition says at each number.
LEMMA CheckedSteps ==
    ASSUME NEW r, NEW n \in Nat, NEW F, IsChecked(F, r, n)
    PROVE  /\ F[0] = <<>>
           /\ \A i \in 1..n : F[i] = IF Erased(r[i]) THEN F[i - 1]
                                     ELSE Append(F[i - 1], Expired(r[i]))
<1> DEFINE G(i) == IF i = 0 THEN <<>>
                   ELSE IF Erased(r[i]) THEN F[i - 1] ELSE Append(F[i - 1], Expired(r[i]))
<1>1. F = [i \in 0..n |-> G(i)]
  BY DEF IsChecked
<1> HIDE DEF G
<1>2. \A i \in 0..n : F[i] = G(i)
  BY <1>1
<1> QED
  BY <1>2 DEF G

LEMMA CheckedExists ==
    ASSUME NEW r, NEW n \in Nat
    PROVE  \E F : IsChecked(F, r, n)
<1> DEFINE W == {m \in Nat : \E F : IsChecked(F, r, m)}
<1>1. 0 \in W
  <2>1. IsChecked([i \in 0..0 |-> <<>>], r, 0)
    BY DEF IsChecked
  <2> QED
    BY <2>1
<1>2. ASSUME NEW m \in Nat, m \in W PROVE m + 1 \in W
  <2>1. PICK F : IsChecked(F, r, m)
    BY <1>2
  <2> DEFINE last == IF Erased(r[m + 1]) THEN F[m] ELSE Append(F[m], Expired(r[m + 1]))
             G == [i \in 0..m + 1 |-> IF i = m + 1 THEN last ELSE F[i]]
             D(i) == IF i = 0 THEN <<>>
                     ELSE IF Erased(r[i]) THEN G[i - 1] ELSE Append(G[i - 1], Expired(r[i]))
  <2>2. F[0] = <<>> /\ \A i \in 1..m : F[i] = IF Erased(r[i]) THEN F[i - 1]
                                              ELSE Append(F[i - 1], Expired(r[i]))
    BY <2>1, CheckedSteps
  <2>3. \A i \in 0..m : G[i] = F[i]
    OBVIOUS
  <2>4. G[m + 1] = D(m + 1)
    <3>1. G[m + 1] = last /\ G[m] = F[m] /\ (m + 1) - 1 = m
      OBVIOUS
    <3> HIDE DEF G
    <3> QED
      BY <3>1
  <2>5. G[0] = D(0)
    BY <2>2, <2>3
  <2>6. ASSUME NEW i \in 1..m PROVE G[i] = D(i)
    <3>1. G[i] = F[i] /\ G[i - 1] = F[i - 1] /\ i # 0
      BY <2>3
    <3> HIDE DEF G
    <3> QED
      BY <2>2, <3>1
  <2>7. G = [i \in 0..m + 1 |-> G[i]]
    OBVIOUS
  <2> HIDE DEF G, D
  <2>8. \A i \in 0..m + 1 : G[i] = D(i)
    <3>1. \A i \in 0..m + 1 : i = 0 \/ i \in 1..m \/ i = m + 1
      OBVIOUS
    <3> QED
      BY <2>4, <2>5, <2>6, <3>1
  <2>9. G = [i \in 0..m + 1 |-> D(i)]
    BY <2>7, <2>8, Zenon
  <2>10. IsChecked(G, r, m + 1)
    BY <2>9 DEF D, IsChecked
  <2> QED
    BY <2>10
<1> HIDE DEF W
<1>3. Nat \subseteq W
  BY <1>1, <1>2, CountUp
<1> QED
  BY <1>3 DEF W

LEMMA ExpiredIs ==
    ASSUME NEW row \in Rows
    PROVE  /\ Expired(row) \in Rows
           /\ Expired(row).id = row.id /\ Expired(row).mine = row.mine
           /\ row.state # "trPending" => Expired(row) = row
BY StatesAre DEF Rows, Expired

\* q is what onTimer() keeps of the first n rows.
Kept(r, n, q) ==
    /\ q \in Seq(Rows)
    /\ \A j \in DOMAIN q : \E i \in 1..n : ~Erased(r[i]) /\ q[j] = Expired(r[i])
    /\ \A i \in 1..n : ~Erased(r[i]) => \E j \in DOMAIN q : q[j] = Expired(r[i])
    /\ \A x : (\A i, k \in 1..n : r[i].id = x /\ r[k].id = x => i = k) => AtMostOne(q, x)

\* The rows onTimer() keeps: the ones that are not to be erased, each once.
LEMMA CheckedIs ==
    ASSUME NEW r \in Seq(Rows)
    PROVE  LET q == Checked(r) IN
           /\ q \in Seq(Rows)
           /\ \A j \in DOMAIN q : \E i \in DOMAIN r : ~Erased(r[i]) /\ q[j] = Expired(r[i])
           /\ \A i \in DOMAIN r : ~Erased(r[i]) => \E j \in DOMAIN q : q[j] = Expired(r[i])
           /\ \A x : AtMostOne(r, x) => AtMostOne(q, x)
<1>1. DOMAIN r = 1..Len(r) /\ Len(r) \in Nat /\ \A i \in 1..Len(r) : r[i] \in Rows
  OBVIOUS
<1> DEFINE F == CHOOSE G : IsChecked(G, r, Len(r))
<1>2. IsChecked(F, r, Len(r)) /\ Checked(r) = F[Len(r)]
  <2>1. IsChecked(F, r, Len(r))
    BY <1>1, CheckedExists
  <2> QED
    BY <2>1, Zenon DEF Checked, IsChecked
<1> HIDE DEF F
<1>3. /\ F[0] = <<>>
      /\ \A i \in 1..Len(r) : F[i] = IF Erased(r[i]) THEN F[i - 1]
                                     ELSE Append(F[i - 1], Expired(r[i]))
  BY <1>1, <1>2, CheckedSteps
<1> DEFINE W == {n \in Nat : n <= Len(r) => Kept(r, n, F[n])}
<1>4. 0 \in W
  <2>1. Kept(r, 0, <<>>)
    BY DEF AtMostOne, Kept
  <2> QED
    BY <1>3, <2>1
<1>5. ASSUME NEW n \in Nat, n \in W PROVE n + 1 \in W
  <2> SUFFICES ASSUME n + 1 <= Len(r) PROVE Kept(r, n + 1, F[n + 1])
    OBVIOUS
  <2> DEFINE q == F[n]
             row == r[n + 1]
  <2>1. n <= Len(r) /\ n + 1 \in 1..Len(r) /\ (n + 1) - 1 = n
    BY <1>1
  <2>2. Kept(r, n, q)
    BY <1>5, <2>1
  <2>3. F[n + 1] = IF Erased(row) THEN q ELSE Append(q, Expired(row))
    BY <1>3, <2>1
  <2>4. 1..n + 1 = (1..n) \cup {n + 1} /\ row \in Rows
    BY <1>1, <2>1
  <2> HIDE DEF q
  <2>5. CASE Erased(row)
    <3>1. F[n + 1] = q
      BY <2>3, <2>5
    <3> QED
      BY <2>2, <2>4, <2>5, <3>1 DEF Kept
  <2>6. CASE ~Erased(row)
    <3> DEFINE e == Expired(row)
               p == Append(q, e)
    <3>1. F[n + 1] = p /\ e \in Rows /\ e.id = row.id
      BY <2>3, <2>4, <2>6, ExpiredIs
    <3> HIDE DEF e, Kept
    <3>2. /\ p \in Seq(Rows) /\ DOMAIN p = (DOMAIN q) \cup {Len(q) + 1}
          /\ p[Len(q) + 1] = e /\ \A j \in DOMAIN q : p[j] = q[j]
      BY <2>2, <3>1, SMTT(60) DEF Kept
    <3> HIDE DEF p
    <3>3. \A j \in DOMAIN p : \E i \in 1..n + 1 : ~Erased(r[i]) /\ p[j] = Expired(r[i])
      BY <2>2, <2>4, <2>6, <3>2 DEF e, Kept
    <3>4. \A i \in 1..n + 1 : ~Erased(r[i]) => \E j \in DOMAIN p : p[j] = Expired(r[i])
      BY <2>2, <2>4, <3>2 DEF e, Kept
    <3>5. ASSUME NEW x, \A i, k \in 1..n + 1 : r[i].id = x /\ r[k].id = x => i = k
          PROVE  AtMostOne(p, x)
      <4>1. \A i, k \in 1..n : r[i].id = x /\ r[k].id = x => i = k
        BY <2>4, <3>5
      <4>2. AtMostOne(q, x)
        BY <2>2, <4>1 DEF Kept
      <4>3. CASE row.id = x
        <5>1. \A i \in 1..n : r[i].id # x
          BY <2>4, <3>5, <4>3
        <5>2. \A j \in DOMAIN q : q[j].id # x
          <6> SUFFICES ASSUME NEW j \in DOMAIN q PROVE q[j].id # x
            OBVIOUS
          <6>1. PICK i \in 1..n : q[j] = Expired(r[i])
            BY <2>2 DEF Kept
          <6>2. r[i] \in Rows
            BY <1>1, <2>1
          <6> QED
            BY <5>1, <6>1, <6>2, ExpiredIs
        <5> QED
          BY <3>2, <5>2 DEF AtMostOne
      <4>4. CASE row.id # x
        BY <3>1, <3>2, <4>2, <4>4 DEF AtMostOne
      <4> QED
        BY <4>3, <4>4
    <3> QED
      BY <3>1, <3>2, <3>3, <3>4, <3>5 DEF Kept
  <2> QED
    BY <2>5, <2>6
<1> HIDE DEF W
<1>6. Nat \subseteq W
  BY <1>4, <1>5, CountUp
<1>7. Kept(r, Len(r), F[Len(r)])
  BY <1>1, <1>6 DEF W
<1>8. \A x : AtMostOne(r, x) => AtMostOne(F[Len(r)], x)
  BY <1>1, <1>7, Zenon DEF AtMostOne, Kept
<1> QED
  BY <1>1, <1>2, <1>7, <1>8, Zenon DEF Kept

-----------------------------------------------------------------------------
(***************************************************************************)
(* OrderInv is inductive.                                                  *)
(***************************************************************************)
LEMMA InitOrders == OrderListInit => OrderInv
<1> SUFFICES ASSUME OrderListInit PROVE OrderInv
  OBVIOUS
<1>1. OrderListTypeOK
  BY OrderListAssumption DEF OrderListInit, OrderListTypeOK, Idle
<1>2. \A x : ~HasRow(rows, x)
  BY DEF OrderListInit, HasRow
<1>3. \A o \in Own : swaps[HeldAs[o]] = "absent"
  BY NamesAre DEF OrderListInit
<1>4. ui.at = "idle"
  BY DEF OrderListInit, Idle
<1>5. \A o \in Own : Followed(o)
  BY <1>2, <1>3, <1>4, NamesAre DEF OrderListInit, Followed, Taken, Busy, Held, Ids
<1> QED
  BY <1>1, <1>3, <1>4, <1>5 DEF OrderInv, OrderListInit, NoticesInOrder

\* What the steps need of OrderInv.
LEMMA OrderFacts ==
    ASSUME OrderInv
    PROVE  /\ rows \in Seq(Rows) /\ DOMAIN rows = 1..Len(rows) /\ Len(rows) \in Nat
           /\ pending \subseteq placed /\ placed \subseteq Own
           /\ swaps \in [SwapIds -> States \cup {"absent"}]
           /\ \A o \in pending : swaps[HeldAs[o]] = "absent"
           /\ \A o \in Own : HeldAs[o] \notin raced \cup lost => Followed(o)
           /\ dialog \in Ids \cup {Nothing}
           /\ raced \subseteq Ids /\ lost \subseteq Ids
           /\ \A i \in DOMAIN rows : rows[i] \in Rows /\ rows[i].id \in Ids
           /\ notices # <<>> => Head(notices).id \in Ids
           /\ \A m \in SwapIds : swaps[m] # "absent" => m \in applied
           /\ \A o \in Own : HeldAs[o] \in applied =>
                 o \in placed \ pending /\ (HeldAs[o] \in lost \/ swaps[HeldAs[o]] # "absent")
           /\ \A o \in Own : swaps[HeldAs[o]] # "absent" => o \in placed
           /\ applied \subseteq SwapIds
<1>1. rows \in Seq(Rows)
  BY DEF OrderInv, OrderListTypeOK, Rows
<1>2. \A i \in DOMAIN rows : rows[i] \in Rows
  BY <1>1
<1>3. \A row \in Rows : row.id \in Ids
  BY DEF Rows
<1>4. ASSUME notices # <<>> PROVE Head(notices).id \in Ids
  <2> DEFINE Notice == [kind : {"id", "state"}, id : Ids, new : Ids \cup {Nothing}, state : States]
  <2>1. notices \in Seq(Notice) /\ \A n \in Notice : n.id \in Ids
    BY DEF OrderInv, OrderListTypeOK
  <2> HIDE DEF Notice
  <2>2. Head(notices) \in Notice
    BY <1>4, <2>1
  <2> QED
    BY <2>1, <2>2
<1>5. \A o \in Own : swaps[HeldAs[o]] # "absent" => o \in placed
  BY NamesAre DEF OrderInv
<1> QED
  BY <1>1, <1>2, <1>3, <1>4, <1>5 DEF OrderInv, OrderListTypeOK

LEMMA UnknownEndKeeps ==
    ASSUME OrderInv, NEW id \in Ids, NEW s \in Ends, ProcessUnknownEnd(id, s)
    PROVE  OrderInv'
<1>1. /\ notices = <<>> /\ notices' = <<StateNotice(id, s)>>
      /\ id \in SwapIds => swaps[id] = "absent"
      /\ rows' = rows /\ pending' = pending /\ swaps' = swaps
      /\ applied' = applied /\ placed' = placed /\ ui' = ui
      /\ dialog' = dialog /\ announced' = announced /\ raced' = raced /\ lost' = lost
  BY DEF ProcessUnknownEnd
<1>2. s \in States /\ "trNew" \in States
  BY StatesAre DEF Ends
<1>3. StateNotice(id, s) \in [kind : {"id", "state"}, id : Ids, new : Ids \cup {Nothing},
                               state : States]
  BY <1>1, <1>2 DEF StateNotice
<1>4. OrderListTypeOK'
  BY <1>1, <1>3 DEF OrderInv, OrderListTypeOK
<1>5. NoticesInOrder'
  BY <1>1, <1>2 DEF NoticesInOrder
<1>6. \A o \in Own : ~Renaming(o) /\ ~Renaming(o)'
  BY <1>1 DEF Renaming, StateNotice, IdNotice
<1>7. ASSUME NEW o \in Own, HeldAs[o] \notin raced \cup lost PROVE Followed(o)'
  BY <1>1, <1>6, <1>7, OrderFacts DEF Followed, Taken, Current, Busy, Held
<1> QED
  BY <1>1, <1>4, <1>5, <1>7 DEF OrderInv

LEMMA InitPacketKeeps ==
    ASSUME OrderInv, NEW n \in SwapIds, ProcessTransactionInit(n)
    PROVE  OrderInv'
<1>1. /\ notices = <<>> /\ notices' = <<>>
      /\ n \in applied /\ swaps' = [swaps EXCEPT ![n] = "trNew"]
      /\ rows' = rows /\ pending' = pending /\ applied' = applied /\ placed' = placed /\ ui' = ui
      /\ dialog' = dialog /\ announced' = announced /\ raced' = raced /\ lost' = lost
  BY DEF ProcessTransactionInit
<1>2. /\ swaps' \in [SwapIds -> States \cup {"absent"}]
      /\ swaps'[n] = "trNew" /\ \A m \in SwapIds \ {n} : swaps'[m] = swaps[m]
  BY <1>1, OrderFacts, StatesAre
<1>3. OrderListTypeOK'
  <2>1. \A o \in pending : swaps'[HeldAs[o]] = "absent"
    <3> SUFFICES ASSUME NEW o \in pending PROVE swaps'[HeldAs[o]] = "absent"
      OBVIOUS
    <3>1. HeldAs[o] \in SwapIds /\ HeldAs[o] # n /\ swaps[HeldAs[o]] = "absent"
      BY <1>1, OrderFacts, NamesAre
    <3> QED
      BY <1>2, <3>1
  <2> QED
    BY <1>1, <1>2, <2>1 DEF OrderInv, OrderListTypeOK
<1>4. NoticesInOrder'
  BY <1>1 DEF NoticesInOrder
<1>5. \A o \in Own : ~Renaming(o) /\ ~Renaming(o)'
  BY <1>1 DEF Renaming
<1>6. ASSUME NEW o \in Own, HeldAs[o] \notin raced \cup lost PROVE Followed(o)'
  <2>1. Followed(o)
    BY <1>6, OrderFacts
  <2>2. HeldAs[o] = n => swaps[n] # "absent"    \* only a restart loses what was applied to
    BY <1>1, <1>6, OrderFacts
  <2>3. (Taken(o) <=> Taken(o)') /\ (swaps[HeldAs[o]] = "absent" <=> swaps'[HeldAs[o]] = "absent")
        /\ (swaps'[HeldAs[o]] = swaps[HeldAs[o]] \/ swaps'[HeldAs[o]] = "trNew")
    BY <1>1, <1>2, <1>5, <2>2, NamesAre DEF Taken
  <2>4. Current(o)' = Current(o)
    BY <2>3 DEF Current
  <2> QED
    BY <1>1, <2>1, <2>3, <2>4 DEF Followed, Busy, Held
<1>7. /\ \A m \in SwapIds : swaps'[m] \in {"absent", "trHold", "trNew", "trCancelled"} \cup Steps
      /\ \A m \in SwapIds : swaps'[m] # "absent" => m \in applied
      /\ \A o \in Own : HeldAs[o] \in applied =>
            o \in placed \ pending /\ (HeldAs[o] \in lost \/ swaps'[HeldAs[o]] # "absent")
  BY <1>1, <1>2, NamesAre DEF OrderInv
<1> QED
  BY <1>1, <1>3, <1>4, <1>6, <1>7 DEF OrderInv

LEMMA SwapPacketKeeps ==
    ASSUME OrderInv, NEW n \in SwapIds, NEW s \in Steps, ProcessSwapPacket(n, s)
    PROVE  OrderInv'
<1>1. /\ notices = <<>> /\ notices' = <<StateNotice(n, s)>>
      /\ swaps[n] # "absent" /\ swaps' = [swaps EXCEPT ![n] = s]
      /\ raced' = IF Touching(n) THEN raced \cup {n} ELSE raced
      /\ rows' = rows /\ pending' = pending /\ applied' = applied /\ placed' = placed /\ ui' = ui
      /\ dialog' = dialog /\ announced' = announced /\ lost' = lost
  BY DEF ProcessSwapPacket
<1>2. /\ swaps' \in [SwapIds -> States \cup {"absent"}] /\ s \in States /\ s # "absent"
      /\ swaps'[n] = s /\ \A m \in SwapIds \ {n} : swaps'[m] = swaps[m]
  BY <1>1, OrderFacts, StatesAre, StepsAre, OrderListAssumption
<1>3. n \in Ids /\ raced' \subseteq Ids /\ raced \subseteq raced' /\ "trNew" \in States
  BY <1>1, OrderFacts, StatesAre DEF Ids
<1>4. StateNotice(n, s) \in [kind : {"id", "state"}, id : Ids, new : Ids \cup {Nothing},
                             state : States]
  BY <1>2, <1>3 DEF StateNotice
<1>5. OrderListTypeOK'
  <2>1. \A o \in pending : swaps'[HeldAs[o]] = "absent"
    BY <1>1, <1>2, OrderFacts, NamesAre
  <2> QED
    BY <1>1, <1>2, <1>3, <1>4, <2>1 DEF OrderInv, OrderListTypeOK
<1>6. NoticesInOrder'
  BY <1>1, <1>2, <1>3, NamesAre DEF NoticesInOrder, StateNotice
<1>7. \A o \in Own : ~Renaming(o) /\ ~Renaming(o)'
  BY <1>1 DEF Renaming, StateNotice, IdNotice
<1>8. ASSUME NEW o \in Own, HeldAs[o] \notin raced' \cup lost PROVE Followed(o)'
  <2>1. Followed(o)
    BY <1>1, <1>3, <1>8, OrderFacts
  <2>2. (Taken(o) <=> Taken(o)') /\ (swaps[HeldAs[o]] = "absent" <=> swaps'[HeldAs[o]] = "absent")
        /\ (HeldAs[o] # n => swaps'[HeldAs[o]] = swaps[HeldAs[o]])
    BY <1>1, <1>2, <1>7, NamesAre DEF Taken
  <2>3. Current(o)' = Current(o)
    BY <2>2 DEF Current
  <2>4. HeldAs[o] = n => ~(ui.at = "cancelled" /\ ui.id = n)
    BY <1>1, <1>8, OrderListAssumption DEF Touching, Names
  <2> QED
    BY <1>1, <1>2, <2>1, <2>2, <2>3, <2>4 DEF Followed, Busy, Held
<1>9. /\ \A m \in SwapIds : swaps'[m] \in {"absent", "trHold", "trNew", "trCancelled"} \cup Steps
      /\ \A m \in SwapIds : swaps'[m] # "absent" => m \in applied
      /\ \A o \in Own : HeldAs[o] \in applied =>
            o \in placed \ pending /\ (HeldAs[o] \in lost \/ swaps'[HeldAs[o]] # "absent")
  BY <1>1, <1>2, NamesAre DEF OrderInv
<1> QED
  BY <1>1, <1>5, <1>6, <1>8, <1>9 DEF OrderInv

LEMMA HoldKeeps ==
    ASSUME OrderInv, NEW p \in Own, ProcessTransactionHold(p)
    PROVE  OrderInv'
<1>1. /\ notices = <<>> /\ notices' = <<IdNotice(p, HeldAs[p]), StateNotice(p, "trHold")>>
      /\ p \in pending /\ pending' = pending \ {p}
      /\ swaps' = [swaps EXCEPT ![HeldAs[p]] = "trHold"]
      /\ raced' = IF Touching(p) THEN raced \cup Names(p) ELSE raced
      /\ applied' = applied \cup {HeldAs[p]} /\ rows' = rows /\ placed' = placed /\ ui' = ui
      /\ dialog' = dialog /\ announced' = announced /\ lost' = lost
  BY DEF ProcessTransactionHold
<1>2. /\ swaps' \in [SwapIds -> States \cup {"absent"}] /\ swaps[HeldAs[p]] = "absent"
      /\ swaps'[HeldAs[p]] = "trHold"
      /\ \A o \in Own \ {p} : swaps'[HeldAs[o]] = swaps[HeldAs[o]]
      /\ \A m \in SwapIds : swaps'[m] = "trHold" \/ swaps'[m] = swaps[m]
  BY <1>1, OrderFacts, StatesAre, NamesAre
<1>3. /\ raced' \subseteq Ids /\ raced \subseteq raced' /\ "trNew" \in States /\ "trHold" \in States
      /\ p \in placed /\ HeldAs[p] \in Ids /\ p \in Ids
  BY <1>1, OrderFacts, StatesAre, NamesAre
<1>4. /\ StateNotice(p, "trHold") \in [kind : {"id", "state"}, id : Ids, new : Ids \cup {Nothing},
                                       state : States]
      /\ IdNotice(p, HeldAs[p]) \in [kind : {"id", "state"}, id : Ids, new : Ids \cup {Nothing},
                                       state : States]
  BY <1>3 DEF StateNotice, IdNotice
<1>5. OrderListTypeOK'
  <2>1. \A o \in pending' : swaps'[HeldAs[o]] = "absent"
    BY <1>1, <1>2, OrderFacts
  <2>2. notices' \in Seq([kind : {"id", "state"}, id : Ids, new : Ids \cup {Nothing},
                          state : States])
    BY <1>1, <1>4
  <2> QED
    BY <1>1, <1>2, <1>3, <2>1, <2>2, NamesAre DEF OrderInv, OrderListTypeOK
<1>6. NoticesInOrder'
  BY <1>1, <1>2, <1>3 DEF NoticesInOrder
<1>7. \A o \in Own : ~Renaming(o) /\ (Renaming(o)' <=> o = p)
  BY <1>1 DEF Renaming, IdNotice
<1>8. ASSUME NEW o \in Own, HeldAs[o] \notin raced' \cup lost PROVE Followed(o)'
  <2>1. Followed(o)
    BY <1>1, <1>3, <1>8, OrderFacts
  <2>2. (Taken(o) <=> Taken(o)') /\ (o # p => swaps'[HeldAs[o]] = swaps[HeldAs[o]])
    BY <1>1, <1>2, <1>7 DEF Taken
  <2>3. Current(o)' = Current(o)
    BY <2>2 DEF Current
  <2>4. o = p => ~Busy(o)
    BY <1>1, <1>8, NamesAre DEF Busy, Touching
  <2> QED
    BY <1>1, <1>2, <1>3, <2>1, <2>2, <2>3, <2>4 DEF Followed, Busy, Held
<1>9. /\ \A m \in SwapIds : swaps'[m] \in {"absent", "trHold", "trNew", "trCancelled"} \cup Steps
      /\ \A m \in SwapIds : swaps'[m] # "absent" => m \in applied'
  BY <1>1, <1>2, <1>3, NamesAre DEF OrderInv
<1>10. ASSUME NEW o \in Own, HeldAs[o] \in applied'
       PROVE  o \in placed \ pending' /\ (HeldAs[o] \in lost \/ swaps'[HeldAs[o]] # "absent")
  <2>1. CASE o = p
    BY <1>1, <1>2, <1>3, <2>1
  <2>2. CASE o # p
    <3>1. HeldAs[o] \in applied
      BY <1>1, <1>10, <2>2, NamesAre
    <3> QED
      BY <1>1, <1>2, <2>2, <3>1, OrderFacts
  <2> QED
    BY <2>1, <2>2
<1> QED
  BY <1>1, <1>5, <1>6, <1>8, <1>9, <1>10 DEF OrderInv

\* The steps of the user interface leave swaps and notices alone, but for a cancel.
UiIs(at, order, slot, id, size) ==
    ui' = [at |-> at, order |-> order, slot |-> slot, id |-> id, size |-> size]

LEMMA NewTransactionKeeps ==
    ASSUME OrderInv, NEW p \in Own, NewTransaction(p)
    PROVE  OrderInv'
<1>1. /\ ui.at = "idle" /\ dialog = Nothing /\ p \notin placed
      /\ placed' = placed \cup {p} /\ pending' = pending \cup {p}
      /\ UiIs("show", p, 0, Nothing, 0)
      /\ rows' = rows /\ swaps' = swaps /\ applied' = applied /\ notices' = notices
      /\ dialog' = dialog /\ announced' = announced /\ raced' = raced /\ lost' = lost
  BY DEF NewTransaction, Place, Idle, UiIs
<1>2. swaps[HeldAs[p]] = "absent" /\ HeldAs[p] \notin applied
  BY <1>1, OrderFacts
<1>3. OrderListTypeOK'
  <2>1. \A o \in pending' : swaps[HeldAs[o]] = "absent"
    BY <1>1, <1>2, OrderFacts
  <2>2. /\ ui' \in [at : {"idle", "show", "accept", "menu", "cancelled"},
                    order : Own \cup {Nothing}, slot : Nat, id : Ids \cup {Nothing}, size : Nat]
    BY <1>1 DEF UiIs
  <2> QED
    BY <1>1, <2>1, <2>2 DEF OrderInv, OrderListTypeOK
<1>4. NoticesInOrder'
  BY <1>1 DEF OrderInv, NoticesInOrder
<1>5. ASSUME NEW o \in Own, HeldAs[o] \notin raced \cup lost PROVE Followed(o)'
  <2>1. Followed(o)
    BY <1>5, OrderFacts
  <2>2. (Taken(o) <=> Taken(o)') /\ Current(o)' = Current(o)
    BY <1>1 DEF Taken, Current, Renaming
  <2>3. ~Busy(o) /\ ~Held /\ ~Held' /\ (Busy(o)' <=> o = p) /\ ui'.at # "cancelled"
    BY <1>1 DEF Busy, Held, UiIs
  <2>4. AtMostOne(rows, p) \/ HasRow(rows, p)
    BY DEF AtMostOne, HasRow
  <2> QED
    BY <1>1, <1>2, <2>1, <2>2, <2>3, <2>4, NamesAre DEF Followed
<1> QED
  BY <1>1, <1>2, <1>3, <1>4, <1>5 DEF OrderInv, UiIs

LEMMA AcceptKeeps ==
    ASSUME OrderInv, NEW i \in DOMAIN rows, OnAcceptTransaction(i)
    PROVE  OrderInv'
<1>1. /\ ui.at = "idle" /\ ~rows[i].mine /\ dialog' = rows[i].id
      /\ rows' = rows /\ swaps' = swaps /\ notices' = notices /\ pending' = pending
      /\ applied' = applied /\ placed' = placed /\ ui' = ui /\ announced' = announced
      /\ raced' = raced /\ lost' = lost
  BY DEF OnAcceptTransaction, Idle
<1>2. rows[i].id \in Ids
  BY OrderFacts
<1>3. OrderListTypeOK'
  BY <1>1, <1>2 DEF OrderInv, OrderListTypeOK
<1>4. NoticesInOrder'
  BY <1>1 DEF OrderInv, NoticesInOrder
<1>5. ASSUME NEW o \in Own, HeldAs[o] \notin raced \cup lost PROVE Followed(o)'
  <2>1. Followed(o)
    BY <1>5, OrderFacts
  <2>2. (Taken(o) <=> Taken(o)') /\ Current(o)' = Current(o) /\ (Busy(o) <=> Busy(o)')
        /\ ~Busy(o) /\ ~Held /\ ~Held'
    BY <1>1 DEF Taken, Current, Renaming, Busy, Held
  <2>3. rows[i].id # HeldAs[o] /\ (rows[i].id = o => Taken(o))
    <3>1. o \notin placed => ~Taken(o)
      BY OrderFacts DEF Taken
    <3>2. o \notin placed \/ ~Taken(o) => rows[i].id # HeldAs[o]
      BY <2>1, <3>1 DEF Followed, HasRow
    <3>3. o \notin placed => rows[i].id # o
      BY <2>1 DEF Followed, HasRow
    <3>4. o \in placed => OwnRow(rows, Current(o))
      BY <2>1, <2>2 DEF Followed
    <3> QED
      BY <1>1, <3>2, <3>3, <3>4 DEF Current, OwnRow
  <2> QED
    BY <1>1, <2>1, <2>2, <2>3 DEF Followed
<1> QED
  BY <1>1, <1>3, <1>4, <1>5 DEF OrderInv

LEMMA MenuKeeps ==
    ASSUME OrderInv, NEW i \in DOMAIN rows, OnContextMenu(i)
    PROVE  OrderInv'
<1>1. /\ ui.at = "idle" /\ UiIs("menu", Nothing, i, Nothing, 0)
      /\ rows' = rows /\ swaps' = swaps /\ notices' = notices /\ pending' = pending
      /\ applied' = applied /\ placed' = placed /\ dialog' = dialog /\ announced' = announced
      /\ raced' = raced /\ lost' = lost
  BY DEF OnContextMenu, Idle, UiIs
<1>2. i \in Nat
  BY OrderFacts
<1>3. OrderListTypeOK'
  BY <1>1, <1>2 DEF OrderInv, OrderListTypeOK, UiIs
<1>4. NoticesInOrder'
  BY <1>1 DEF OrderInv, NoticesInOrder
<1>5. ASSUME NEW o \in Own, HeldAs[o] \notin raced \cup lost PROVE Followed(o)'
  <2>1. Followed(o)
    BY <1>5, OrderFacts
  <2>2. (Taken(o) <=> Taken(o)') /\ Current(o)' = Current(o) /\ ~Busy(o)'
        /\ ~Busy(o) /\ ~Held /\ ~Held' /\ ui'.at # "cancelled"
    BY <1>1 DEF Taken, Current, Renaming, Busy, Held, UiIs
  <2> QED
    BY <1>1, <2>1, <2>2 DEF Followed
<1> QED
  BY <1>1, <1>3, <1>4, <1>5 DEF OrderInv, UiIs

LEMMA AnsweredNoKeeps == OrderInv /\ CancelAnsweredNo => OrderInv'
<1> SUFFICES ASSUME OrderInv, CancelAnsweredNo PROVE OrderInv'
  OBVIOUS
<1>1. /\ ui.at = "menu" /\ UiIs("idle", Nothing, 0, Nothing, 0)
      /\ rows' = rows /\ swaps' = swaps /\ notices' = notices /\ pending' = pending
      /\ applied' = applied /\ placed' = placed /\ dialog' = dialog /\ announced' = announced
      /\ raced' = raced /\ lost' = lost
  BY DEF CancelAnsweredNo, Idle, UiIs
<1>3. OrderListTypeOK'
  BY <1>1 DEF OrderInv, OrderListTypeOK, UiIs
<1>4. NoticesInOrder'
  BY <1>1 DEF OrderInv, NoticesInOrder
<1>5. ASSUME NEW o \in Own, HeldAs[o] \notin raced \cup lost PROVE Followed(o)'
  <2>1. Followed(o)
    BY <1>5, OrderFacts
  <2>2. (Taken(o) <=> Taken(o)') /\ Current(o)' = Current(o) /\ ~Busy(o)'
        /\ ~Busy(o) /\ ~Held /\ ~Held' /\ ui'.at # "cancelled"
    BY <1>1 DEF Taken, Current, Renaming, Busy, Held, UiIs
  <2> QED
    BY <1>1, <2>1, <2>2 DEF Followed
<1> QED
  BY <1>1, <1>3, <1>4, <1>5 DEF OrderInv, UiIs

LEMMA CancelKeeps == OrderInv /\ CancelXBridgeTransaction => OrderInv'
<1> SUFFICES ASSUME OrderInv, CancelXBridgeTransaction PROVE OrderInv'
  OBVIOUS
<1> DEFINE id == IF ui.slot \in DOMAIN rows THEN rows[ui.slot].id ELSE Nothing
<1>1. /\ ui.at = "menu" /\ UiIs("cancelled", Nothing, 0, id, 0)
      /\ pending' = pending \ {id}
      /\ swaps' = IF id \in SwapIds /\ swaps[id] # "absent"
                  THEN [swaps EXCEPT ![id] = "trCancelled"] ELSE swaps
      /\ raced' = IF notices # <<>> /\ Head(notices).id \in Names(id)
                  THEN raced \cup Names(id) ELSE raced
      /\ rows' = rows /\ notices' = notices /\ applied' = applied /\ placed' = placed /\ dialog' = dialog
      /\ announced' = announced /\ lost' = lost
  BY DEF CancelXBridgeTransaction, Idle, UiIs
<1>2. id \in Ids \cup {Nothing} /\ (id # Nothing => HasRow(rows, id))
  BY OrderFacts DEF HasRow
<1> HIDE DEF id
<1>3. /\ swaps' \in [SwapIds -> States \cup {"absent"}]
      /\ \A m \in SwapIds : \/ swaps'[m] = swaps[m]
                            \/ m = id /\ swaps[m] # "absent" /\ swaps'[m] = "trCancelled"
      /\ id \in SwapIds => swaps'[id] \in {"absent", "trCancelled"}
  BY <1>1, OrderFacts, StatesAre
<1>4. raced \subseteq raced' /\ raced' \subseteq Ids
  <2>1. CASE notices # <<>> /\ Head(notices).id \in Names(id)
    <3>1. Head(notices).id \in Ids
      BY <2>1, OrderFacts
    <3>2. id \in Ids
      BY <1>2, <2>1, <3>1, NamesAre, OrderListAssumption DEF Ids
    <3> QED
      BY <1>1, <3>2, OrderFacts, NamesAre
  <2> QED
    BY <1>1, <2>1, OrderFacts
<1>5. OrderListTypeOK'
  <2>1. \A o \in pending' : swaps'[HeldAs[o]] = "absent"
    BY <1>1, <1>3, OrderFacts, NamesAre
  <2>2. /\ ui' \in [at : {"idle", "show", "accept", "menu", "cancelled"},
                    order : Own \cup {Nothing}, slot : Nat, id : Ids \cup {Nothing}, size : Nat]
    BY <1>1, <1>2 DEF UiIs
  <2> QED
    BY <1>1, <1>3, <1>4, <2>1, <2>2 DEF OrderInv, OrderListTypeOK
<1>6. \A o \in Own : (Taken(o) <=> Taken(o)') /\ Current(o)' = Current(o)
                     /\ (swaps[HeldAs[o]] = "absent" <=> swaps'[HeldAs[o]] = "absent")
  BY <1>1, <1>3, NamesAre DEF Taken, Current, Renaming
<1>7. NoticesInOrder'
  <2>1. CASE notices = <<>>
    BY <1>1, <2>1 DEF NoticesInOrder
  <2>2. ASSUME NEW o \in placed,
               notices = <<IdNotice(o, HeldAs[o]), StateNotice(o, "trHold")>>,
               HeldAs[o] \in raced \cup lost \/ swaps[HeldAs[o]] = "trHold"
        PROVE  NoticesInOrder'
    <3>1. HeldAs[o] \in raced' \cup lost' \/ swaps'[HeldAs[o]] = "trHold"
      <4> SUFFICES ASSUME HeldAs[o] \notin raced \cup lost PROVE swaps'[HeldAs[o]] = "trHold"
        BY <1>1, <1>4
      <4>1. o \in Own /\ Followed(o) /\ Renaming(o)
        BY <2>2, OrderFacts DEF Renaming
      <4>2. ~HasRow(rows, HeldAs[o])
        BY <4>1 DEF Followed, Taken
      <4>3. HeldAs[o] # id
        BY <1>2, <4>1, <4>2, NamesAre
      <4> QED
        BY <1>3, <2>2, <4>1, <4>3, NamesAre
    <3> QED
      BY <1>1, <2>2, <3>1 DEF NoticesInOrder
  <2>3. ASSUME NEW x \in Ids, NEW s \in States, notices = <<StateNotice(x, s)>>,
               x \in SwapIds \ raced => swaps[x] \in {s, "absent"}
        PROVE  NoticesInOrder'
    <3>1. x \in SwapIds \ raced' => swaps'[x] \in {s, "absent"}
      <4> SUFFICES ASSUME x \in SwapIds \ raced' PROVE swaps'[x] \in {s, "absent"}
        OBVIOUS
      <4>1. Head(notices).id = x /\ notices # <<>>
        BY <2>3 DEF StateNotice
      <4>2. x # id
        BY <1>1, <4>1, OrderListAssumption DEF Names
      <4> QED
        BY <1>3, <1>4, <2>3, <4>2
    <3> QED
      BY <1>1, <2>3, <3>1 DEF NoticesInOrder
  <2> QED
    BY <2>1, <2>2, <2>3 DEF OrderInv, NoticesInOrder
<1>8. ASSUME NEW o \in Own, HeldAs[o] \notin raced' \cup lost PROVE Followed(o)'
  <2>1. Followed(o)
    BY <1>4, <1>8, OrderFacts
  <2>2. ~Busy(o) /\ ~Busy(o)' /\ ~Held /\ ~Held' /\ ui'.at = "cancelled" /\ ui'.id = id
    BY <1>1 DEF Busy, Held, UiIs
  <2>3. \/ swaps'[HeldAs[o]] = swaps[HeldAs[o]]
        \/ HeldAs[o] = id /\ swaps'[HeldAs[o]] = "trCancelled"
    BY <1>3, NamesAre
  <2>4. HeldAs[o] = id => swaps'[HeldAs[o]] \in {"absent", "trCancelled"}
    BY <1>3, NamesAre
  <2> QED
    BY <1>1, <1>6, <2>1, <2>2, <2>3, <2>4 DEF Followed
<1>9. /\ \A m \in SwapIds : swaps'[m] \in {"absent", "trHold", "trNew", "trCancelled"} \cup Steps
      /\ \A m \in SwapIds : swaps'[m] # "absent" => m \in applied
      /\ \A o \in Own : HeldAs[o] \in applied =>
            o \in placed \ pending' /\ (HeldAs[o] \in lost \/ swaps'[HeldAs[o]] # "absent")
  BY <1>1, <1>3, NamesAre DEF OrderInv
<1> QED
  BY <1>1, <1>5, <1>7, <1>8, <1>9 DEF OrderInv, UiIs

\* A change of the list alone keeps an order followed if it neither hides the
\* order's row nor shows another.
LEMMA RowsFollow ==
    ASSUME NEW o \in Own, Followed(o),
           AtMostOne(rows, o) => AtMostOne(rows', o),
           OwnRow(rows, o) => OwnRow(rows', o),
           HasRow(rows', o) => HasRow(rows, o) \/ (o \in placed /\ ~Held'),
           ~HasRow(rows, HeldAs[o]) => ~HasRow(rows', HeldAs[o]),
           OwnRow(rows, HeldAs[o]) => OwnRow(rows', HeldAs[o]),
           InState(rows, HeldAs[o], swaps[HeldAs[o]]) \/ swaps[HeldAs[o]] \in {"absent", "trHold", "trNew"}
              => InState(rows', HeldAs[o], swaps[HeldAs[o]]) \/ swaps[HeldAs[o]] \in {"absent", "trHold", "trNew"},
           swaps' = swaps, notices' = notices, placed' = placed, ui' = ui, dialog' = dialog,
           Held' => /\ Held /\ rows'[ui.slot].id = rows[ui.slot].id
                    /\ rows[ui.slot].mine => rows'[ui.slot].mine
    PROVE  Followed(o)'
<1>1. (Taken(o) <=> Taken(o)') /\ Current(o)' = Current(o) /\ (Busy(o) <=> Busy(o)')
  BY DEF Taken, Current, Renaming, Busy
<1>2. OwnRow(rows, Current(o)) => OwnRow(rows', Current(o))
  BY DEF Current
<1> QED
  BY <1>1, <1>2 DEF Followed

LEMMA HeldStays ==
    ASSUME OrderInv, rows' \in Seq(Rows), Len(rows') >= Len(rows), ui' = ui, Held'
    PROVE  Held /\ Len(rows') = Len(rows) /\ ui.slot \in DOMAIN rows
<1>1. ui.at = "accept" /\ Len(rows') = ui.size /\ Len(rows) >= ui.size /\ ui.slot \in DOMAIN rows
  BY DEF Held, OrderInv
<1>2. ui.size \in Nat /\ Len(rows) \in Nat /\ Len(rows') \in Nat
  BY OrderFacts DEF OrderInv, OrderListTypeOK
<1> QED
  BY <1>1, <1>2 DEF Held

LEMMA AnnouncedKeeps ==
    ASSUME OrderInv, NEW id \in Offers \cup Own, ProcessPendingTransaction(id)
    PROVE  OrderInv'
<1> DEFINE tx == Row(id, FALSE, "trPending")
<1>1. /\ rows' = Received(rows, tx) /\ announced < MaxAnnouncements /\ announced' = announced + 1
      /\ notices = <<>> /\ id \in Offers \cup placed
      /\ pending' = pending /\ swaps' = swaps /\ applied' = applied /\ placed' = placed /\ notices' = notices
      /\ ui' = ui /\ dialog' = dialog /\ raced' = raced /\ lost' = lost
  BY DEF ProcessPendingTransaction
<1>2. tx \in Rows /\ tx.id = id /\ id \notin SwapIds
  BY RowIs, StatesAre, OrderListAssumption DEF Row, Ids
<1> HIDE DEF tx
<1>3. /\ rows \in Seq(Rows) /\ rows' \in Seq(Rows) /\ Len(rows) \in Nat
      /\ DOMAIN rows \subseteq Int /\ DOMAIN rows' \subseteq Int
      /\ Len(rows') = IF HasRow(rows, id) THEN Len(rows) ELSE Len(rows) + 1
      /\ HasRow(rows, id) => \A i \in DOMAIN rows :
            rows'[i].id = rows[i].id /\ (rows[i].mine => rows'[i].mine)
      /\ AtMostOne(rows, id) => AtMostOne(rows', id)
      /\ OwnRow(rows, id) => OwnRow(rows', id)
  <2>1. rows \in Seq(Rows)
    BY OrderFacts
  <2>2. rows' \in Seq(Rows)
    BY <1>1, <1>2, <2>1, ReceivedIs
  <2>3. /\ Len(rows') = IF HasRow(rows, tx.id) THEN Len(rows) ELSE Len(rows) + 1
        /\ HasRow(rows, tx.id) => \A i \in DOMAIN rows :
              rows'[i].id = rows[i].id /\ (rows[i].mine => rows'[i].mine)
        /\ AtMostOne(rows, tx.id) => AtMostOne(rows', tx.id)
        /\ OwnRow(rows, tx.id) => OwnRow(rows', tx.id)
    BY <1>1, <1>2, <2>1, ReceivedIs, Zenon
  <2>4. Len(rows) \in Nat /\ DOMAIN rows \subseteq Int /\ DOMAIN rows' \subseteq Int
    BY <2>1, <2>2
  <2> QED
    BY <1>2, <2>1, <2>2, <2>3, <2>4
<1>4. ASSUME NEW x, x # id
      PROVE  Follows(rows, rows', x) /\ \A s : InState(rows, x, s) => InState(rows', x, s)
  <2>1. PICK k \in Int : Alike(rows, rows', x, k) /\ Stated(rows, rows', x, k)
    BY <1>1, <1>2, <1>3, <1>4, ReceivedIs
  <2> QED
    BY <1>3, <2>1, AlikeFollows
<1>5. OrderListTypeOK'
  <2>1. announced' \in 0..MaxAnnouncements
    BY <1>1, OrderListAssumption DEF OrderInv, OrderListTypeOK
  <2> QED
    BY <1>1, <1>3, <2>1 DEF OrderInv, OrderListTypeOK, Rows
<1>6. Held' => Held /\ HasRow(rows, id) /\ ui.slot \in DOMAIN rows
  <2>1. Len(rows') >= Len(rows) /\ (Len(rows') = Len(rows) => HasRow(rows, id))
    BY <1>3
  <2> QED
    BY <1>1, <1>3, <2>1, HeldStays
<1>7. ASSUME NEW o \in Own, HeldAs[o] \notin raced \cup lost PROVE Followed(o)'
  <2>1. Followed(o) /\ HeldAs[o] # id
    BY <1>2, <1>7, OrderFacts, NamesAre
  <2>2. /\ ~HasRow(rows, HeldAs[o]) => ~HasRow(rows', HeldAs[o])
        /\ OwnRow(rows, HeldAs[o]) => OwnRow(rows', HeldAs[o])
        /\ \A s : InState(rows, HeldAs[o], s) => InState(rows', HeldAs[o], s)
    BY <1>4, <2>1 DEF Follows
  <2>3. Held' => /\ Held /\ rows'[ui.slot].id = rows[ui.slot].id
                 /\ rows[ui.slot].mine => rows'[ui.slot].mine
    BY <1>3, <1>6
  <2>4. /\ AtMostOne(rows, o) => AtMostOne(rows', o)
        /\ OwnRow(rows, o) => OwnRow(rows', o)
    BY <1>3, <1>4 DEF Follows
  <2>5. HasRow(rows', o) => HasRow(rows, o) \/ (o \in placed /\ ~Held')
    <3>1. CASE o # id
      BY <1>4, <3>1 DEF Follows
    <3>2. CASE o = id
      BY <1>1, <1>6, <3>2, OrderListAssumption
    <3> QED
      BY <3>1, <3>2
  <2> QED
    BY <1>1, <2>1, <2>2, <2>3, <2>4, <2>5, RowsFollow
<1>8. ui.at = "accept" => ui.slot \in DOMAIN rows' /\ Len(rows') >= ui.size
  <2>1. DOMAIN rows = 1..Len(rows) /\ DOMAIN rows' = 1..Len(rows') /\ Len(rows') >= Len(rows)
    BY <1>3
  <2>2. ui.size \in Nat
    BY DEF OrderInv, OrderListTypeOK
  <2> QED
    BY <1>3, <2>1, <2>2 DEF OrderInv
<1> QED
  BY <1>1, <1>5, <1>7, <1>8 DEF OrderInv, NoticesInOrder

LEMMA InPlaceFollows ==
    ASSUME NEW r \in Seq(Rows), NEW q \in Seq(Rows), Len(q) = Len(r), NEW x,
           \A i \in DOMAIN r : /\ r[i].id = x <=> q[i].id = x
                               /\ r[i].id = x => (r[i].mine => q[i].mine)
    PROVE  /\ Follows(r, q, x)
           /\ (\A i \in DOMAIN r : r[i].id = x => q[i].state = r[i].state) =>
                 \A s : InState(r, x, s) => InState(q, x, s)
<1>1. DOMAIN q = DOMAIN r
  OBVIOUS
<1>2. ~HasRow(r, x) => ~HasRow(q, x)
  BY <1>1 DEF HasRow
<1>3. AtMostOne(r, x) => AtMostOne(q, x)
  BY <1>1 DEF AtMostOne
<1>4. OwnRow(r, x) => OwnRow(q, x)
  BY <1>1, <1>3 DEF OwnRow, HasRow
<1> QED
  BY <1>1, <1>2, <1>3, <1>4 DEF Follows, InState

\* A step that rewrites rows in place, changing no id and no mark.
LEMMA RewritesKeep ==
    ASSUME OrderInv, rows' \in Seq(Rows), Len(rows') = Len(rows),
           \A i \in DOMAIN rows : rows'[i].id = rows[i].id /\ rows'[i].mine = rows[i].mine,
           \A o \in Own, i \in DOMAIN rows :
              rows[i].id = HeldAs[o] => rows'[i].state = rows[i].state,
           UNCHANGED <<pending, swaps, applied, placed, notices, ui, dialog, announced, raced, lost>>
    PROVE  OrderInv'
<1>1. OrderListTypeOK'
  BY DEF OrderInv, OrderListTypeOK, Rows
<1>2. rows \in Seq(Rows) /\ Len(rows) \in Nat
  BY OrderFacts
<1>3. Held' => Held /\ ui.slot \in DOMAIN rows
  BY <1>2, HeldStays
<1>4. ASSUME NEW o \in Own, HeldAs[o] \notin raced \cup lost PROVE Followed(o)'
  <2>1. Followed(o)
    BY <1>4, OrderFacts
  <2>2. Follows(rows, rows', o) /\ Follows(rows, rows', HeldAs[o])
        /\ \A s : InState(rows, HeldAs[o], s) => InState(rows', HeldAs[o], s)
    BY <1>2, InPlaceFollows
  <2> QED
    BY <1>3, <2>1, <2>2, RowsFollow DEF Follows
<1>5. DOMAIN rows' = DOMAIN rows
  BY <1>2
<1> QED
  BY <1>1, <1>4, <1>5 DEF OrderInv, NoticesInOrder

LEMMA OfferAgainKeeps == OrderInv /\ SendListOfTransactions => OrderInv'
<1> SUFFICES ASSUME OrderInv, SendListOfTransactions PROVE OrderInv'
  OBVIOUS
<1>1. /\ rows' = [i \in DOMAIN rows |->
                    IF rows[i].id \in pending /\ First(rows, rows[i].id) = i
                    THEN [rows[i] EXCEPT !.state = "trPending"] ELSE rows[i]]
      /\ UNCHANGED <<pending, swaps, applied, placed, notices, ui, dialog, announced, raced, lost>>
  BY DEF SendListOfTransactions
<1>2. /\ rows \in Seq(Rows) /\ Len(rows) \in Nat /\ DOMAIN rows = 1..Len(rows)
      /\ \A i \in DOMAIN rows : rows[i] \in Rows
  BY OrderFacts
<1>3. ASSUME NEW row \in Rows
      PROVE  /\ [row EXCEPT !.state = "trPending"] \in Rows
             /\ [row EXCEPT !.state = "trPending"].id = row.id
             /\ [row EXCEPT !.state = "trPending"].mine = row.mine
  BY StatesAre DEF Rows
<1>4. \A i \in DOMAIN rows : /\ rows'[i] \in Rows
                             /\ rows'[i].id = rows[i].id /\ rows'[i].mine = rows[i].mine
                             /\ rows[i].id \notin pending => rows'[i] = rows[i]
  BY <1>1, <1>2, <1>3
<1>5. rows' \in Seq(Rows) /\ Len(rows') = Len(rows)
  <2>1. rows' \in [1..Len(rows) -> Rows]
    BY <1>1, <1>2, <1>4
  <2> QED
    BY <1>2, <2>1
<1>6. \A o \in Own : HeldAs[o] \notin pending
  BY OrderFacts, NamesAre
<1> QED
  BY <1>1, <1>4, <1>5, <1>6, RewritesKeep

LEMMA TickKeeps == OrderInv /\ Tick => OrderInv'
<1> SUFFICES ASSUME OrderInv, Tick PROVE OrderInv'
  OBVIOUS
<1> DEFINE Older(row) == [row EXCEPT !.silent = IF row.silent < EraseAfter
                                                THEN row.silent + 1 ELSE row.silent]
<1>1. /\ rows' = [i \in DOMAIN rows |-> Older(rows[i])]
      /\ UNCHANGED <<pending, swaps, applied, placed, notices, ui, dialog, announced, raced, lost>>
  BY DEF Tick
<1>2. /\ rows \in Seq(Rows) /\ Len(rows) \in Nat /\ DOMAIN rows = 1..Len(rows)
      /\ \A i \in DOMAIN rows : rows[i] \in Rows
  BY OrderFacts
<1>3. ASSUME NEW row \in Rows
      PROVE  /\ Older(row) \in Rows /\ Older(row).id = row.id
             /\ Older(row).mine = row.mine /\ Older(row).state = row.state
  <2>1. row.silent \in 0..EraseAfter /\ EraseAfter \in Nat
    BY OrderListAssumption DEF Rows
  <2>2. (IF row.silent < EraseAfter THEN row.silent + 1 ELSE row.silent) \in 0..EraseAfter
    BY <2>1
  <2> QED
    BY <2>2 DEF Rows
<1> HIDE DEF Older
<1>4. \A i \in DOMAIN rows : /\ rows'[i] \in Rows
                             /\ rows'[i].id = rows[i].id /\ rows'[i].mine = rows[i].mine
                             /\ rows'[i].state = rows[i].state
  BY <1>1, <1>2, <1>3
<1>5. rows' \in Seq(Rows) /\ Len(rows') = Len(rows)
  <2>1. rows' \in [1..Len(rows) -> Rows]
    BY <1>1, <1>2, <1>4
  <2> QED
    BY <1>2, <2>1
<1> QED
  BY <1>1, <1>4, <1>5, RewritesKeep

LEMMA TimerKeeps == OrderInv /\ OnTimer => OrderInv'
<1> SUFFICES ASSUME OrderInv, OnTimer PROVE OrderInv'
  OBVIOUS
<1>1. /\ ui.at \in {"idle", "menu"} /\ rows' = Checked(rows)
      /\ lost' = lost \cup UNION {Names(rows[i].id) :
                                  i \in {j \in DOMAIN rows : Erased(rows[j]) /\ rows[j].mine}}
      /\ UNCHANGED <<pending, swaps, applied, placed, notices, ui, dialog, announced, raced>>
  BY DEF OnTimer
<1>2. /\ rows \in Seq(Rows) /\ Len(rows) \in Nat /\ DOMAIN rows = 1..Len(rows)
      /\ \A i \in DOMAIN rows : rows[i] \in Rows /\ rows[i].id \in Ids
  BY OrderFacts
<1>3. /\ rows' \in Seq(Rows)
      /\ \A j \in DOMAIN rows' : \E i \in DOMAIN rows : ~Erased(rows[i]) /\ rows'[j] = Expired(rows[i])
      /\ \A i \in DOMAIN rows : ~Erased(rows[i]) => \E j \in DOMAIN rows' : rows'[j] = Expired(rows[i])
      /\ \A x : AtMostOne(rows, x) => AtMostOne(rows', x)
  BY <1>1, <1>2, CheckedIs, Zenon
<1>4. /\ \A j \in DOMAIN rows' : \E i \in DOMAIN rows :
            /\ rows'[j].id = rows[i].id /\ rows'[j].mine = rows[i].mine
            /\ rows[i].state # "trPending" => rows'[j].state = rows[i].state
      /\ \A i \in DOMAIN rows : ~Erased(rows[i]) => \E j \in DOMAIN rows' : rows'[j].id = rows[i].id
  <2>1. \A i \in DOMAIN rows :
           /\ Expired(rows[i]).id = rows[i].id /\ Expired(rows[i]).mine = rows[i].mine
           /\ rows[i].state # "trPending" => Expired(rows[i]) = rows[i]
    BY <1>2, ExpiredIs
  <2>2. ASSUME NEW j \in DOMAIN rows'
        PROVE  \E i \in DOMAIN rows :
                  /\ rows'[j].id = rows[i].id /\ rows'[j].mine = rows[i].mine
                  /\ rows[i].state # "trPending" => rows'[j].state = rows[i].state
    <3>1. PICK i \in DOMAIN rows : rows'[j] = Expired(rows[i])
      BY <1>3
    <3> QED
      BY <2>1, <3>1
  <2>3. ASSUME NEW i \in DOMAIN rows, ~Erased(rows[i])
        PROVE  \E j \in DOMAIN rows' : rows'[j].id = rows[i].id
    <3>1. PICK j \in DOMAIN rows' : rows'[j] = Expired(rows[i])
      BY <1>3, <2>3
    <3> QED
      BY <2>1, <3>1
  <2> QED
    BY <2>2, <2>3
<1>5. OrderListTypeOK'
  <2>1. lost' \subseteq Ids
    BY <1>1, <1>2, OrderFacts, NamesAre
  <2> QED
    BY <1>1, <1>3, <2>1 DEF OrderInv, OrderListTypeOK, Rows
<1>6. NoticesInOrder'
  BY <1>1 DEF OrderInv, NoticesInOrder
<1>7. ASSUME NEW o \in Own, HeldAs[o] \notin raced \cup lost' PROVE Followed(o)'
  <2>1. Followed(o)
    BY <1>1, <1>7, OrderFacts
  <2>2. \A i \in DOMAIN rows : rows[i].id \in {o, HeldAs[o]} /\ rows[i].mine => ~Erased(rows[i])
    BY <1>1, <1>7, NamesAre
  <2>3. ASSUME NEW x \in {o, HeldAs[o]} PROVE Follows(rows, rows', x)
    <3>1. ~HasRow(rows, x) => ~HasRow(rows', x)
      BY <1>4 DEF HasRow
    <3>2. OwnRow(rows, x) => OwnRow(rows', x)
      <4> SUFFICES ASSUME OwnRow(rows, x) PROVE OwnRow(rows', x)
        OBVIOUS
      <4>1. PICK i \in DOMAIN rows : rows[i].id = x /\ rows[i].mine
        BY DEF OwnRow, HasRow
      <4>2. HasRow(rows', x)
        BY <1>4, <2>2, <4>1 DEF HasRow
      <4>3. ASSUME NEW j \in DOMAIN rows', rows'[j].id = x PROVE rows'[j].mine
        BY <1>4, <4>3 DEF OwnRow
      <4>4. AtMostOne(rows', x)
        BY <1>3 DEF OwnRow
      <4> QED
        BY <4>2, <4>3, <4>4 DEF OwnRow
    <3> QED
      BY <1>3, <3>1, <3>2 DEF Follows
  <2>4. \A s : s # "trPending" /\ InState(rows, HeldAs[o], s) => InState(rows', HeldAs[o], s)
    BY <1>4 DEF InState
  <2>5. swaps[HeldAs[o]] # "trPending"
    BY NamesAre, StepsAre DEF OrderInv
  <2>6. ~Held'
    BY <1>1 DEF Held
  <2>7. Follows(rows, rows', o) /\ Follows(rows, rows', HeldAs[o])
    BY <2>3
  <2> QED
    BY <1>1, <2>1, <2>4, <2>5, <2>6, <2>7, RowsFollow DEF Follows
<1> QED
  BY <1>1, <1>5, <1>6, <1>7 DEF OrderInv

LEMMA DeliverKeeps == OrderInv /\ Deliver => OrderInv'
<1> SUFFICES ASSUME OrderInv, Deliver PROVE OrderInv'
  OBVIOUS
<1>1. /\ notices # <<>> /\ rows' = Apply(rows, Head(notices)) /\ notices' = Tail(notices)
      /\ UNCHANGED <<pending, swaps, applied, placed, ui, dialog, announced, raced, lost>>
  BY DEF Deliver
<1>2. /\ rows \in Seq(Rows) /\ Len(rows) \in Nat /\ DOMAIN rows = 1..Len(rows)
  BY OrderFacts
<1>3. notices' \in Seq([kind : {"id", "state"}, id : Ids, new : Ids \cup {Nothing},
                        state : States])
  BY <1>1 DEF OrderInv, OrderListTypeOK
<1>4. ASSUME rows' \in Seq(Rows), Len(rows') = Len(rows), NoticesInOrder',
             \A o \in Own : HeldAs[o] \notin raced \cup lost => Followed(o)'
      PROVE  OrderInv'
  <2>1. OrderListTypeOK'
    BY <1>1, <1>3, <1>4 DEF OrderInv, OrderListTypeOK, Rows
  <2>2. DOMAIN rows' = DOMAIN rows
    BY <1>2, <1>4
  <2> QED
    BY <1>1, <1>4, <2>1, <2>2 DEF OrderInv
<1>5. ASSUME NEW p \in placed,
             notices = <<IdNotice(p, HeldAs[p]), StateNotice(p, "trHold")>>,
             HeldAs[p] \in raced \cup lost \/ swaps[HeldAs[p]] = "trHold"
      PROVE  OrderInv'
  <2> DEFINE n == HeldAs[p]
  <2>1. /\ p \in Own /\ n \in SwapIds /\ n \in Ids /\ p \in Ids /\ n # p /\ p \notin SwapIds
        /\ "trHold" \in States
    BY OrderFacts, NamesAre, StatesAre
  <2>2. Head(notices) = IdNotice(p, n) /\ notices' = <<StateNotice(p, "trHold")>>
    BY <1>1, <1>5
  <2>3. rows' = IdChanged(rows, p, n)
    BY <1>1, <2>2 DEF Apply, IdNotice
  <2>4. /\ rows' \in Seq(Rows) /\ Len(rows') = Len(rows)
        /\ \A i \in DOMAIN rows :
              /\ rows'[i].mine = rows[i].mine
              /\ rows'[i].id = rows[i].id \/ (rows[i].id = p /\ rows'[i].id = n)
        /\ \A x : x \notin {p, n} => Alike(rows, rows', x, 0) /\ Stated(rows, rows', x, 0)
        /\ OwnRow(rows, p) /\ ~HasRow(rows, n) => OwnRow(rows', n)
    BY <1>2, <2>1, <2>3, IdChangedIs
  <2>5. NoticesInOrder'
    BY <1>1, <2>1, <2>2 DEF NoticesInOrder
  <2>6. Held' => Held /\ ui.slot \in DOMAIN rows
    BY <1>1, <1>2, <2>4, HeldStays
  <2>7. \A o \in Own : (Renaming(o) <=> o = p) /\ ~Renaming(o)'
    BY <1>5, <2>2 DEF Renaming, IdNotice, StateNotice
  <2>8. ASSUME NEW o \in Own, HeldAs[o] \notin raced \cup lost, o # p PROVE Followed(o)'
    <3>1. Followed(o) /\ o \notin {p, n} /\ HeldAs[o] \notin {p, n}
      BY <2>1, <2>8, OrderFacts, NamesAre
    <3>2. DOMAIN rows \subseteq Int /\ DOMAIN rows' \subseteq Int
      BY <1>2, <2>4
    <3>0. ASSUME NEW x, Alike(rows, rows', x, 0)
          PROVE  /\ Follows(rows, rows', x)
                 /\ Stated(rows, rows', x, 0) =>
                       \A t : InState(rows, x, t) => InState(rows', x, t)
      BY <3>0, <3>2, AlikeFollows
    <3>3. /\ Follows(rows, rows', o) /\ Follows(rows, rows', HeldAs[o])
          /\ \A s : InState(rows, HeldAs[o], s) => InState(rows', HeldAs[o], s)
      BY <2>4, <3>0, <3>1
    <3>4. (Taken(o) <=> Taken(o)') /\ Current(o)' = Current(o) /\ (Busy(o) <=> Busy(o)')
      BY <1>1, <2>7, <2>8 DEF Taken, Current, Busy
    <3>5. Held' => /\ Held /\ rows'[ui.slot].mine = rows[ui.slot].mine
                   /\ rows'[ui.slot].id = rows[ui.slot].id \/ rows'[ui.slot].id = n
      BY <2>4, <2>6
    <3>6. notices # <<StateNotice(HeldAs[o], swaps[HeldAs[o]])>>
      BY <1>5
    <3>7. OwnRow(rows, Current(o)) => OwnRow(rows', Current(o))
      BY <3>3 DEF Follows, Current
    <3> QED
      BY <1>1, <3>1, <3>3, <3>4, <3>5, <3>6, <3>7 DEF Followed, Follows
  <2>9. ASSUME HeldAs[p] \notin raced \cup lost PROVE Followed(p)'
    <3>1. Followed(p) /\ swaps[n] = "trHold" /\ ~Taken(p) /\ Taken(p)'
      BY <1>1, <1>5, <2>1, <2>7, <2>9, OrderFacts DEF Taken
    <3>2. ~Busy(p) /\ ~Busy(p)' /\ Current(p) = p /\ Current(p)' = n
      BY <1>1, <3>1 DEF Followed, Busy, Current
    <3>3. OwnRow(rows', n)
      BY <2>4, <3>1, <3>2 DEF Followed
    <3>4. Held' => rows'[ui.slot].id # n
      BY <2>4, <2>6, <3>1 DEF Followed
    <3> QED
      BY <1>1, <3>1, <3>2, <3>3, <3>4 DEF Followed
  <2> QED
    BY <1>4, <2>4, <2>5, <2>8, <2>9
<1>6. ASSUME NEW id \in Ids, NEW s \in States, notices = <<StateNotice(id, s)>>,
             id \in SwapIds \ raced => swaps[id] \in {s, "absent"}
      PROVE  OrderInv'
  <2>1. Head(notices) = StateNotice(id, s) /\ notices' = <<>>
    BY <1>1, <1>6
  <2>2. rows' = StateChanged(rows, id, s)
    BY <1>1, <2>1 DEF Apply, StateNotice
  <2>3. /\ rows' \in Seq(Rows) /\ Len(rows') = Len(rows)
        /\ \A i \in DOMAIN rows : rows'[i].id = rows[i].id /\ rows'[i].mine = rows[i].mine
        /\ \A x : Alike(rows, rows', x, 0) /\ (x # id => Stated(rows, rows', x, 0))
        /\ AtMostOne(rows, id) => InState(rows', id, s)
    BY <1>2, <2>2, StateChangedIs
  <2>4. NoticesInOrder'
    BY <2>1 DEF NoticesInOrder
  <2>5. Held' => Held /\ ui.slot \in DOMAIN rows
    BY <1>1, <1>2, <2>3, HeldStays
  <2>6. \A o \in Own : ~Renaming(o) /\ ~Renaming(o)'
    BY <2>1 DEF Renaming, StateNotice, IdNotice
  <2>7. ASSUME NEW o \in Own, HeldAs[o] \notin raced \cup lost PROVE Followed(o)'
    <3> DEFINE n == HeldAs[o]
    <3>1. Followed(o) /\ n \in SwapIds
      BY <2>7, OrderFacts, NamesAre
    <3>2. DOMAIN rows \subseteq Int /\ DOMAIN rows' \subseteq Int
      BY <1>2, <2>3
    <3>0. ASSUME NEW x, Alike(rows, rows', x, 0)
          PROVE  /\ Follows(rows, rows', x)
                 /\ Stated(rows, rows', x, 0) =>
                       \A t : InState(rows, x, t) => InState(rows', x, t)
      BY <3>0, <3>2, AlikeFollows
    <3>3. /\ Follows(rows, rows', o) /\ Follows(rows, rows', n)
          /\ n # id => \A t : InState(rows, n, t) => InState(rows', n, t)
      BY <2>3, <3>0
    <3>4. (Taken(o) <=> Taken(o)') /\ Current(o)' = Current(o) /\ (Busy(o) <=> Busy(o)')
      BY <1>1, <2>6 DEF Taken, Current, Busy
    <3>5. Held' => /\ Held /\ rows'[ui.slot].mine = rows[ui.slot].mine
                   /\ rows'[ui.slot].id = rows[ui.slot].id
      BY <2>3, <2>5
    <3>6. OwnRow(rows, Current(o)) => OwnRow(rows', Current(o))
      BY <3>3 DEF Follows, Current
    <3>7. \/ swaps[n] \in {"absent", "trHold", "trNew"}
          \/ InState(rows', n, swaps[n])
          \/ ui.at = "cancelled" /\ ui.id = n /\ swaps[n] = "trCancelled"
      <4>1. CASE n = id
        <5>1. swaps[n] = "absent" \/ (Taken(o) /\ Current(o) = n)
          BY <2>6 DEF Taken, Current
        <5>2. swaps[n] = "absent" \/ (o \in placed /\ ~Busy(o))
          BY <3>1, OrderFacts DEF Followed
        <5>3. swaps[n] = "absent" \/ AtMostOne(rows, id)
          BY <3>1, <4>1, <5>1, <5>2 DEF Followed, OwnRow
        <5>4. swaps[n] \in {s, "absent"}
          BY <1>6, <2>7, <3>1, <4>1
        <5> QED
          BY <2>3, <4>1, <5>3, <5>4
      <4>2. CASE n # id
        <5>1. notices # <<StateNotice(n, swaps[n])>>
          BY <2>1, <4>2 DEF StateNotice
        <5> QED
          BY <3>1, <3>3, <4>2, <5>1 DEF Followed
      <4> QED
        BY <4>1, <4>2
    <3> QED
      BY <1>1, <3>1, <3>3, <3>4, <3>5, <3>6, <3>7 DEF Followed, Follows
  <2> QED
    BY <1>4, <2>3, <2>4, <2>7
<1> QED
  BY <1>1, <1>5, <1>6 DEF OrderInv, NoticesInOrder

LEMMA ShowKeeps == OrderInv /\ ShowTransaction => OrderInv'
<1> SUFFICES ASSUME OrderInv, ShowTransaction PROVE OrderInv'
  OBVIOUS
<1> DEFINE p  == ui.order
           tx == Row(p, TRUE, "trNew")
<1>1. /\ ui.at = "show" /\ rows' = Received(rows, tx) /\ UiIs("idle", Nothing, 0, Nothing, 0)
      /\ UNCHANGED <<pending, swaps, applied, placed, notices, dialog, announced, raced, lost>>
  BY DEF ShowTransaction, Idle, UiIs
<1>2. p \in placed /\ p \in Own /\ p \in Ids
  BY <1>1, OrderFacts, NamesAre DEF OrderInv
<1> HIDE DEF p
<1>3. tx \in Rows /\ tx.id = p /\ tx.mine
  BY <1>2, RowIs, StatesAre DEF Row
<1> HIDE DEF tx
<1>4. /\ rows \in Seq(Rows) /\ rows' \in Seq(Rows)
      /\ DOMAIN rows \subseteq Int /\ DOMAIN rows' \subseteq Int
      /\ AtMostOne(rows, p) => OwnRow(rows', p)
  <2>1. rows \in Seq(Rows)
    BY OrderFacts
  <2>2. rows' \in Seq(Rows)
    BY <1>1, <1>3, <2>1, ReceivedIs
  <2>3. tx.mine /\ AtMostOne(rows, tx.id) => OwnRow(rows', tx.id)
    BY <1>1, <1>3, <2>1, ReceivedIs, Zenon
  <2> QED
    BY <1>3, <2>1, <2>2, <2>3
<1>5. ASSUME NEW x, x # p
      PROVE  Follows(rows, rows', x) /\ \A s : InState(rows, x, s) => InState(rows', x, s)
  <2>1. PICK k \in Int : Alike(rows, rows', x, k) /\ Stated(rows, rows', x, k)
    BY <1>1, <1>3, <1>4, <1>5, ReceivedIs
  <2> QED
    BY <1>4, <2>1, AlikeFollows
<1>6. OrderListTypeOK'
  BY <1>1, <1>4 DEF OrderInv, OrderListTypeOK, Rows, UiIs
<1>7. ASSUME NEW o \in Own, HeldAs[o] \notin raced \cup lost PROVE Followed(o)'
  <2>1. Followed(o) /\ HeldAs[o] # p
    BY <1>2, <1>7, OrderFacts, NamesAre
  <2>2. /\ ~HasRow(rows, HeldAs[o]) => ~HasRow(rows', HeldAs[o])
        /\ OwnRow(rows, HeldAs[o]) => OwnRow(rows', HeldAs[o])
        /\ \A s : InState(rows, HeldAs[o], s) => InState(rows', HeldAs[o], s)
    BY <1>5, <2>1 DEF Follows
  <2>3. (Taken(o) <=> Taken(o)') /\ Current(o)' = Current(o) /\ (Busy(o) <=> o = p)
        /\ ~Busy(o)' /\ ~Held' /\ ui'.at # "cancelled"
    BY <1>1 DEF Taken, Current, Renaming, Busy, Held, UiIs, p
  <2>4. CASE o = p
    <3>1. AtMostOne(rows, o) /\ swaps[HeldAs[o]] = "absent"
      BY <2>1, <2>3, <2>4 DEF Followed
    <3>2. ~Taken(o) /\ Current(o) = o
      BY <3>1 DEF Taken, Current
    <3>3. OwnRow(rows', o)
      BY <1>4, <2>4, <3>1
    <3> QED
      BY <1>1, <1>2, <2>1, <2>2, <2>3, <2>4, <3>1, <3>2, <3>3 DEF Followed
  <2>5. CASE o # p
    <3>1. Follows(rows, rows', o)
      BY <1>5, <2>5
    <3>2. OwnRow(rows, Current(o)) => OwnRow(rows', Current(o))
      BY <2>2, <3>1 DEF Follows, Current
    <3> QED
      BY <1>1, <2>1, <2>2, <2>3, <2>5, <3>1, <3>2 DEF Followed, Follows
  <2> QED
    BY <2>4, <2>5
<1> QED
  BY <1>1, <1>6, <1>7 DEF OrderInv, NoticesInOrder, UiIs

LEMMA FromPendingKeeps ==
    ASSUME OrderInv, NEW p \in Own, NewTransactionFromPending(p)
    PROVE  OrderInv'
<1> DEFINE i == First(rows, dialog)
<1>1. /\ ui.at = "idle" /\ dialog # Nothing /\ dialog' = Nothing
      /\ UNCHANGED <<swaps, applied, notices, announced, raced, lost>>
  BY DEF NewTransactionFromPending, Idle
<1>2. rows \in Seq(Rows) /\ DOMAIN rows = 1..Len(rows) /\ Len(rows) \in Nat
  BY OrderFacts
<1>3. \A o \in Own : /\ Taken(o) <=> Taken(o)'
                     /\ Current(o)' = Current(o) /\ ~Busy(o) /\ ~Held
  BY <1>1 DEF Taken, Current, Renaming, Busy, Held
<1>4. Nothing \notin Ids
  BY NamesAre
<1>5. CASE UNCHANGED <<rows, pending, placed, ui>>
  <2>1. OrderListTypeOK'
    BY <1>1, <1>5 DEF OrderInv, OrderListTypeOK
  <2>2. ASSUME NEW o \in Own, HeldAs[o] \notin raced \cup lost PROVE Followed(o)'
    <3>1. Followed(o) /\ o # Nothing /\ HeldAs[o] # Nothing
      BY <2>2, <1>4, OrderFacts, NamesAre
    <3>2. ~Busy(o)' /\ ~Held'
      BY <1>1, <1>5 DEF Busy, Held
    <3> QED
      BY <1>1, <1>3, <1>5, <3>1, <3>2 DEF Followed
  <2> QED
    BY <1>1, <1>5, <2>1, <2>2 DEF OrderInv, NoticesInOrder
<1>6. CASE /\ HasRow(rows, dialog)
           /\ p \notin placed /\ placed' = placed \cup {p} /\ pending' = pending \cup {p}
           /\ rows' = [rows EXCEPT ![i].mine = TRUE, ![i].state = "trAccepting"]
           /\ UiIs("accept", p, i, dialog, Len(rows))
  <2>1. i \in DOMAIN rows /\ rows[i].id = dialog
    BY <1>2, <1>6, FirstIs
  <2>2. swaps[HeldAs[p]] = "absent" /\ ~Taken(p) /\ HeldAs[p] \notin applied
    BY <1>6, OrderFacts DEF Taken
  <2> HIDE DEF i
  <2>3. /\ rows' \in Seq(Rows) /\ Len(rows') = Len(rows)
        /\ \A j \in DOMAIN rows : rows'[j].id = rows[j].id
        /\ \A j \in DOMAIN rows : j # i => rows'[j] = rows[j]
        /\ rows'[i].mine
    <3> DEFINE row == rows[i]
               a   == [row EXCEPT !.mine = TRUE]
               b   == [a EXCEPT !.state = "trAccepting"]
    <3>1. row \in Rows
      BY <2>1, OrderFacts
    <3>2. rows' = [rows EXCEPT ![i] = b]
      BY <1>2, <1>6, <2>1
    <3> HIDE DEF row
    <3>3. a \in Rows /\ a.id = row.id /\ a.mine
      BY <3>1 DEF Rows
    <3> HIDE DEF a
    <3>4. b \in Rows /\ b.id = row.id /\ b.mine
      BY <3>3, StatesAre DEF Rows
    <3> HIDE DEF b
    <3> QED
      BY <1>2, <2>1, <3>2, <3>4 DEF row
  <2>4. OrderListTypeOK'
    <3>1. \A o \in pending' : swaps[HeldAs[o]] = "absent"
      BY <1>6, <2>2, OrderFacts
    <3>2. ui' \in [at : {"idle", "show", "accept", "menu", "cancelled"},
                   order : Own \cup {Nothing}, slot : Nat, id : Ids \cup {Nothing}, size : Nat]
      BY <1>2, <1>6, <2>1, OrderFacts DEF UiIs
    <3> QED
      BY <1>1, <1>6, <2>3, <3>1, <3>2 DEF OrderInv, OrderListTypeOK, Rows
  <2>5. /\ ui'.at = "accept" /\ ui'.slot = i /\ ui'.size = Len(rows)
        /\ \A o \in Own : Busy(o)' <=> o = p
    BY <1>6 DEF UiIs, Busy
  <2>6. ASSUME NEW o \in Own, HeldAs[o] \notin raced \cup lost PROVE Followed(o)'
    <3>1. Followed(o) /\ o # Nothing /\ HeldAs[o] # Nothing
      BY <2>6, <1>4, OrderFacts, NamesAre
    <3>2. dialog # HeldAs[o] /\ (dialog = o => Taken(o))
      BY <3>1 DEF Followed
    <3>3. \A x : Follows(rows, rows', x)
      <4> SUFFICES ASSUME NEW x PROVE Follows(rows, rows', x)
        OBVIOUS
      <4>1. \A j \in DOMAIN rows : rows[j].mine => rows'[j].mine
        BY <2>3
      <4> QED
        BY <1>2, <2>3, <4>1, InPlaceFollows
    <3>4. \A s : InState(rows, HeldAs[o], s) => InState(rows', HeldAs[o], s)
      <4>1. \A j \in DOMAIN rows' : j \in DOMAIN rows
        BY <1>2, <2>3
      <4> QED
        BY <2>1, <2>3, <3>2, <4>1 DEF InState
    <3>5. rows'[ui'.slot].id = dialog /\ rows'[ui'.slot].mine
      BY <2>1, <2>3, <2>5
    <3>6. CASE o = p
      <4>1. ~HasRow(rows, o) /\ ~HasRow(rows, HeldAs[o])
        BY <1>6, <2>2, <3>1, <3>6 DEF Followed
      <4>2. ~HasRow(rows', o) /\ ~HasRow(rows', HeldAs[o]) /\ AtMostOne(rows', o)
        BY <3>3, <4>1 DEF Follows, HasRow, AtMostOne
      <4> QED
        BY <1>1, <1>3, <1>6, <2>2, <2>5, <3>1, <3>2, <3>5, <3>6, <4>2 DEF Followed
    <3>7. CASE o # p
      <4>1. OwnRow(rows, Current(o)) => OwnRow(rows', Current(o))
        BY <3>3 DEF Follows
      <4> QED
        BY <1>1, <1>3, <1>6, <2>5, <3>1, <3>2, <3>3, <3>4, <3>5, <3>7, <4>1 DEF Followed, Follows
    <3> QED
      BY <3>6, <3>7
  <2>7. DOMAIN rows' = DOMAIN rows
    BY <1>2, <2>3
  <2>8. ui'.order = p /\ p \in placed'
    BY <1>6 DEF UiIs
  <2>9. NoticesInOrder'
    BY <1>1, <1>6 DEF OrderInv, NoticesInOrder
  <2> QED
    BY <1>1, <1>2, <1>6, <2>1, <2>2, <2>3, <2>4, <2>5, <2>6, <2>7, <2>8, <2>9 DEF OrderInv
<1> QED
  BY <1>1, <1>5, <1>6 DEF NewTransactionFromPending, Place, UiIs

LEMMA GiveIdKeeps == OrderInv /\ GiveAcceptedId => OrderInv'
<1> SUFFICES ASSUME OrderInv, GiveAcceptedId PROVE OrderInv'
  OBVIOUS
<1> DEFINE p == ui.order
           k == ui.slot
           old == rows[k].id
<1>1. /\ ui.at = "accept" /\ UiIs("idle", Nothing, 0, Nothing, 0)
      /\ \/ rows' = [rows EXCEPT ![k].id = p, ![k].silent = 0]
         \/ Len(rows) # ui.size /\ rows' = rows
      /\ raced' = IF Len(rows) # ui.size THEN raced \cup Names(p) \cup Names(old) ELSE raced
      /\ UNCHANGED <<pending, swaps, applied, placed, notices, dialog, announced, lost>>
  BY DEF GiveAcceptedId, Idle, UiIs
<1>2. /\ rows \in Seq(Rows) /\ DOMAIN rows = 1..Len(rows) /\ Len(rows) \in Nat
      /\ p \in placed /\ p \in Own /\ p \in Ids /\ k \in DOMAIN rows /\ old \in Ids
      /\ rows[k] \in Rows
  BY <1>1, OrderFacts, NamesAre DEF OrderInv
<1>3. Held <=> Len(rows) = ui.size
  BY <1>1 DEF Held
<1>4. \A o \in Own : Busy(o) <=> o = p
  BY <1>1 DEF Busy
<1> HIDE DEF p, k, old
<1>5. /\ rows' \in Seq(Rows) /\ Len(rows') = Len(rows)
      /\ \A j \in DOMAIN rows : /\ rows'[j].mine = rows[j].mine /\ rows'[j].state = rows[j].state
                                /\ j # k => rows'[j].id = rows[j].id
      /\ rows'[k].id = p \/ (Len(rows) # ui.size /\ rows'[k].id = old)
  <2>1. CASE rows' = rows /\ Len(rows) # ui.size
    BY <1>2, <2>1 DEF old
  <2>2. CASE rows' = [rows EXCEPT ![k].id = p, ![k].silent = 0]
    <3> DEFINE row == rows[k]
               a   == [row EXCEPT !.id = p]
               b   == [a EXCEPT !.silent = 0]
    <3>1. row \in Rows
      BY <1>2
    <3>2. rows' = [rows EXCEPT ![k] = b]
      BY <1>2, <2>2
    <3> HIDE DEF row
    <3>3. a \in Rows /\ a.id = p /\ a.mine = row.mine /\ a.state = row.state
      BY <1>2, <3>1 DEF Rows
    <3> HIDE DEF a
    <3>4. b \in Rows /\ b.id = p /\ b.mine = row.mine /\ b.state = row.state
      BY <3>3, OrderListAssumption DEF Rows
    <3> HIDE DEF b
    <3> QED
      BY <1>2, <3>2, <3>4 DEF row
  <2> QED
    BY <1>1, <2>1, <2>2
<1>6. raced \subseteq raced' /\ raced' \subseteq Ids
  BY <1>1, <1>2, OrderFacts, NamesAre
<1>7. OrderListTypeOK'
  BY <1>1, <1>5, <1>6 DEF OrderInv, OrderListTypeOK, Rows, UiIs
<1>8. NoticesInOrder'
  BY <1>1, <1>6 DEF OrderInv, NoticesInOrder
<1>9. ASSUME NEW o \in Own, HeldAs[o] \notin raced' \cup lost PROVE Followed(o)'
  <2> DEFINE n == HeldAs[o]
  <2>1. Followed(o) /\ n \in SwapIds /\ n # p /\ n # o
    BY <1>2, <1>6, <1>9, OrderFacts, NamesAre
  <2>2. /\ Taken(o) <=> Taken(o)'
        /\ Current(o)' = Current(o) /\ ~Busy(o)' /\ ~Held' /\ ui'.at # "cancelled"
    BY <1>1 DEF Taken, Current, Renaming, Busy, Held, UiIs
  <2>3. old # n /\ (Held \/ (o # p /\ old # o))
    <3>1. CASE Held
      BY <2>1, <3>1 DEF Followed, old, k
    <3>2. CASE ~Held
      <4>1. n \notin Names(p) /\ n \notin Names(old)
        BY <1>1, <1>3, <1>9, <3>2
      <4> QED
        BY <1>2, <4>1, NamesAre
    <3> QED
      BY <3>1, <3>2
  <2>4. /\ Follows(rows, rows', n)
        /\ \A s : InState(rows, n, s) => InState(rows', n, s)
    <3>1. \A j \in DOMAIN rows : rows[j].id = n <=> rows'[j].id = n
      BY <1>5, <2>1, <2>3 DEF old
    <3> QED
      BY <1>2, <1>5, <3>1, InPlaceFollows
  <2>5. CASE o = p
    <3>1. /\ Held /\ swaps[n] = "absent" /\ ~HasRow(rows, o) /\ rows[k].mine /\ ~Taken(o)
          /\ Current(o) = o
      BY <1>4, <2>1, <2>3, <2>5 DEF Followed, k, Taken, Current
    <3>2. rows'[k].id = o
      BY <1>3, <1>5, <2>5, <3>1
    <3>3. DOMAIN rows' = DOMAIN rows /\ \A j \in DOMAIN rows : rows'[j].id = o <=> j = k
      BY <1>2, <1>5, <3>1, <3>2 DEF HasRow
    <3>4. OwnRow(rows', o)
      BY <1>2, <1>5, <3>1, <3>3 DEF OwnRow, HasRow, AtMostOne
    <3> QED
      BY <1>1, <1>2, <2>1, <2>2, <2>4, <2>5, <3>1, <3>4 DEF Followed, Follows
  <2>6. CASE o # p /\ old # o
    <3>1. \A j \in DOMAIN rows : rows[j].id = o <=> rows'[j].id = o
      BY <1>5, <2>6 DEF old
    <3>2. Follows(rows, rows', o)
      BY <1>2, <1>5, <3>1, InPlaceFollows
    <3>3. OwnRow(rows, Current(o)) => OwnRow(rows', Current(o))
      BY <2>4, <3>2 DEF Follows, Current
    <3> QED
      BY <1>1, <1>4, <2>1, <2>2, <2>4, <2>6, <3>2, <3>3 DEF Followed, Follows
  <2>7. CASE o # p /\ old = o
    <3>1. Held /\ Taken(o) /\ Current(o) = n
      BY <2>1, <2>3, <2>7 DEF Followed, Current, old, k
    <3>2. o \in placed
      BY <3>1, OrderFacts DEF Taken
    <3> QED
      BY <1>1, <1>4, <2>1, <2>2, <2>4, <2>7, <3>1, <3>2 DEF Followed, Follows
  <2> QED
    BY <2>5, <2>6, <2>7
<1>10. ui'.at \notin {"show", "accept"}
  BY <1>1 DEF UiIs
<1> QED
  BY <1>1, <1>6, <1>7, <1>8, <1>9, <1>10 DEF OrderInv

LEMMA ShowCancelledKeeps == OrderInv /\ ShowCancelled => OrderInv'
<1> SUFFICES ASSUME OrderInv, ShowCancelled PROVE OrderInv'
  OBVIOUS
<1>1. /\ ui.at = "cancelled" /\ UiIs("idle", Nothing, 0, Nothing, 0)
      /\ rows' = [i \in DOMAIN rows |->
                     IF rows[i].id = ui.id THEN [rows[i] EXCEPT !.state = "trCancelled"]
                                           ELSE rows[i]]
      /\ UNCHANGED <<pending, swaps, applied, placed, notices, dialog, announced, raced, lost>>
  BY DEF ShowCancelled, Idle, UiIs
<1>2. /\ rows \in Seq(Rows) /\ Len(rows) \in Nat /\ DOMAIN rows = 1..Len(rows)
      /\ \A i \in DOMAIN rows : rows[i] \in Rows
  BY OrderFacts
<1>3. ASSUME NEW row \in Rows
      PROVE  /\ [row EXCEPT !.state = "trCancelled"] \in Rows
             /\ [row EXCEPT !.state = "trCancelled"].id = row.id
             /\ [row EXCEPT !.state = "trCancelled"].mine = row.mine
             /\ [row EXCEPT !.state = "trCancelled"].state = "trCancelled"
  BY StatesAre DEF Rows
<1>4. \A i \in DOMAIN rows :
         /\ rows'[i] \in Rows
         /\ rows'[i].id = rows[i].id /\ rows'[i].mine = rows[i].mine
         /\ rows'[i].state = IF rows[i].id = ui.id THEN "trCancelled" ELSE rows[i].state
  BY <1>1, <1>2, <1>3
<1>5. rows' \in Seq(Rows) /\ Len(rows') = Len(rows) /\ DOMAIN rows' = DOMAIN rows
  <2>1. rows' \in [1..Len(rows) -> Rows]
    BY <1>1, <1>2, <1>4
  <2> QED
    BY <1>2, <2>1
<1>6. OrderListTypeOK'
  BY <1>1, <1>5 DEF OrderInv, OrderListTypeOK, Rows, UiIs
<1>7. ASSUME NEW o \in Own, HeldAs[o] \notin raced \cup lost PROVE Followed(o)'
  <2> DEFINE n == HeldAs[o]
  <2>1. Followed(o)
    BY <1>7, OrderFacts
  <2>2. /\ Taken(o) <=> Taken(o)'
        /\ Current(o)' = Current(o) /\ ~Busy(o)' /\ ~Busy(o) /\ ~Held' /\ ~Held
        /\ ui'.at # "cancelled"
    BY <1>1 DEF Taken, Current, Renaming, Busy, Held, UiIs
  <2>3. Follows(rows, rows', o) /\ Follows(rows, rows', n)
    BY <1>2, <1>4, <1>5, InPlaceFollows
  <2>4. OwnRow(rows, Current(o)) => OwnRow(rows', Current(o))
    BY <2>3 DEF Follows, Current
  <2>5. \/ swaps[n] \in {"absent", "trHold", "trNew"}
        \/ InState(rows', n, swaps[n])
        \/ notices = <<StateNotice(n, swaps[n])>>
    <3>1. CASE ui.id = n
      <4>1. swaps[n] \in {"absent", "trHold", "trNew", "trCancelled"}
        BY <1>1, <2>1, <3>1 DEF Followed
      <4>2. InState(rows', n, "trCancelled")
        BY <1>4, <1>5, <3>1 DEF InState
      <4> QED
        BY <4>1, <4>2
    <3>2. CASE ui.id # n
      <4>1. \A s : InState(rows, n, s) => InState(rows', n, s)
        BY <1>4, <1>5, <3>2 DEF InState
      <4> QED
        BY <2>1, <3>2, <4>1 DEF Followed
    <3> QED
      BY <3>1, <3>2
  <2> QED
    BY <1>1, <2>1, <2>2, <2>3, <2>4, <2>5 DEF Followed, Follows
<1>8. ui'.at \notin {"show", "accept"} /\ NoticesInOrder'
  BY <1>1 DEF UiIs, OrderInv, NoticesInOrder
<1> QED
  BY <1>1, <1>6, <1>7, <1>8 DEF OrderInv

LEMMA RestartKeeps == OrderInv /\ Restart => OrderInv'
<1> SUFFICES ASSUME OrderInv, Restart PROVE OrderInv'
  OBVIOUS
<1>1. /\ rows' = <<>> /\ pending' = {} /\ notices' = <<>>
      /\ swaps' = [n \in SwapIds |-> "absent"]
      /\ UiIs("idle", Nothing, 0, Nothing, 0) /\ dialog' = Nothing
      /\ lost' = lost \cup UNION {Names(o) : o \in placed}
      /\ UNCHANGED <<applied, placed, announced, raced>>
  BY DEF Restart, Idle, UiIs
<1>2. placed \subseteq Own /\ applied \subseteq SwapIds /\ raced \subseteq Ids /\ lost \subseteq Ids
  BY OrderFacts
<1>3. lost' \subseteq Ids
  <2>1. \A o \in placed : Names(o) \subseteq Ids
    BY <1>2, NamesAre
  <2> QED
    BY <1>1, <1>2, <2>1
<1>4. \A o \in placed : HeldAs[o] \in lost'
  <2>1. \A o \in placed : HeldAs[o] \in Names(o)
    BY <1>2, NamesAre
  <2> QED
    BY <1>1, <2>1
<1>5. OrderListTypeOK'
  BY <1>1, <1>2, <1>3 DEF OrderInv, OrderListTypeOK, UiIs
<1>6. ASSUME NEW o \in Own, HeldAs[o] \notin raced' \cup lost' PROVE Followed(o)'
  <2>1. o \notin placed' /\ swaps'[HeldAs[o]] = "absent" /\ o # Nothing /\ HeldAs[o] # Nothing
    BY <1>1, <1>4, <1>6, NamesAre
  <2>2. \A x : ~HasRow(rows', x) /\ AtMostOne(rows', x)
    BY <1>1 DEF HasRow, AtMostOne
  <2>3. ~Busy(o)' /\ ~Held' /\ ~Taken(o)' /\ ui'.at = "idle"
    BY <1>1, <2>1 DEF Busy, Held, Taken, UiIs
  <2> QED
    BY <1>1, <2>1, <2>2, <2>3 DEF Followed
<1>7. \A o \in Own : HeldAs[o] \in applied' => o \in placed' \ pending' /\ HeldAs[o] \in lost'
  BY <1>1, <1>4, OrderFacts
<1>8. NoticesInOrder' /\ ui'.at = "idle"
  BY <1>1 DEF NoticesInOrder, UiIs
<1>9. \A n \in SwapIds : swaps'[n] = "absent"
  BY <1>1
<1> QED
  BY <1>5, <1>6, <1>7, <1>8, <1>9 DEF OrderInv

LEMMA OrdersStay == OrderInv /\ UNCHANGED orderVars => OrderInv'
<1> SUFFICES ASSUME OrderInv, UNCHANGED orderVars PROVE OrderInv'
  OBVIOUS
<1>1. UNCHANGED <<rows, pending, swaps, applied, placed, notices, ui, dialog, announced, raced, lost>>
  BY DEF orderVars
<1>2. \A o \in Own : Followed(o) => Followed(o)'
  BY <1>1 DEF Followed, Taken, Current, Renaming, Busy, Held
<1>3. OrderListTypeOK' /\ NoticesInOrder'
  BY <1>1 DEF OrderInv, OrderListTypeOK, NoticesInOrder
<1> QED
  BY <1>1, <1>2, <1>3 DEF OrderInv

LEMMA OrdersStep == OrderInv /\ OrderListNext => OrderInv'
<1> SUFFICES ASSUME OrderInv, OrderListNext PROVE OrderInv'
  OBVIOUS
<1>1. CASE Handlers
  BY <1>1, DeliverKeeps, AnnouncedKeeps, UnknownEndKeeps, HoldKeeps, InitPacketKeeps,
     SwapPacketKeeps DEF Handlers
<1>2. CASE User
  BY <1>2, NewTransactionKeeps, FromPendingKeeps, AcceptKeeps, MenuKeeps, CancelKeeps,
     AnsweredNoKeeps DEF User
<1>3. CASE Interface
  BY <1>3, ShowKeeps, GiveIdKeeps, ShowCancelledKeeps DEF Interface
<1> QED
  BY <1>1, <1>2, <1>3, OfferAgainKeeps, TimerKeeps, TickKeeps, RestartKeeps DEF OrderListNext

\* At every step, also while notifications are on their way and the user interface is
\* in a call, an own order has one row, under the id the list was last told, and what
\* the list does not show yet is in the next notification or in that call.
THEOREM OrderInvariant == Spec => []OrderInv
<1>1. Init => OrderInv
  BY InitOrders DEF Init
<1>2. OrderInv /\ [Next]_appVars => OrderInv'
  BY OrdersStep, OrdersStay DEF Next, RunOrders, RunPayments, RunAddresses, appVars
<1> QED
  BY <1>1, <1>2, PTL DEF Spec

\* The variables of the three parts keep their types, and no order is offered to
\* hubs and in a swap at once.
THEOREM ClientAppTypesOK == Spec => []ClientAppTypeOK
<1>1. OrderInv /\ WalletInv /\ BookInv => ClientAppTypeOK
  BY DEF OrderInv, WalletInv, BookInv, ClientAppTypeOK
<1> QED
  BY <1>1, OrderInvariant, MoneyInvariant, BookInvariant, PTL

\* Each swap this client has applied to is the swap of an own order.
SwapsAreOwn == \A n \in applied : \E o \in Own : HeldAs[o] = n

LEMMA OwnSwapsStep == OrderInv /\ SwapsAreOwn /\ OrderListNext => SwapsAreOwn'
<1> SUFFICES ASSUME OrderInv, SwapsAreOwn, OrderListNext PROVE SwapsAreOwn'
  OBVIOUS
<1>1. CASE UNCHANGED applied
  BY <1>1 DEF SwapsAreOwn
<1>2. ASSUME NEW o \in Own, ProcessTransactionHold(o) PROVE SwapsAreOwn'
  BY <1>2 DEF ProcessTransactionHold, SwapsAreOwn
<1>3. Handlers => UNCHANGED applied \/ \E o \in Own : ProcessTransactionHold(o)
  BY DEF Handlers, Deliver, ProcessPendingTransaction, ProcessUnknownEnd,
         ProcessTransactionInit, ProcessSwapPacket
<1>4. User \/ Interface => UNCHANGED applied
  BY DEF User, NewTransaction, NewTransactionFromPending, OnAcceptTransaction, OnContextMenu,
         CancelXBridgeTransaction, CancelAnsweredNo,
         Interface, ShowTransaction, GiveAcceptedId, ShowCancelled
<1>5. SendListOfTransactions \/ OnTimer \/ Tick \/ Restart => UNCHANGED applied
  BY DEF SendListOfTransactions, OnTimer, Tick, Restart
<1> QED
  BY <1>1, <1>2, <1>3, <1>4, <1>5 DEF OrderListNext

LEMMA OwnSwaps == Spec => []SwapsAreOwn
<1>1. Init => SwapsAreOwn
  BY DEF Init, OrderListInit, SwapsAreOwn
<1>2. OrderInv /\ SwapsAreOwn /\ [Next]_appVars => SwapsAreOwn'
  BY OwnSwapsStep
     DEF SwapsAreOwn, Next, RunOrders, RunPayments, RunAddresses, appVars, orderVars
<1> QED
  BY <1>1, <1>2, OrderInvariant, PTL DEF Spec

LEMMA FollowedShown == OrderInv /\ SwapsAreOwn => SwapFollowed
<1> SUFFICES ASSUME OrderInv, SwapsAreOwn, notices = <<>>, ui.at \in {"idle", "menu"},
                    NEW n \in SwapIds \ (raced \cup lost), swaps[n] # "absent"
             PROVE  \E i \in DOMAIN rows :
                       /\ rows[i].id = n /\ rows[i].mine
                       /\ swaps[n] \in {"trHold", "trNew"} \/ rows[i].state = swaps[n]
                       /\ \A j \in DOMAIN rows : rows[j].id = n => j = i
  BY DEF SwapFollowed
<1>1. PICK o \in Own : HeldAs[o] = n
  BY OrderFacts DEF SwapsAreOwn
<1>2. o \in placed /\ Followed(o)
  BY <1>1, OrderFacts
<1>3. Taken(o) /\ Current(o) = n /\ ~Busy(o)
  BY <1>1 DEF Taken, Current, Renaming, Busy
<1>4. OwnRow(rows, n)
  BY <1>2, <1>3 DEF Followed
<1>5. notices # <<StateNotice(n, swaps[n])>> /\ ui.at # "cancelled"
  OBVIOUS
<1>6. swaps[n] \in {"trHold", "trNew"} \/ InState(rows, n, swaps[n])
  BY <1>1, <1>2, <1>5 DEF Followed
<1>7. PICK i \in DOMAIN rows : rows[i].id = n
  BY <1>4 DEF OwnRow, HasRow
<1>8. rows[i].mine /\ \A j \in DOMAIN rows : rows[j].id = n => j = i
  BY <1>4, <1>7 DEF OwnRow, AtMostOne
<1> QED
  BY <1>6, <1>7, <1>8 DEF InState

\* When no notification is on its way and the user interface is in no call, every swap
\* of an order placed since the last restart is shown in one row, its own and in the
\* swap's state: through packets that come late, twice or out of order, offers that are
\* accepted while others come and go, and rows the 3 s timer removes in between.  Not
\* said of rows erased for their silence, or changed by user and handler at once.
THEOREM SwapsAreFollowed == Spec => []SwapFollowed
BY OrderInvariant, OwnSwaps, FollowedShown, PTL
===============================================================================

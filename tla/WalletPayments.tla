--------------------------- MODULE WalletPayments ---------------------------
(***************************************************************************)
(* The payments and revert transactions a client builds from the coins of  *)
(* one wallet, in processTransactionCreate() and its twin for BTC, and     *)
(* sends in processTransactionCommit() and revertXBridgeTransaction(), as  *)
(* amounts.  Several swaps are paid from the same wallet, which does not   *)
(* know of a payment until it is sent.                                     *)
(*                                                                         *)
(* Each of the hub's packets comes once and in order; XBridgeClient has    *)
(* the ones that come twice or too early.  The coin network is external.   *)
(***************************************************************************)
EXTENDS Integers, FiniteSets, FiniteSetsExt, WalletRpc

CONSTANTS
    Swaps,        \* the swaps paid from this wallet
    Amount,       \* swap -> fromAmount, in the coin's smallest unit
    Fee,          \* MIN_TX_FEE in that unit
    Coins,        \* the outputs the wallet can spend at first
    Value,        \* coin -> its value
    Word          \* 2^64: amounts are uint64_t

ASSUME WalletAssumption ==
    /\ IsFiniteSet(Swaps) /\ IsFiniteSet(Coins)
    /\ Amount \in [Swaps -> Nat \ {0}] /\ Value \in [Coins -> Nat \ {0}]
    /\ Fee \in Nat \ {0} /\ Word \in Nat
    /\ \A s \in Swaps : Amount[s] + Fee < Word
    /\ MapThenSumSet(LAMBDA c : Value[c], Coins) < Word

VARIABLES
    unspent,      \* what listunspent returns: outputs of the wallet
    payment,      \* swap -> xtx->payTx: inputs, output to the counterparty, rest
    revert,       \* swap -> the output of the revert transaction of that payment
    stage,        \* swap -> how far its packets have got
    payout        \* swap -> what has become of the payment's first output

walletVars == <<unspent, payment, revert, stage, payout>>

Output == [of : Coins \cup Swaps, kind : {"coin", "change", "revert"}, value : 0..Word - 1]
NoTx == [ins |-> {}, out |-> 0, rest |-> 0]

WalletInit ==
    /\ unspent = {[of |-> c, kind |-> "coin", value |-> Value[c]] : c \in Coins}
    /\ payment = [s \in Swaps |-> NoTx]
    /\ revert = [s \in Swaps |-> 0]
    /\ stage = [s \in Swaps |-> "trHold"]
    /\ payout = [s \in Swaps |-> "unsent"]

WalletTypeOK ==
    /\ unspent \subseteq Output
    /\ payment \in [Swaps -> [ins : SUBSET Output, out : 0..Word - 1, rest : 0..Word - 1]]
    /\ revert \in [Swaps -> 0..Word - 1]
    /\ stage \in [Swaps -> {"trHold", "trCreated", "trCommited", "trRollback", "stopped"}]
    /\ payout \in [Swaps -> {"unsent", "unspent", "spent", "reverted"}]

-----------------------------------------------------------------------------
Total(outputs) == MapThenSumSet(LAMBDA o : o.value, outputs)

\* Amounts pass through double and are cut off: an agreed amount may come out
\* one unit short, and so may the value of each input.
AgreedAmounts(s) == {a \in {Amount[s] - 1, Amount[s]} : a >= 0}

\* A mutant: the values are rounded up.
MutBelieved(ins) == Total(ins)..Total(ins) + Cardinality(ins)

Believed(ins) == {t \in Total(ins) - Cardinality(ins)..Total(ins) : t >= 0}

\* The wallet lists its outputs in any order; they are taken until they are
\* believed to be enough, so without the last one they were not.
Selections(need) ==
    {ins \in SUBSET unspent :
        /\ Total(ins) >= need
        /\ \E last \in ins : \E t \in Believed(ins \ {last}) : t < need}

\* A mutant: the revert transaction returns all that was set aside.
MutRevertOutput(outAmount) == outAmount

RevertOutput(outAmount) == (outAmount - 2 * Fee) % Word

\* A mutant: the fee goes into the rest as well.
MutRest(in, outAmount) == in - outAmount + Fee

Rest(in, outAmount) == in - outAmount

\* processTransactionCreate().  The calls are made in this order: listunspent,
\* getnewaddress if there is a rest, signrawtransaction, getnewaddress.
ProcessTransactionCreate(s) ==
    /\ stage[s] = "trHold"
    /\ \E list \in Answers("array"), change \in Answers("text"),
          sign \in Answers("object"), new \in Answers("text") :
       \/ \* no money, or a call failed before the payment was signed
          /\ \/ ~ListUnspent(list)
             \/ Total(unspent) < Amount[s] + Fee + Cardinality(unspent)
             \/ ~GetNewAddress(change) \/ ~SignRawTransaction(sign)
          /\ stage' = [stage EXCEPT ![s] = "stopped"]
          /\ UNCHANGED <<payment, revert>>
       \/ \E agreed \in AgreedAmounts(s) :
          LET outAmount == agreed + Fee IN
          /\ ListUnspent(list)
          /\ SignRawTransaction(sign)
          /\ \E ins \in Selections(outAmount) : \E in \in Believed(ins) :
                /\ in >= outAmount
                /\ in > outAmount => GetNewAddress(change)
                /\ payment' = [payment EXCEPT ![s] =
                      [ins |-> ins, out |-> outAmount - Fee, rest |-> Rest(in, outAmount)]]
          /\ IF GetNewAddress(new)
             THEN /\ revert' = [revert EXCEPT ![s] = RevertOutput(outAmount)]
                  /\ stage' = [stage EXCEPT ![s] = "trCreated"]
             ELSE /\ stage' = [stage EXCEPT ![s] = "stopped"]
                  /\ UNCHANGED revert
    /\ UNCHANGED <<unspent, payout>>

\* The network: a transaction is taken when its inputs are unspent and are worth
\* more than its outputs.
Pays(s) ==
    /\ payment[s].ins \subseteq unspent
    /\ payment[s].out + payment[s].rest <= Total(payment[s].ins)

Reverts(s) == payout[s] = "unspent" /\ revert[s] < payment[s].out

Change(s) == {[of |-> s, kind |-> "change", value |-> v] : v \in {payment[s].rest} \ {0}}

\* processTransactionCommit(): a payment the network refuses stops the swap here
\* and tells nobody.
ProcessTransactionCommit(s) ==
    /\ stage[s] = "trCreated"
    /\ \E send \in Answers("text") :
          IF SendRawTransaction(send) /\ Pays(s)
          THEN /\ unspent' = (unspent \ payment[s].ins) \cup Change(s)
               /\ payout' = [payout EXCEPT ![s] = "unspent"]
               /\ stage' = [stage EXCEPT ![s] = "trCommited"]
          ELSE /\ stage' = [stage EXCEPT ![s] = "stopped"]
               /\ UNCHANGED <<unspent, payout>>
    /\ UNCHANGED <<payment, revert>>

\* processTransactionRollback() takes the result of the revert for granted.
ProcessTransactionRollback(s) ==
    /\ stage[s] \in {"trCreated", "trCommited", "stopped"}
    /\ stage' = [stage EXCEPT ![s] = "trRollback"]
    /\ \E send \in Answers("text") :
          IF SendRawTransaction(send) /\ Reverts(s)
          THEN /\ unspent' = unspent \cup
                      {[of |-> s, kind |-> "revert", value |-> revert[s]]}
               /\ payout' = [payout EXCEPT ![s] = "reverted"]
          ELSE UNCHANGED <<unspent, payout>>
    /\ UNCHANGED <<payment, revert>>

\* The counterparty owns the payment's first output and may spend it at any time.
CounterpartySpends(s) ==
    /\ payout[s] = "unspent"
    /\ payout' = [payout EXCEPT ![s] = "spent"]
    /\ UNCHANGED <<unspent, payment, revert, stage>>

WalletNext ==
    \E s \in Swaps :
        \/ ProcessTransactionCreate(s)
        \/ ProcessTransactionCommit(s)
        \/ ProcessTransactionRollback(s)
        \/ CounterpartySpends(s)

-----------------------------------------------------------------------------
\* Money: what has left the wallet is in the payments that were not taken back,
\* one fee for each transaction the network took, and at most the unit each input
\* may have been rounded down by.
MoneyAccounted ==
    LET Sent     == {s \in Swaps : payout[s] # "unsent"}
        Reverted == {s \in Swaps : payout[s] = "reverted"}
        fees     == (Cardinality(Sent) + Cardinality(Reverted)) * Fee
        gone     == MapThenSumSet(LAMBDA c : Value[c], Coins) - Total(unspent)
                    - MapThenSumSet(LAMBDA s : payment[s].out, Sent \ Reverted)
    IN  gone \in fees..fees + MapThenSumSet(LAMBDA s : Cardinality(payment[s].ins), Sent)

\* A payment that was sent and not yet spent can be taken back: the network would
\* take its revert transaction.  Amounts of no more than the fee are excepted: for
\* them "outAmount-2*fee" is below zero, which in a uint64_t is more than any
\* payment.
PaymentCanBeReverted ==
    \A s \in Swaps :
        payout[s] = "unspent" /\ stage[s] = "trCommited" /\ Amount[s] > Fee + 1 => Reverts(s)

-----------------------------------------------------------------------------
\* Why the money adds up: WalletInv is inductive.  A payment is worth its inputs
\* but for the fee and the units they were rounded down by, and its revert
\* transaction is the one made along with it ...
PaymentsBuilt ==
    \A s \in Swaps : LET tx == payment[s] IN
        /\ stage[s] \in {"trHold", "trCreated"} => payout[s] = "unsent"
        /\ stage[s] = "trCreated" \/ payout[s] # "unsent" =>
             /\ tx.out \in AgreedAmounts(s)
             /\ Total(tx.ins) - tx.rest - tx.out \in Fee..Fee + Cardinality(tx.ins)
             /\ revert[s] = RevertOutput(tx.out + Fee)

\* ... and an output is in the wallet only after the transaction it comes from.
OutputsFollow ==
    \A o \in unspent :
        /\ o.kind = "change" => o.of \in Swaps /\ payout[o.of] # "unsent"
        /\ o.kind = "revert" => o.of \in Swaps /\ payout[o.of] = "reverted"


\* All that the accounts rest on: a payment is in the wallet as it was agreed and
\* with the revert transaction made for it, whichever swaps were started, broken
\* off or rolled back in between, and each output comes from a transaction sent.
WalletInv ==
    /\ WalletTypeOK
    /\ IsFiniteSet(unspent) /\ \A s \in Swaps : IsFiniteSet(payment[s].ins)
    /\ PaymentsBuilt /\ OutputsFollow /\ MoneyAccounted

=============================================================================

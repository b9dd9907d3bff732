------------------------- MODULE XBridgeTransaction -------------------------
(***************************************************************************)
(* The hub's record of one exchange, class XBridgeTransaction: the state   *)
(* machine that two clients drive, as operators on a record.               *)
(*                                                                         *)
(* An order is what one user offers: give one asset (a currency and an     *)
(* amount), take another.  The hub joins two mirrored orders; the joined   *)
(* transaction's id is a hash of both order ids, here the pair of orders.  *)
(* An order and a pair together determine the four addresses of the C++    *)
(* record, so the record below keeps only what changes.                    *)
(***************************************************************************)
EXTENDS Naturals

CONSTANTS
    Orders,       \* order ids (uint256)
    Addrs,        \* wallet addresses (uint160)
    Assets,       \* <<currency, amount>> pairs
    Source,       \* order -> address it pays from
    Dest,         \* order -> address it is paid at
    Give, Take,   \* order -> asset
    MaxPayments   \* bound: payment transactions one address builds for one swap

ASSUME OrderAssumption ==
    /\ Source \in [Orders -> Addrs]
    /\ Dest \in [Orders -> Addrs]
    /\ Give \in [Orders -> Assets]
    /\ Take \in [Orders -> Assets]
    /\ \A o \in Orders : Give[o] # Take[o]
    /\ MaxPayments \in Nat

TxIds == Orders \X Orders

(***************************************************************************)
(* A coin transaction is known by its hash: who built it, for which swap,  *)
(* and which attempt it was.  A revert transaction spends a payment; its   *)
(* raw text may or may not carry the counterparty's signature yet.         *)
(***************************************************************************)
Payments  == Addrs \X TxIds \X (1..MaxPayments)
NoPayment == <<>>
TxHash    == Payments \cup {NoPayment}
RawRevTx  == [spends : TxHash, signed : BOOLEAN]
NoRevTx   == [spends |-> NoPayment, signed |-> FALSE]

(***************************************************************************)
(* trNew is a property of book entries (XBridgeHub); trCancelled and       *)
(* trDropped are left out because no code calls cancel().  listed: a timer *)
(* job found the record expired and has it in the list it works through;   *)
(* a touch that comes after that does not help.                            *)
(***************************************************************************)
Acknowledged == {"trJoined", "trHold", "trInitialized", "trCreated",
                 "trSigned", "trCommited"}
State == {"trInvalid", "trConfirmed", "trFinished"} \cup Acknowledged

Record == [state : State,
           firstStateChanged : BOOLEAN, secondStateChanged : BOOLEAN,
           rawrevtx1 : RawRevTx, rawrevtx2 : RawRevTx,
           txhash1 : TxHash, txhash2 : TxHash,
           confirmationCounter : 0..2,
           listed : BOOLEAN]

\* The default-constructed record: what an unknown id is looked up as.
Invalid == [state |-> "trInvalid",
            firstStateChanged |-> FALSE, secondStateChanged |-> FALSE,
            rawrevtx1 |-> NoRevTx, rawrevtx2 |-> NoRevTx,
            txhash1 |-> NoPayment, txhash2 |-> NoPayment,
            confirmationCounter |-> 0,
            listed |-> FALSE]

Joined == [Invalid EXCEPT !.state = "trJoined"]

-----------------------------------------------------------------------------
Successor == [trJoined |-> "trHold",            trHold |-> "trInitialized",
              trInitialized |-> "trCreated",    trCreated |-> "trSigned",
              trSigned |-> "trCommited",        trCommited |-> "trFinished"]

\* A mutant: committed payments are expected from where the order is paid.
MutAckAddress(state, o) ==
    IF state \in {"trJoined", "trInitialized"} THEN Source[o] ELSE Dest[o]

\* The address an order's client acknowledges a phase from.
AckAddress(state, o) ==
    IF state \in {"trJoined", "trInitialized", "trSigned"}
    THEN Source[o] ELSE Dest[o]

FirstHeard(id, tr, state, from) ==
    tr.firstStateChanged \/ from = AckAddress(state, id[1])

SecondHeard(id, tr, state, from) ==
    \/ tr.secondStateChanged
    \/ from = AckAddress(state, id[2]) /\ from # AckAddress(state, id[1])

\* A mutant: one acknowledgement is enough.
MutBothHeard(id, tr, state, from) ==
    tr.state = state /\ (FirstHeard(id, tr, state, from) \/ SecondHeard(id, tr, state, from))

\* increaseStateCounter() returns the successor state.
BothHeard(id, tr, state, from) ==
    /\ tr.state = state
    /\ FirstHeard(id, tr, state, from)
    /\ SecondHeard(id, tr, state, from)

\* A mutant: the flags are not reset when the phase is over.
MutIncreaseStateCounter(id, tr, state, from) ==
    IF tr.state # state THEN tr
    ELSE IF BothHeard(id, tr, state, from) THEN [tr EXCEPT !.state = Successor[state]]
    ELSE [tr EXCEPT !.firstStateChanged = FirstHeard(id, tr, state, from),
                    !.secondStateChanged = SecondHeard(id, tr, state, from)]

\* The record increaseStateCounter() leaves behind.
IncreaseStateCounter(id, tr, state, from) ==
    IF tr.state # state THEN tr
    ELSE IF BothHeard(id, tr, state, from)
    THEN [tr EXCEPT !.state = Successor[state],
                    !.firstStateChanged = FALSE, !.secondStateChanged = FALSE]
    ELSE [tr EXCEPT !.firstStateChanged = FirstHeard(id, tr, state, from),
                    !.secondStateChanged = SecondHeard(id, tr, state, from)]

(***************************************************************************)
(* The setters run before the state is looked at.  An invalid record has   *)
(* empty addresses, so no sender matches it.  Note which hash a sender     *)
(* sets: the first member's payment is kept as txhash2.                    *)
(***************************************************************************)
SetRawPayTx(id, tr, from, rawrevtx) ==
    IF tr.state = "trInvalid" THEN tr
    ELSE IF from = Source[id[2]] THEN [tr EXCEPT !.rawrevtx2 = rawrevtx]
    ELSE IF from = Source[id[1]] THEN [tr EXCEPT !.rawrevtx1 = rawrevtx]
    ELSE tr

\* A mutant: a signed revert transaction is kept as the signer's own.
MutUpdateRawRevTx(id, tr, from, rawrevtx) ==
    IF tr.state = "trInvalid" THEN tr
    ELSE IF from = Dest[id[2]] THEN [tr EXCEPT !.rawrevtx2 = rawrevtx]
    ELSE IF from = Dest[id[1]] THEN [tr EXCEPT !.rawrevtx1 = rawrevtx]
    ELSE tr

UpdateRawRevTx(id, tr, from, rawrevtx) ==
    IF tr.state = "trInvalid" THEN tr
    ELSE IF from = Dest[id[2]] THEN [tr EXCEPT !.rawrevtx1 = rawrevtx]
    ELSE IF from = Dest[id[1]] THEN [tr EXCEPT !.rawrevtx2 = rawrevtx]
    ELSE tr

KnownSource(id, tr, from) ==
    tr.state # "trInvalid" /\ from \in {Source[id[1]], Source[id[2]]}

\* A mutant: the sender is kept for the hash.
MutSetTxHash(id, tr, from, hash) ==
    IF ~KnownSource(id, tr, from) THEN tr
    ELSE IF from = Source[id[2]] THEN [tr EXCEPT !.txhash1 = from]
    ELSE [tr EXCEPT !.txhash2 = from]

SetTxHash(id, tr, from, hash) ==
    IF ~KnownSource(id, tr, from) THEN tr
    ELSE IF from = Source[id[2]] THEN [tr EXCEPT !.txhash1 = hash]
    ELSE [tr EXCEPT !.txhash2 = hash]

\* A mutant: the first of the two payments confirms the swap.
MutConfirm(tr, found) ==
    [tr EXCEPT !.state = IF {tr.txhash1, tr.txhash2} \cap found # {} THEN "trConfirmed" ELSE @]

\* confirm() for every hash one scan of the unconfirmed payments found; the
\* counter is not looked at beyond 2.
Confirm(tr, found) ==
    LET hits == {tr.txhash1, tr.txhash2} \cap found
        total == IF hits = {} THEN tr.confirmationCounter
                 ELSE IF tr.confirmationCounter > 0 \/ \E x, y \in hits : x # y THEN 2
                 ELSE 1
    IN  [tr EXCEPT !.confirmationCounter = total,
                   !.state = IF hits # {} /\ total = 2 THEN "trConfirmed" ELSE @]
=============================================================================

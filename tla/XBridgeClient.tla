---------------------------- MODULE XBridgeClient ----------------------------
(***************************************************************************)
(* The client program: the orders and swaps XBridgeApp keeps, the client   *)
(* side of XBridgeSession's packet handlers, the user's commands, and the  *)
(* wallets and coin networks the handlers call over RPC.                   *)
(*                                                                         *)
(* The handlers never look at the state of the swap they are called for;   *)
(* the only thing they check is that it is known.                          *)
(***************************************************************************)
EXTENDS XBridgePackets

CONSTANTS
    NoOrder,           \* the null order id
    RpcFailures,       \* BOOLEAN: wallet calls may fail
    UserCancels,       \* BOOLEAN: users may cancel
    Resends,           \* BOOLEAN: the timer may repeat offers
    ClientRestarts,    \* BOOLEAN: a client may restart
    ForeignHub         \* BOOLEAN: a hub outside this repository sends xbcTransactionDropped

ASSUME ClientAssumption ==
    /\ NoOrder \notin Orders
    /\ {RpcFailures, UserCancels, Resends, ClientRestarts, ForeignHub} \subseteq BOOLEAN

VARIABLES
    placed,        \* orders whose id was generated
    pending,       \* m_pendingTransactions: the orders in it
    swaps,         \* m_transactions: app -> id -> descriptor
    unconfirmed,   \* m_unconfirmed: app -> id -> what is waited for
    built,         \* payment transactions ever signed by a wallet
    paid,          \* payments the coin networks accepted
    reverted       \* payments whose revert transaction they accepted

clientVars == <<placed, pending, swaps, unconfirmed, built, paid, reverted>>

DescrState == {"trNew", "trHold", "trCreated", "trSigned", "trCommited",
               "trFinished", "trRollback", "trDropped", "trCancelled"}

Descr == [state : DescrState \cup {"absent"}, id : Orders \cup {NoOrder},
          payTx : TxHash, payTxId : TxHash, revTx : RawRevTx]

\* A new descriptor: null id, trNew, nothing built.
NewDescr == [state |-> "trNew", id |-> NoOrder, payTx |-> NoPayment,
             payTxId |-> NoPayment, revTx |-> NoRevTx]
Absent == [NewDescr EXCEPT !.state = "absent"]

\* m_unconfirmed holds a pointer.  shared: the descriptor pointed to is still
\* the one in m_transactions, so a later change of its payTxId shows here.
Watch == [waiting : BOOLEAN, hubs : SUBSET Hubs, me : SUBSET Addrs,
          hash : TxHash, shared : BOOLEAN]
NoWatch == [waiting |-> FALSE, hubs |-> {}, me |-> {},
            hash |-> NoPayment, shared |-> FALSE]

ClientInit ==
    /\ placed = {} /\ pending = {}
    /\ swaps = [a \in Apps |-> [id \in TxIds |-> Absent]]
    /\ unconfirmed = [a \in Apps |-> [id \in TxIds |-> NoWatch]]
    /\ built = {} /\ paid = {} /\ reverted = {}

ClientTypeOK ==
    /\ placed \subseteq Orders
    /\ pending \subseteq placed
    /\ swaps \in [Apps -> [TxIds -> Descr]]
    /\ unconfirmed \in [Apps -> [TxIds -> Watch]]
    /\ built \subseteq Payments
    /\ paid \subseteq Payments
    /\ reverted \subseteq paid

Known(a, id) == swaps[a][id].state # "absent"
SetState(a, id, state) == swaps' = [swaps EXCEPT ![a][id].state = state]

-----------------------------------------------------------------------------
\* The user: sendXBridgeTransaction(), cancelXBridgeTransaction().

SendXBridgeTransaction(o) ==
    /\ o \notin placed
    /\ placed' = placed \cup {o}
    /\ pending' = pending \cup {o}
    /\ Send(Offer(o))
    /\ UNCHANGED <<swaps, unconfirmed, built, paid, reverted>>

CancelPending(o) ==
    /\ UserCancels
    /\ o \in pending
    /\ pending' = pending \ {o}
    /\ Send(CancelAll(o))
    /\ UNCHANGED <<placed, swaps, unconfirmed, built, paid, reverted>>

CancelSwap(a, id) ==
    /\ UserCancels
    /\ Known(a, id)
    /\ SetState(a, id, "trCancelled")
    /\ Send(CancelAll(id))
    /\ UNCHANGED <<placed, pending, unconfirmed, built, paid, reverted>>

\* sendListOfTransactions(): every 20 s each order still pending is offered again.
SendListOfTransactions(a) ==
    /\ Resends
    /\ Send(UNION {Offer(o) : o \in {p \in pending : AppOf(p) = a}})
    /\ UNCHANGED clientVars

-----------------------------------------------------------------------------
\* A packet for a swap this client does not know, or whose handler returns at
\* the first failed wallet call, leaves no trace.
ProcessNothing(a, m) ==
    /\ m.type \in {"Create", "Sign", "Commit", "Confirm", "Rollback", "Finished"}
    /\ \/ ~Known(a, m.tx)
       \/ RpcFailures /\ m.type = "Create"     \* listUnspent failed
    /\ Deliver(m, {})
    /\ UNCHANGED clientVars

\* A mutant: the order stays in the client's list.
MutProcessTransactionHold(a, m) ==
    /\ m.type = "Hold"
    /\ m.order \in pending
    /\ AppOf(m.order) = a
    /\ swaps' = [swaps EXCEPT ![a][m.tx] = [NewDescr EXCEPT !.state = "trHold", !.id = m.order]]
    /\ Deliver(m, {HoldApply(m.hub, m.to, m.tx)})
    /\ UNCHANGED <<placed, pending, unconfirmed, built, paid, reverted>>

ProcessTransactionHold(a, m) ==
    /\ m.type = "Hold"
    /\ \/ /\ m.order \in pending
          /\ AppOf(m.order) = a
          /\ pending' = pending \ {m.order}
          /\ swaps' = [swaps EXCEPT ![a][m.tx] =
                          [NewDescr EXCEPT !.state = "trHold", !.id = m.order]]
          /\ unconfirmed' = [unconfirmed EXCEPT ![a][m.tx].shared = FALSE]
          /\ Deliver(m, {HoldApply(m.hub, m.to, m.tx)})
       \/ /\ m.order \notin pending \/ AppOf(m.order) # a
          /\ Deliver(m, {})
          /\ UNCHANGED <<pending, swaps, unconfirmed>>
    /\ UNCHANGED <<placed, built, paid, reverted>>

\* A new descriptor, without the order's id, replaces whatever is there.
ProcessTransactionInit(a, m) ==
    /\ m.type = "Init"
    /\ swaps' = [swaps EXCEPT ![a][m.tx] = NewDescr]
    /\ unconfirmed' = [unconfirmed EXCEPT ![a][m.tx].shared = FALSE]
    /\ Deliver(m, {Initialized(m.hub, m.to, m.tx)})
    /\ UNCHANGED <<placed, pending, built, paid, reverted>>

\* The wallet signs a new payment from the address the packet is for.
BuildPayment(a, m, pay) ==
    /\ pay \in Payments \ built
    /\ pay[1] = m.to
    /\ pay[2] = m.tx
    /\ pay[3] = 1 \/ <<m.to, m.tx, pay[3] - 1>> \in built
    /\ built' = built \cup {pay}
    /\ unconfirmed' = [unconfirmed EXCEPT ![a][m.tx].hash =
                          IF unconfirmed[a][m.tx].shared THEN pay ELSE @]

\* processTransactionCreate() and its twin for BTC.
ProcessTransactionCreate(a, m) ==
    LET d == swaps[a][m.tx] IN
    /\ m.type = "Create"
    /\ Known(a, m.tx)
    /\ \/ \* the payment and the unsigned revert transaction are built
          \E pay \in Payments :
             LET rev == [spends |-> pay, signed |-> FALSE] IN
             /\ BuildPayment(a, m, pay)
             /\ swaps' = [swaps EXCEPT ![a][m.tx] =
                   [d EXCEPT !.state = "trCreated", !.payTxId = pay,
                             !.payTx = pay, !.revTx = rev]]
             /\ Deliver(m, {Created(m.hub, m.to, m.tx, rev)})
       \/ \* no address for the revert transaction: the payment is kept
          \E pay \in Payments :
             /\ RpcFailures
             /\ BuildPayment(a, m, pay)
             /\ swaps' = [swaps EXCEPT ![a][m.tx] =
                             [d EXCEPT !.payTxId = pay, !.payTx = pay]]
             /\ Deliver(m, CancelAll(m.tx))
       \/ \* no money, no change address or no signature
          /\ RpcFailures
          /\ Deliver(m, CancelAll(m.tx))
          /\ UNCHANGED <<swaps, unconfirmed, built>>
    /\ UNCHANGED <<placed, pending, paid, reverted>>

\* A mutant: the transaction goes back as it came.
MutProcessTransactionSign(a, m) ==
    /\ m.type = "Sign"
    /\ Known(a, m.tx)
    /\ SetState(a, m.tx, "trSigned")
    /\ Deliver(m, {Signed(m.hub, m.to, m.tx, m.rev)})
    /\ UNCHANGED <<placed, pending, unconfirmed, built, paid, reverted>>

\* The counterparty's revert transaction is signed; nothing else is checked
\* but lock times, which a client of this program always sets.
ProcessTransactionSign(a, m) ==
    /\ m.type = "Sign"
    /\ Known(a, m.tx)
    /\ \/ /\ SetState(a, m.tx, "trSigned")
          /\ Deliver(m, {Signed(m.hub, m.to, m.tx, [m.rev EXCEPT !.signed = TRUE])})
       \/ /\ RpcFailures
          /\ Deliver(m, CancelAll(m.tx))
          /\ UNCHANGED swaps
    /\ UNCHANGED <<placed, pending, unconfirmed, built, paid, reverted>>

\* The revert transaction is stored as received, then the payment is sent.
ProcessTransactionCommit(a, m) ==
    LET d == [swaps[a][m.tx] EXCEPT !.revTx = m.rev] IN
    /\ m.type = "Commit"
    /\ Known(a, m.tx)
    /\ \/ /\ d.payTx # NoPayment
          /\ paid' = paid \cup {d.payTx}
          /\ swaps' = [swaps EXCEPT ![a][m.tx] = [d EXCEPT !.state = "trCommited"]]
          /\ Deliver(m, {Commited(m.hub, m.to, m.tx, d.payTxId)})
       \/ /\ RpcFailures \/ d.payTx = NoPayment
          /\ swaps' = [swaps EXCEPT ![a][m.tx] = d]
          /\ Deliver(m, {})
          /\ UNCHANGED paid
    /\ UNCHANGED <<placed, pending, unconfirmed, built, reverted>>

\* The hash to wait for replaces the client's own payTxId.
ProcessTransactionConfirm(a, m) ==
    /\ m.type = "Confirm"
    /\ Known(a, m.tx)
    /\ swaps' = [swaps EXCEPT ![a][m.tx].payTxId = m.hash]
    /\ unconfirmed' = [unconfirmed EXCEPT ![a][m.tx] =
           [waiting |-> TRUE, hubs |-> {m.hub}, me |-> {m.to},
            hash |-> m.hash, shared |-> TRUE]]
    /\ Deliver(m, {})
    /\ UNCHANGED <<placed, pending, built, paid, reverted>>

\* requestUnconfirmedTx() for one entry a wallet knows the payment of.
RequestUnconfirmedTx(a, id) ==
    LET w == unconfirmed[a][id] IN
    /\ w.waiting
    /\ w.hash \in paid
    /\ unconfirmed' = [unconfirmed EXCEPT ![a][id] = NoWatch]
    /\ Send({Confirmed(h, me, id) : h \in w.hubs, me \in w.me})
    /\ UNCHANGED <<placed, pending, swaps, built, paid, reverted>>

ProcessTransactionFinished(a, m) ==
    /\ m.type = "Finished"
    /\ Known(a, m.tx)
    /\ SetState(a, m.tx, "trFinished")
    /\ Deliver(m, {})
    /\ UNCHANGED <<placed, pending, unconfirmed, built, paid, reverted>>

\* revertXBridgeTransaction(): of the descriptors with this local id, the first
\* in hub id order, which is the order of hashes and so any order.
RevertXBridgeTransaction(a, local) ==
    \E id \in TxIds :
        LET rev == swaps[a][id].revTx IN
        /\ Known(a, id)
        /\ swaps[a][id].id = local
        /\ \/ /\ rev.signed
              /\ rev.spends \in paid
              /\ reverted' = reverted \cup {rev.spends}
           \/ /\ RpcFailures \/ ~rev.signed \/ rev.spends \notin paid
              /\ UNCHANGED reverted

\* A mutant: a cancelled swap is reverted at once.
MutProcessTransactionCancel(a, m) ==
    /\ m.type = "Cancel"
    /\ m.to = a
    /\ Deliver(m, {})
    /\ IF m.id \in TxIds /\ Known(a, m.id)
       THEN SetState(a, m.id, "trCancelled") /\ RevertXBridgeTransaction(a, swaps[a][m.id].id)
       ELSE UNCHANGED <<swaps, reverted>>
    /\ UNCHANGED <<placed, pending, unconfirmed, built, paid>>

\* processTransactionCancel() at a client; an order's id is never a swap's.
ProcessTransactionCancel(a, m) ==
    /\ m.type = "Cancel"
    /\ m.to = a
    /\ Deliver(m, {})
    /\ IF m.id \in TxIds /\ Known(a, m.id)
       THEN SetState(a, m.id, "trCancelled")
       ELSE UNCHANGED swaps
    /\ UNCHANGED <<placed, pending, unconfirmed, built, paid, reverted>>

ProcessTransactionRollback(a, m) ==
    /\ m.type = "Rollback"
    /\ Known(a, m.tx)
    /\ RevertXBridgeTransaction(a, swaps[a][m.tx].id)
    /\ SetState(a, m.tx, "trRollback")
    /\ Deliver(m, {})
    /\ UNCHANGED <<placed, pending, unconfirmed, built, paid>>

\* processTransactionDropped(): no code in the repository sends this packet.
ProcessTransactionDropped(a, id) ==
    /\ ForeignHub
    /\ Known(a, id)
    /\ SetState(a, id, "trDropped")
    /\ UNCHANGED <<netVars, placed, pending, unconfirmed, built, paid, reverted>>

\* The program keeps everything in memory; its wallets do not forget.
ClientRestart(a) ==
    /\ ClientRestarts
    /\ pending' = {o \in pending : AppOf(o) # a}
    /\ swaps' = [swaps EXCEPT ![a] = [id \in TxIds |-> Absent]]
    /\ unconfirmed' = [unconfirmed EXCEPT ![a] = [id \in TxIds |-> NoWatch]]
    /\ UNCHANGED <<netVars, placed, built, paid, reverted>>

-----------------------------------------------------------------------------
\* The program that processes a packet for a client.
Receiver(m) == IF m.to \in Apps THEN m.to ELSE Owner[m.to]

ToClient == {m \in Deliverable : m.to \in Apps \cup Addrs}

ClientReceive ==
    \E m \in ToClient :
        LET a == Receiver(m) IN
        \/ ProcessNothing(a, m)
        \/ ProcessTransactionHold(a, m)
        \/ ProcessTransactionInit(a, m)
        \/ ProcessTransactionCreate(a, m)
        \/ ProcessTransactionSign(a, m)
        \/ ProcessTransactionCommit(a, m)
        \/ ProcessTransactionConfirm(a, m)
        \/ ProcessTransactionCancel(a, m)
        \/ ProcessTransactionFinished(a, m)
        \/ ProcessTransactionRollback(a, m)

ClientUser ==
    \/ \E o \in Orders : SendXBridgeTransaction(o) \/ CancelPending(o)
    \/ \E a \in Apps, id \in TxIds : CancelSwap(a, id)

ClientTimer ==
    \E a \in Apps :
        \/ \E id \in TxIds : RequestUnconfirmedTx(a, id)
        \/ SendListOfTransactions(a)
=============================================================================

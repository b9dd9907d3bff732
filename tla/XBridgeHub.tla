----------------------------- MODULE XBridgeHub -----------------------------
(***************************************************************************)
(* The hub: XBridgeExchange (the order book, the joined transactions, the  *)
(* payments waited for) and the packet handlers and timer jobs of          *)
(* XBridgeSession that drive it.                                           *)
(*                                                                         *)
(* A handler runs with the record locked from its first read to its last   *)
(* write, so it is one action here.  Time is a flag that rises when a      *)
(* record or an offer is found untouched for TTL seconds; that it does not *)
(* rise earlier is left out, so updateTimestamp() has nothing to do here.  *)
(***************************************************************************)
EXTENDS XBridgePackets

CONSTANTS
    Wallets,           \* hub -> assets whose currency it has a wallet for
    Timeouts,          \* BOOLEAN: records may reach their TTL
    HubRestarts,       \* BOOLEAN: a hub may restart
    HubWalletReports   \* BOOLEAN: hub wallets send xbcReceivedTransaction

ASSUME HubAssumption ==
    /\ Wallets \in [Hubs -> SUBSET Assets]
    /\ {Timeouts, HubRestarts, HubWalletReports} \subseteq BOOLEAN

VARIABLES
    book,                 \* m_pendingTransactions: hub -> key -> offer
    transactions,         \* m_transactions: hub -> id -> record
    hubUnconfirmed,       \* m_unconfirmed: hub -> set of <<hash, id>>
    walletTransactions    \* m_walletTransactions: hub -> set of hashes

hubVars == <<book, transactions, hubUnconfirmed, walletTransactions>>

\* hash1(): what an order gives and takes, not who placed it; hash2() mirrors it.
Key == Assets \X Assets
Hash1(o) == <<Give[o], Take[o]>>
Hash2(o) == <<Take[o], Give[o]>>

\* A book entry is a record in state trNew: its order and its age.
NoOffer == [orders |-> {}, expired |-> FALSE]
NewOffer(o) == [orders |-> {o}, expired |-> FALSE]

HubInit ==
    /\ book = [h \in Hubs |-> [k \in Key |-> NoOffer]]
    /\ transactions = [h \in Hubs |-> [id \in TxIds |-> Invalid]]
    /\ hubUnconfirmed = [h \in Hubs |-> {}]
    /\ walletTransactions = [h \in Hubs |-> {}]

HubTypeOK ==
    /\ book \in [Hubs -> [Key -> [orders : SUBSET Orders, expired : BOOLEAN]]]
    /\ \A h \in Hubs : \A k \in Key : \A o, p \in book[h][k].orders : o = p
    /\ transactions \in [Hubs -> [TxIds -> Record]]
    /\ hubUnconfirmed \in [Hubs -> SUBSET (TxHash \X TxIds)]
    /\ walletTransactions \in [Hubs -> SUBSET Payments]

-----------------------------------------------------------------------------
\* deletePendingTransactions(): erase by book key.
DeletePendingTransactions(offers, key) ==
    [k \in DOMAIN offers |-> IF k = key THEN NoOffer ELSE offers[k]]

\* createTransaction() with no offer to join: the new order takes its place in
\* the book, whoever held it; an expired mirror offer goes.
EnterBook(h, o) ==
    /\ \/ book[h][Hash2(o)].orders = {}
       \/ book[h][Hash2(o)].expired
    /\ book' = [book EXCEPT ![h] =
                   [DeletePendingTransactions(@, Hash2(o)) EXCEPT
                       ![Hash1(o)] = NewOffer(o)]]
    /\ UNCHANGED transactions

\* createTransaction() that joins: the offer leaves the book and the record is
\* stored under the new id, over whatever was there.
Join(h, other, o) ==
    LET id == <<other, o>> IN
    /\ other \in book[h][Hash2(o)].orders
    /\ ~book[h][Hash2(o)].expired
    /\ book' = [book EXCEPT ![h] = DeletePendingTransactions(@, Hash2(o))]
    /\ transactions' = [transactions EXCEPT ![h][id] = Joined]

\* processTransaction() at an exchange.
ProcessTransaction(m) ==
    LET h == m.to
        o == m.order
    IN  /\ m.type = "Transaction"
        /\ \/ /\ {Give[o], Take[o]} \subseteq Wallets[h]
              /\ EnterBook(h, o)
              /\ Deliver(m, {})
           \/ /\ {Give[o], Take[o]} \subseteq Wallets[h]
              /\ \E other \in Orders :
                    /\ Join(h, other, o)
                    /\ Deliver(m, {Hold(Source[other], h, other, <<other, o>>),
                                   Hold(Source[o], h, o, <<other, o>>)})
           \/ /\ ~({Give[o], Take[o]} \subseteq Wallets[h])
              /\ Deliver(m, {})
              /\ UNCHANGED <<book, transactions>>
        /\ UNCHANGED <<hubUnconfirmed, walletTransactions>>

\* What the six acknowledgement handlers share: tr is the looked-up record as
\* its setter left it, sent is what goes out when the phase is complete.
Acknowledge(m, tr, state, sent) ==
    LET h == m.to
        id == m.tx
    IN  /\ transactions' = [transactions EXCEPT ![h][id] =
                               IncreaseStateCounter(id, tr, state, m.from)]
        /\ Deliver(m, IF BothHeard(id, tr, state, m.from) THEN sent ELSE {})
        /\ UNCHANGED <<book, walletTransactions>>

\* transaction(): the record, or an invalid one.
TransactionOf(m) == transactions[m.to][m.tx]

ProcessTransactionHoldApply(m) ==
    LET h == m.to
        id == m.tx
    IN  /\ m.type = "HoldApply"
        /\ Acknowledge(m, TransactionOf(m), "trJoined",
                       {InitTx(Dest[id[1]], h, id), InitTx(Dest[id[2]], h, id)})
        /\ UNCHANGED hubUnconfirmed

ProcessTransactionInitialized(m) ==
    LET h == m.to
        id == m.tx
    IN  /\ m.type = "Initialized"
        /\ Acknowledge(m, TransactionOf(m), "trHold",
                       {Create(Source[id[1]], h, id), Create(Source[id[2]], h, id)})
        /\ UNCHANGED hubUnconfirmed

\* Each client is asked to sign the other one's revert transaction.
ProcessTransactionCreated(m) ==
    LET h == m.to
        id == m.tx
        tr == SetRawPayTx(id, TransactionOf(m), m.from, m.rev)
    IN  /\ m.type = "Created"
        /\ Acknowledge(m, tr, "trInitialized",
                       {Sign(Dest[id[1]], h, id, tr.rawrevtx2),
                        Sign(Dest[id[2]], h, id, tr.rawrevtx1)})
        /\ UNCHANGED hubUnconfirmed

\* Each client gets its own revert transaction back.
ProcessTransactionSigned(m) ==
    LET h == m.to
        id == m.tx
        tr == UpdateRawRevTx(id, TransactionOf(m), m.from, m.rev)
    IN  /\ m.type = "Signed"
        /\ Acknowledge(m, tr, "trCreated",
                       {Commit(Source[id[1]], h, id, tr.rawrevtx1),
                        Commit(Source[id[2]], h, id, tr.rawrevtx2)})
        /\ UNCHANGED hubUnconfirmed

ProcessTransactionCommited(m) ==
    LET h == m.to
        id == m.tx
        tr == SetTxHash(id, TransactionOf(m), m.from, m.hash)
    IN  /\ m.type = "Commited"
        /\ Acknowledge(m, tr, "trSigned",
                       {ConfirmTx(Dest[id[1]], h, id, tr.txhash2),
                        ConfirmTx(Dest[id[2]], h, id, tr.txhash1)})
        /\ hubUnconfirmed' =
              IF KnownSource(id, TransactionOf(m), m.from)
              THEN [hubUnconfirmed EXCEPT ![h] =
                       {u \in @ : u[1] # m.hash} \cup {<<m.hash, id>>}]
              ELSE hubUnconfirmed

\* A mutant: the swap is announced finished at every confirmation.
MutProcessTransactionConfirmed(m) ==
    /\ m.type = "Confirmed"
    /\ transactions' = [transactions EXCEPT ![m.to][m.tx] =
                           IncreaseStateCounter(m.tx, TransactionOf(m), "trCommited", m.from)]
    /\ Deliver(m, FinishedAll(m.to, m.tx))
    /\ UNCHANGED <<book, walletTransactions, hubUnconfirmed>>

ProcessTransactionConfirmed(m) ==
    /\ m.type = "Confirmed"
    /\ Acknowledge(m, TransactionOf(m), "trCommited", FinishedAll(m.to, m.tx))
    /\ UNCHANGED hubUnconfirmed

\* processTransactionCancel() at an exchange: it erases the book entry filed
\* under the cancelled id, but entries are filed under what they give and take.
ProcessTransactionCancelAtHub(m) ==
    /\ m.type = "Cancel"
    /\ m.to \in Hubs
    /\ book' = [book EXCEPT ![m.to] = DeletePendingTransactions(@, m.id)]
    /\ Deliver(m, {})
    /\ UNCHANGED <<transactions, hubUnconfirmed, walletTransactions>>

HubReceive ==
    \E m \in Deliverable :
        \/ ProcessTransaction(m)
        \/ ProcessTransactionHoldApply(m)
        \/ ProcessTransactionInitialized(m)
        \/ ProcessTransactionCreated(m)
        \/ ProcessTransactionSigned(m)
        \/ ProcessTransactionCommited(m)
        \/ ProcessTransactionConfirmed(m)
        \/ ProcessTransactionCancelAtHub(m)

-----------------------------------------------------------------------------
\* updateTransaction(): a hub wallet saw payment hash; every payment waited for
\* and seen by now is confirmed and no longer waited for.
UpdateTransaction(h, hash) ==
    LET wallet == walletTransactions[h] \cup {hash}
        found == {u \in hubUnconfirmed[h] : u[1] \in wallet}
    IN  /\ HubWalletReports
        /\ walletTransactions' = [walletTransactions EXCEPT ![h] = wallet]
        /\ hubUnconfirmed' = [hubUnconfirmed EXCEPT ![h] = @ \ found]
        /\ transactions' = [transactions EXCEPT ![h] =
               [id \in TxIds |-> Confirm(@[id], {u[1] : u \in {v \in found : v[2] = id}})]]
        /\ UNCHANGED <<book, netVars>>

\* A timer job finds a joined transaction expired and lists it.
Expire(h, id) ==
    /\ Timeouts
    /\ transactions[h][id].state \in Acknowledged
    /\ ~transactions[h][id].listed
    /\ transactions' = [transactions EXCEPT ![h][id].listed = TRUE]
    /\ UNCHANGED <<book, hubUnconfirmed, walletTransactions, netVars>>

\* An offer was in the book for TTL seconds.
ExpireOffer(h, k) ==
    /\ Timeouts
    /\ book[h][k].orders # {}
    /\ ~book[h][k].expired
    /\ book' = [book EXCEPT ![h][k].expired = TRUE]
    /\ UNCHANGED <<transactions, hubUnconfirmed, walletTransactions, netVars>>

\* eraseExpiredPendingTransactions() for one entry.
EraseExpiredPendingTransaction(h, k) ==
    /\ book[h][k].expired
    /\ book' = [book EXCEPT ![h] = DeletePendingTransactions(@, k)]
    /\ UNCHANGED <<transactions, hubUnconfirmed, walletTransactions, netVars>>

\* finishTransaction()
FinishTransaction(h, id) ==
    /\ transactions[h][id].state = "trConfirmed"
    /\ transactions' = [transactions EXCEPT ![h][id].state = "trFinished"]
    /\ Send(FinishedAll(h, id))

\* A mutant: a finished record is left where it is.
MutDeleteTransaction(h, id) ==
    /\ transactions[h][id].state = "trFinished"
    /\ UNCHANGED <<transactions, netVars>>

\* deleteTransaction()
DeleteTransaction(h, id) ==
    /\ transactions[h][id].state = "trFinished"
    /\ transactions' = [transactions EXCEPT ![h][id] = Invalid]
    /\ UNCHANGED netVars

\* A mutant: a swap whose payments are only asked for is not rolled back.
MutMayHavePaid(state) == state = "trCommited"

MayHavePaid(state) == state \in {"trSigned", "trCommited"}

\* rollbackTransaction(): clients that may have paid are told to revert.
RollbackTransaction(h, id) ==
    LET tr == transactions[h][id]
    IN  /\ tr.state \in Acknowledged
        /\ tr.listed
        /\ transactions' = [transactions EXCEPT ![h][id].state = "trFinished"]
        /\ Send(CancelAll(id) \cup
                IF MayHavePaid(tr.state)
                THEN {Rollback(Source[id[1]], h, id), Rollback(Source[id[2]], h, id)}
                ELSE {})

\* checkFinishedTransactions() for one record.
CheckFinishedTransaction(h, id) ==
    /\ \/ FinishTransaction(h, id)
       \/ DeleteTransaction(h, id)
       \/ RollbackTransaction(h, id)
    /\ UNCHANGED <<book, hubUnconfirmed, walletTransactions>>

\* Nothing the exchange keeps survives a restart.
HubRestart(h) ==
    /\ HubRestarts
    /\ book' = [book EXCEPT ![h] = [k \in Key |-> NoOffer]]
    /\ transactions' = [transactions EXCEPT ![h] = [id \in TxIds |-> Invalid]]
    /\ hubUnconfirmed' = [hubUnconfirmed EXCEPT ![h] = {}]
    /\ walletTransactions' = [walletTransactions EXCEPT ![h] = {}]
    /\ UNCHANGED netVars

HubTimer ==
    \E h \in Hubs :
        \/ \E id \in TxIds : CheckFinishedTransaction(h, id)
        \/ \E k \in Key : EraseExpiredPendingTransaction(h, k)
=============================================================================

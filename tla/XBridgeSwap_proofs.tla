-------------------------- MODULE XBridgeSwap_proofs --------------------------
(***************************************************************************)
(* The safety of the exchange, for any number of hubs, clients and orders: *)
(* SwapInv holds always, and so does PaymentInv when no hub wallet reports *)
(* payments (no code in the repository does).                              *)
(*                                                                         *)
(* net and paid only grow, so what a packet or a phase stands for stays    *)
(* true; the frame lemmas say so, and leave of each step what it adds.     *)
(***************************************************************************)
EXTENDS XBridgeSwap, TLAPS

(***************************************************************************)
(* Types.  The packets come first: what a handler may assume of the fields *)
(* of one it takes, and that what it sends is a packet again.              *)
(***************************************************************************)

LEMMA PacketFields ==
    ASSUME NEW m \in Packet
    PROVE  /\ m.type = "Transaction" => m.to \in Hubs /\ m.order \in Orders
           /\ m.type = "Hold" =>
                m.to \in Addrs /\ m.hub \in Hubs /\ m.order \in Orders /\ m.tx \in TxIds
           /\ m.type \in {"Init", "Create", "Rollback"} =>
                m.to \in Addrs /\ m.hub \in Hubs /\ m.tx \in TxIds
           /\ m.type \in {"Sign", "Commit"} =>
                m.to \in Addrs /\ m.hub \in Hubs /\ m.tx \in TxIds /\ m.rev \in RawRevTx
           /\ m.type = "Confirm" =>
                m.to \in Addrs /\ m.hub \in Hubs /\ m.tx \in TxIds /\ m.hash \in TxHash
           /\ m.type = "Finished" => m.to \in Apps /\ m.hub \in Hubs /\ m.tx \in TxIds
           /\ m.type \in {"HoldApply", "Initialized", "Confirmed"} =>
                m.to \in Hubs /\ m.from \in Addrs /\ m.tx \in TxIds
           /\ m.type \in {"Created", "Signed"} =>
                m.to \in Hubs /\ m.from \in Addrs /\ m.tx \in TxIds /\ m.rev \in RawRevTx
           /\ m.type = "Commited" =>
                m.to \in Hubs /\ m.from \in Addrs /\ m.tx \in TxIds /\ m.hash \in TxHash
           /\ m.type = "Cancel" => m.to \in Nodes /\ m.id \in Orders \cup TxIds
BY DEF Packet

LEMMA HubPackets ==
    ASSUME NEW to \in Addrs, NEW h \in Hubs, NEW o \in Orders, NEW id \in TxIds,
           NEW rev \in RawRevTx, NEW hash \in TxHash
    PROVE  /\ Transaction(h, o) \in Packet
           /\ Hold(to, h, o, id) \in Packet
           /\ InitTx(to, h, id) \in Packet
           /\ Create(to, h, id) \in Packet
           /\ Rollback(to, h, id) \in Packet
           /\ Sign(to, h, id, rev) \in Packet
           /\ Commit(to, h, id, rev) \in Packet
           /\ ConfirmTx(to, h, id, hash) \in Packet
           /\ FinishedAll(h, id) \subseteq Packet
BY DEF Packet, Transaction, Hold, InitTx, Create, Rollback, Sign, Commit,
       ConfirmTx, FinishedAll, Finished

LEMMA ClientPackets ==
    ASSUME NEW h \in Hubs, NEW from \in Addrs, NEW id \in TxIds,
           NEW rev \in RawRevTx, NEW hash \in TxHash
    PROVE  /\ HoldApply(h, from, id) \in Packet
           /\ Initialized(h, from, id) \in Packet
           /\ Confirmed(h, from, id) \in Packet
           /\ Created(h, from, id, rev) \in Packet
           /\ Signed(h, from, id, rev) \in Packet
           /\ Commited(h, from, id, hash) \in Packet
BY DEF Packet, HoldApply, Initialized, Confirmed, Created, Signed, Commited

LEMMA Broadcasts ==
    /\ \A o \in Orders : Offer(o) \subseteq Packet
    /\ \A id \in Orders \cup TxIds : CancelAll(id) \subseteq Packet
BY DEF Packet, Offer, Transaction, CancelAll, Cancel

LEMMA DeliverType ==
    ASSUME PacketsTypeOK, NEW m, NEW ms \in SUBSET Packet, Deliver(m, ms)
    PROVE  PacketsTypeOK' /\ m \in net /\ m \in Packet
BY NodeAssumption DEF PacketsTypeOK, Deliver, Deliverable

LEMMA SendType ==
    ASSUME PacketsTypeOK, NEW ms \in SUBSET Packet, Send(ms)
    PROVE  PacketsTypeOK'
BY DEF PacketsTypeOK, Send

-----------------------------------------------------------------------------
(***************************************************************************)
(* The hub's record: every operator on it returns a record.                *)
(***************************************************************************)
LEMMA RecordFields ==
    ASSUME NEW tr \in Record
    PROVE  /\ tr.state \in State
           /\ tr.rawrevtx1 \in RawRevTx /\ tr.rawrevtx2 \in RawRevTx
           /\ tr.txhash1 \in TxHash /\ tr.txhash2 \in TxHash
           /\ tr.confirmationCounter \in 0..2
BY DEF Record

LEMMA InvalidType == Invalid \in Record /\ Joined \in Record /\ NoRevTx \in RawRevTx
<1>1. NoRevTx \in RawRevTx /\ NoPayment \in TxHash
  BY DEF NoRevTx, RawRevTx, TxHash
<1>2. "trInvalid" \in State /\ "trJoined" \in State
  BY DEF State, Acknowledged
<1>3. Invalid \in Record
  BY <1>1, <1>2 DEF Invalid, Record
<1>4. Joined \in Record
  BY <1>2, <1>3 DEF Joined, Record
<1> QED
  BY <1>1, <1>3, <1>4

LEMMA IncreaseType ==
    ASSUME NEW id, NEW tr \in Record, NEW state \in Acknowledged, NEW from
    PROVE  IncreaseStateCounter(id, tr, state, from) \in Record
<1>1. FirstHeard(id, tr, state, from) \in BOOLEAN /\ SecondHeard(id, tr, state, from) \in BOOLEAN
  BY DEF Record, FirstHeard, SecondHeard
<1>2. Successor[state] \in State
  BY DEF Successor, State, Acknowledged
<1> QED
  BY <1>1, <1>2 DEF IncreaseStateCounter, Record

LEMMA SetterTypes ==
    ASSUME NEW id, NEW tr \in Record, NEW from, NEW rev \in RawRevTx, NEW hash \in TxHash
    PROVE  /\ SetRawPayTx(id, tr, from, rev) \in Record
           /\ UpdateRawRevTx(id, tr, from, rev) \in Record
           /\ SetTxHash(id, tr, from, hash) \in Record
BY DEF SetRawPayTx, UpdateRawRevTx, SetTxHash, Record

LEMMA TransactionOfType ==
    ASSUME HubTypeOK, NEW m, m.to \in Hubs, m.tx \in TxIds
    PROVE  TransactionOf(m) \in Record
<1>1. transactions[m.to][m.tx] \in Record
  BY DEF HubTypeOK
<1> QED
  BY <1>1 DEF TransactionOf, Record

LEMMA ConfirmType ==
    ASSUME NEW tr \in Record, NEW found
    PROVE  Confirm(tr, found) \in Record
<1> DEFINE hits == {tr.txhash1, tr.txhash2} \cap found
           total == IF hits = {} THEN tr.confirmationCounter
                    ELSE IF tr.confirmationCounter > 0 \/ \E x, y \in hits : x # y THEN 2
                    ELSE 1
           state == IF hits # {} /\ total = 2 THEN "trConfirmed" ELSE tr.state
<1>1. total \in 0..2
  BY RecordFields
<1>2. state \in State
  BY RecordFields DEF State
<1>3. Confirm(tr, found) = [tr EXCEPT !.confirmationCounter = total, !.state = state]
  BY DEF Confirm, Record
<1> HIDE DEF hits, total, state
<1> QED
  BY <1>1, <1>2, <1>3 DEF Record

-----------------------------------------------------------------------------
(***************************************************************************)
(* The hub's handlers and jobs.                                            *)
(***************************************************************************)
LEMMA KeyType ==
    ASSUME NEW o \in Orders
    PROVE  Hash1(o) \in Key /\ Hash2(o) \in Key /\ Source[o] \in Addrs /\ Dest[o] \in Addrs
BY OrderAssumption DEF Hash1, Hash2, Key

LEMMA AcknowledgeType ==
    ASSUME PacketsTypeOK, HubTypeOK, NEW m, NEW tr \in Record, NEW state \in Acknowledged,
           m \in Packet => m.to \in Hubs /\ m.tx \in TxIds,
           NEW sent \in SUBSET Packet, Acknowledge(m, tr, state, sent)
    PROVE  /\ PacketsTypeOK'
           /\ transactions' \in [Hubs -> [TxIds -> Record]]
           /\ UNCHANGED <<book, walletTransactions>>
<1>1. PacketsTypeOK' /\ m \in Packet
  BY DeliverType DEF Acknowledge
<1>2. IncreaseStateCounter(m.tx, tr, state, m.from) \in Record
  BY IncreaseType
<1> QED
  BY <1>1, <1>2 DEF Acknowledge, HubTypeOK

LEMMA HubReceiveType ==
    ASSUME PacketsTypeOK, HubTypeOK, HubReceive
    PROVE  PacketsTypeOK' /\ HubTypeOK'
<1>1. PICK m \in Deliverable :
        \/ ProcessTransaction(m)
        \/ ProcessTransactionHoldApply(m)
        \/ ProcessTransactionInitialized(m)
        \/ ProcessTransactionCreated(m)
        \/ ProcessTransactionSigned(m)
        \/ ProcessTransactionCommited(m)
        \/ ProcessTransactionConfirmed(m)
        \/ ProcessTransactionCancelAtHub(m)
  BY DEF HubReceive
<1>2. m \in Packet
  BY DEF Deliverable, PacketsTypeOK
<1> DEFINE id == m.tx
           h == m.to
           reply == {"HoldApply", "Initialized", "Created", "Signed", "Commited", "Confirmed"}
<1>3. ASSUME m.type \in reply
      PROVE  /\ h \in Hubs /\ id \in TxIds /\ m.from \in Addrs
             /\ id[1] \in Orders /\ id[2] \in Orders
             /\ TransactionOf(m) \in Record
  <2>1. h \in Hubs /\ id \in TxIds /\ m.from \in Addrs
    BY <1>2, <1>3, PacketFields
  <2> QED
    BY <2>1, TransactionOfType DEF TxIds
<1>4. CASE ProcessTransaction(m)
  <2>1. h \in Hubs /\ m.order \in Orders
    BY <1>2, <1>4, PacketFields DEF ProcessTransaction
  <2>2. CASE EnterBook(h, m.order) /\ Deliver(m, {})
    <3>1. PacketsTypeOK'
      BY <2>2, DeliverType
    <3>2. NoOffer \in [orders : SUBSET Orders, expired : BOOLEAN]
          /\ NewOffer(m.order) \in [orders : SUBSET Orders, expired : BOOLEAN]
          /\ NoOffer.orders = {} /\ NewOffer(m.order).orders = {m.order}
      BY <2>1 DEF NoOffer, NewOffer
    <3> DEFINE offers == [k \in Key |-> IF k = Hash1(m.order) THEN NewOffer(m.order)
                                        ELSE IF k = Hash2(m.order) THEN NoOffer
                                        ELSE book[h][k]]
    <3>3. book' = [book EXCEPT ![h] = offers]
      BY <2>1, <2>2, KeyType DEF EnterBook, DeletePendingTransactions, HubTypeOK
    <3>4. book' \in [Hubs -> [Key -> [orders : SUBSET Orders, expired : BOOLEAN]]]
          /\ \A g \in Hubs : \A k \in Key : \A o, p \in book'[g][k].orders : o = p
      BY <2>1, <3>2, <3>3 DEF HubTypeOK
    <3> QED
      BY <1>4, <2>2, <3>1, <3>4 DEF ProcessTransaction, EnterBook, HubTypeOK
  <2>3. ASSUME NEW other \in Orders, Join(h, other, m.order),
               Deliver(m, {Hold(Source[other], h, other, <<other, m.order>>),
                           Hold(Source[m.order], h, m.order, <<other, m.order>>)})
        PROVE  PacketsTypeOK' /\ HubTypeOK'
    <3>1. <<other, m.order>> \in TxIds
      BY <2>1 DEF TxIds
    <3>2. PacketsTypeOK'
      BY <2>1, <2>3, <3>1, KeyType, DeliverType DEF Hold, Packet
    <3>3. book' \in [Hubs -> [Key -> [orders : SUBSET Orders, expired : BOOLEAN]]]
          /\ \A g \in Hubs : \A k \in Key : \A o, p \in book'[g][k].orders : o = p
      BY <2>1, <2>3, KeyType DEF Join, HubTypeOK, DeletePendingTransactions, NoOffer
    <3>4. transactions' \in [Hubs -> [TxIds -> Record]]
      BY <2>1, <2>3, <3>1, InvalidType DEF Join, HubTypeOK
    <3> QED
      BY <1>4, <3>2, <3>3, <3>4 DEF ProcessTransaction, HubTypeOK
  <2>4. CASE Deliver(m, {}) /\ UNCHANGED <<book, transactions>>
    BY <1>4, <2>4, DeliverType DEF ProcessTransaction, HubTypeOK
  <2> QED
    BY <1>4, <2>2, <2>3, <2>4 DEF ProcessTransaction
<1>5. CASE ProcessTransactionHoldApply(m)
  <2>1. {InitTx(Dest[id[1]], h, id), InitTx(Dest[id[2]], h, id)} \subseteq Packet
    BY <1>3, <1>5, KeyType DEF ProcessTransactionHoldApply, InitTx, Packet
  <2>2. h \in Hubs /\ id \in TxIds /\ TransactionOf(m) \in Record /\ hubUnconfirmed' = hubUnconfirmed
        /\ Acknowledge(m, TransactionOf(m), "trJoined", {InitTx(Dest[id[1]], h, id), InitTx(Dest[id[2]], h, id)})
    BY <1>3, <1>5 DEF ProcessTransactionHoldApply
  <2>3. PacketsTypeOK' /\ transactions' \in [Hubs -> [TxIds -> Record]]
        /\ UNCHANGED <<book, walletTransactions>>
    BY <2>1, <2>2, AcknowledgeType DEF Acknowledged
  <2> QED
    BY <2>2, <2>3 DEF HubTypeOK
<1>6. CASE ProcessTransactionInitialized(m)
  <2>1. {Create(Source[id[1]], h, id), Create(Source[id[2]], h, id)} \subseteq Packet
    BY <1>3, <1>6, KeyType DEF ProcessTransactionInitialized, Create, Packet
  <2>2. h \in Hubs /\ id \in TxIds /\ TransactionOf(m) \in Record /\ hubUnconfirmed' = hubUnconfirmed
        /\ Acknowledge(m, TransactionOf(m), "trHold", {Create(Source[id[1]], h, id), Create(Source[id[2]], h, id)})
    BY <1>3, <1>6 DEF ProcessTransactionInitialized
  <2>3. PacketsTypeOK' /\ transactions' \in [Hubs -> [TxIds -> Record]]
        /\ UNCHANGED <<book, walletTransactions>>
    BY <2>1, <2>2, AcknowledgeType DEF Acknowledged
  <2> QED
    BY <2>2, <2>3 DEF HubTypeOK
<1>7. CASE ProcessTransactionCreated(m)
  <2> DEFINE tr == SetRawPayTx(id, TransactionOf(m), m.from, m.rev)
  <2>1. tr \in Record
    BY <1>2, <1>3, <1>7, PacketFields DEF ProcessTransactionCreated, SetRawPayTx, Record
  <2>2. {Sign(Dest[id[1]], h, id, tr.rawrevtx2), Sign(Dest[id[2]], h, id, tr.rawrevtx1)}
          \subseteq Packet
    BY <1>3, <1>7, <2>1, KeyType, RecordFields DEF ProcessTransactionCreated, Sign, Packet
  <2>4. h \in Hubs /\ id \in TxIds /\ hubUnconfirmed' = hubUnconfirmed
        /\ Acknowledge(m, tr, "trInitialized",
              {Sign(Dest[id[1]], h, id, tr.rawrevtx2), Sign(Dest[id[2]], h, id, tr.rawrevtx1)})
    BY <1>3, <1>7 DEF ProcessTransactionCreated
  <2> HIDE DEF tr
  <2>5. PacketsTypeOK' /\ transactions' \in [Hubs -> [TxIds -> Record]]
        /\ UNCHANGED <<book, walletTransactions>>
    BY <2>1, <2>2, <2>4, AcknowledgeType DEF Acknowledged
  <2> QED
    BY <2>4, <2>5 DEF HubTypeOK
<1>8. CASE ProcessTransactionSigned(m)
  <2> DEFINE tr == UpdateRawRevTx(id, TransactionOf(m), m.from, m.rev)
  <2>1. tr \in Record
    BY <1>2, <1>3, <1>8, PacketFields DEF ProcessTransactionSigned, UpdateRawRevTx, Record
  <2>2. {Commit(Source[id[1]], h, id, tr.rawrevtx1), Commit(Source[id[2]], h, id, tr.rawrevtx2)}
          \subseteq Packet
    BY <1>3, <1>8, <2>1, KeyType, RecordFields DEF ProcessTransactionSigned, Commit, Packet
  <2>4. h \in Hubs /\ id \in TxIds /\ hubUnconfirmed' = hubUnconfirmed
        /\ Acknowledge(m, tr, "trCreated",
              {Commit(Source[id[1]], h, id, tr.rawrevtx1), Commit(Source[id[2]], h, id, tr.rawrevtx2)})
    BY <1>3, <1>8 DEF ProcessTransactionSigned
  <2> HIDE DEF tr
  <2>5. PacketsTypeOK' /\ transactions' \in [Hubs -> [TxIds -> Record]]
        /\ UNCHANGED <<book, walletTransactions>>
    BY <2>1, <2>2, <2>4, AcknowledgeType DEF Acknowledged
  <2> QED
    BY <2>4, <2>5 DEF HubTypeOK
<1>9. CASE ProcessTransactionCommited(m)
  <2> DEFINE tr == SetTxHash(id, TransactionOf(m), m.from, m.hash)
  <2>1. m.hash \in TxHash /\ tr \in Record
    BY <1>2, <1>3, <1>9, PacketFields DEF ProcessTransactionCommited, SetTxHash, Record
  <2>2. {ConfirmTx(Dest[id[1]], h, id, tr.txhash2), ConfirmTx(Dest[id[2]], h, id, tr.txhash1)}
          \subseteq Packet
    BY <1>3, <1>9, <2>1, KeyType, RecordFields DEF ProcessTransactionCommited, ConfirmTx, Packet
  <2>3. hubUnconfirmed' \in [Hubs -> SUBSET (TxHash \X TxIds)]
    BY <1>3, <1>9, <2>1 DEF ProcessTransactionCommited, HubTypeOK
  <2>4. h \in Hubs /\ id \in TxIds 
        /\ Acknowledge(m, tr, "trSigned",
              {ConfirmTx(Dest[id[1]], h, id, tr.txhash2), ConfirmTx(Dest[id[2]], h, id, tr.txhash1)})
    BY <1>3, <1>9 DEF ProcessTransactionCommited
  <2> HIDE DEF tr
  <2>5. PacketsTypeOK' /\ transactions' \in [Hubs -> [TxIds -> Record]]
        /\ UNCHANGED <<book, walletTransactions>>
    BY <2>1, <2>2, <2>4, AcknowledgeType DEF Acknowledged
  <2> QED
    BY <2>3, <2>5 DEF HubTypeOK
<1>10. CASE ProcessTransactionConfirmed(m)
  <2>1. FinishedAll(h, id) \subseteq Packet
    BY <1>3, <1>10 DEF ProcessTransactionConfirmed, FinishedAll, Finished, Packet
  <2>2. h \in Hubs /\ id \in TxIds /\ TransactionOf(m) \in Record /\ hubUnconfirmed' = hubUnconfirmed
        /\ Acknowledge(m, TransactionOf(m), "trCommited", FinishedAll(h, id))
    BY <1>3, <1>10 DEF ProcessTransactionConfirmed
  <2>3. PacketsTypeOK' /\ transactions' \in [Hubs -> [TxIds -> Record]]
        /\ UNCHANGED <<book, walletTransactions>>
    BY <2>1, <2>2, AcknowledgeType DEF Acknowledged
  <2> QED
    BY <2>2, <2>3 DEF HubTypeOK
<1>11. CASE ProcessTransactionCancelAtHub(m)
  BY <1>11, DeliverType
     DEF ProcessTransactionCancelAtHub, HubTypeOK, DeletePendingTransactions, NoOffer
<1> QED
  BY <1>1, <1>4, <1>5, <1>6, <1>7, <1>8, <1>9, <1>10, <1>11

LEMMA HubTimersType ==
    ASSUME PacketsTypeOK, HubTypeOK, HubTimer
    PROVE  PacketsTypeOK' /\ HubTypeOK'
<1>1. ASSUME NEW h \in Hubs, NEW id \in TxIds, CheckFinishedTransaction(h, id)
      PROVE  PacketsTypeOK' /\ HubTypeOK'
  <2>1. UNCHANGED <<book, hubUnconfirmed, walletTransactions>>
    BY <1>1 DEF CheckFinishedTransaction
  <2>2. transactions[h][id] \in Record /\ id[1] \in Orders /\ id[2] \in Orders
    BY DEF HubTypeOK, TxIds
  <2>3. CASE FinishTransaction(h, id)
    <3>1. FinishedAll(h, id) \subseteq Packet
      BY DEF FinishedAll, Finished, Packet
    <3>2. PacketsTypeOK'
      BY <2>3, <3>1, SendType DEF FinishTransaction
    <3>3. transactions' \in [Hubs -> [TxIds -> Record]]
      BY <2>2, <2>3 DEF FinishTransaction, HubTypeOK, Record, State
    <3> QED
      BY <2>1, <3>2, <3>3 DEF HubTypeOK
  <2>4. CASE DeleteTransaction(h, id)
    BY <2>1, <2>4, InvalidType DEF DeleteTransaction, HubTypeOK, PacketsTypeOK, netVars
  <2>5. CASE RollbackTransaction(h, id)
    <3>1. CancelAll(id) \subseteq Packet
      BY Broadcasts
    <3>2. {Rollback(Source[id[1]], h, id), Rollback(Source[id[2]], h, id)} \subseteq Packet
      BY <2>2, KeyType DEF Rollback, Packet
    <3>3. PacketsTypeOK'
      BY <2>5, <3>1, <3>2, SendType DEF RollbackTransaction
    <3>4. transactions' \in [Hubs -> [TxIds -> Record]]
      BY <2>2, <2>5 DEF RollbackTransaction, HubTypeOK, Record, State
    <3> QED
      BY <2>1, <3>3, <3>4 DEF HubTypeOK
  <2> QED
    BY <1>1, <2>3, <2>4, <2>5 DEF CheckFinishedTransaction
<1>2. ASSUME NEW h \in Hubs, NEW k \in Key, EraseExpiredPendingTransaction(h, k)
      PROVE  PacketsTypeOK' /\ HubTypeOK'
  BY <1>2 DEF EraseExpiredPendingTransaction, DeletePendingTransactions, NoOffer,
              HubTypeOK, PacketsTypeOK, netVars
<1> QED
  BY <1>1, <1>2 DEF HubTimer

LEMMA HubEnvironmentType ==
    ASSUME PacketsTypeOK, HubTypeOK, paid \subseteq Payments, NEW h \in Hubs
    PROVE  /\ \A id \in TxIds : Expire(h, id) => PacketsTypeOK' /\ HubTypeOK'
           /\ \A k \in Key : ExpireOffer(h, k) => PacketsTypeOK' /\ HubTypeOK'
           /\ HubRestart(h) => PacketsTypeOK' /\ HubTypeOK'
           /\ \A hash \in paid : UpdateTransaction(h, hash) => PacketsTypeOK' /\ HubTypeOK'
<1>1. ASSUME NEW id \in TxIds, Expire(h, id)
      PROVE  PacketsTypeOK' /\ HubTypeOK'
  <2>1. transactions' \in [Hubs -> [TxIds -> Record]]
    <3> DEFINE tr == [transactions[h][id] EXCEPT !.listed = TRUE]
    <3>a. transactions[h][id] \in Record
      BY DEF HubTypeOK
    <3>1. tr \in Record
      BY <3>a DEF Record
    <3>2. transactions' = [transactions EXCEPT ![h][id] = tr]
      BY <1>1 DEF Expire
    <3> HIDE DEF tr
    <3> QED
      BY <3>1, <3>2 DEF HubTypeOK
  <2> QED
    BY <1>1, <2>1 DEF Expire, HubTypeOK, PacketsTypeOK, netVars
<1>2. ASSUME NEW k \in Key, ExpireOffer(h, k)
      PROVE  PacketsTypeOK' /\ HubTypeOK'
  <2> DEFINE offer == [book[h][k] EXCEPT !.expired = TRUE]
  <2>1. offer \in [orders : SUBSET Orders, expired : BOOLEAN]
        /\ offer.orders = book[h][k].orders
    <3>1. book[h][k] \in [orders : SUBSET Orders, expired : BOOLEAN]
      BY DEF HubTypeOK
    <3> QED
      BY <3>1
  <2>2. book' = [book EXCEPT ![h][k] = offer]
    BY <1>2 DEF ExpireOffer
  <2> HIDE DEF offer
  <2>3. book' \in [Hubs -> [Key -> [orders : SUBSET Orders, expired : BOOLEAN]]]
        /\ \A g \in Hubs : \A l \in Key : \A o, p \in book'[g][l].orders : o = p
    BY <2>1, <2>2 DEF HubTypeOK
  <2> QED
    BY <1>2, <2>3 DEF ExpireOffer, HubTypeOK, PacketsTypeOK, netVars
<1>3. ASSUME HubRestart(h)
      PROVE  PacketsTypeOK' /\ HubTypeOK'
  BY <1>3, InvalidType DEF HubRestart, NoOffer, HubTypeOK, PacketsTypeOK, netVars
<1>4. ASSUME NEW hash \in paid, UpdateTransaction(h, hash)
      PROVE  PacketsTypeOK' /\ HubTypeOK'
  <2> DEFINE wallet == walletTransactions[h] \cup {hash}
             found == {u \in hubUnconfirmed[h] : u[1] \in wallet}
             hits(id) == {u[1] : u \in {v \in found : v[2] = id}}
  <2>1. [id \in TxIds |-> Confirm(transactions[h][id], hits(id))] \in [TxIds -> Record]
    BY ConfirmType DEF HubTypeOK
  <2>2. transactions' \in [Hubs -> [TxIds -> Record]]
    BY <1>4, <2>1 DEF UpdateTransaction, HubTypeOK
  <2>3. /\ walletTransactions' \in [Hubs -> SUBSET Payments]
        /\ hubUnconfirmed' \in [Hubs -> SUBSET (TxHash \X TxIds)]
    BY <1>4 DEF UpdateTransaction, HubTypeOK
  <2> QED
    BY <1>4, <2>2, <2>3 DEF UpdateTransaction, HubTypeOK, PacketsTypeOK, netVars
<1> QED
  BY <1>1, <1>2, <1>3, <1>4

-----------------------------------------------------------------------------
(***************************************************************************)
(* The client's handlers, the user's commands and the jobs.                *)
(***************************************************************************)
LEMMA NestedUpdate ==
    ASSUME NEW A, NEW B, NEW C, NEW f \in [A -> [B -> C]],
           NEW x \in A, NEW y \in B, NEW z \in C
    PROVE  [f EXCEPT ![x][y] = z] \in [A -> [B -> C]]
OBVIOUS

LEMMA DescrTypes ==
    /\ NewDescr \in Descr /\ Absent \in Descr /\ NoWatch \in Watch
    /\ \A o \in Orders : [NewDescr EXCEPT !.state = "trHold", !.id = o] \in Descr
<1>1. NoRevTx \in RawRevTx /\ NoPayment \in TxHash
  BY InvalidType DEF TxHash
<1>2. NewDescr \in Descr
  BY <1>1 DEF NewDescr, Descr, DescrState
<1>3. Absent \in Descr
  BY <1>2 DEF Absent, Descr
<1>4. NoWatch \in Watch
  BY <1>1 DEF NoWatch, Watch
<1>5. ASSUME NEW o \in Orders
      PROVE  [NewDescr EXCEPT !.state = "trHold", !.id = o] \in Descr
  BY <1>2, <1>5 DEF Descr, DescrState
<1> QED
  BY <1>2, <1>3, <1>4, <1>5

LEMMA SetStateType ==
    ASSUME ClientTypeOK, NEW a \in Apps, NEW id \in TxIds, NEW state \in DescrState,
           SetState(a, id, state)
    PROVE  swaps' \in [Apps -> [TxIds -> Descr]]
<1> DEFINE d == [swaps[a][id] EXCEPT !.state = state]
<1>1. d \in Descr
  <2>1. swaps[a][id] \in Descr
    BY DEF ClientTypeOK
  <2> QED
    BY <2>1 DEF Descr
<1>2. swaps' = [swaps EXCEPT ![a][id] = d]
  BY DEF SetState
<1> HIDE DEF d
<1> QED
  BY <1>1, <1>2 DEF ClientTypeOK

LEMMA BuildPaymentType ==
    ASSUME ClientTypeOK, NEW a \in Apps, NEW m, m.tx \in TxIds, NEW pay,
           BuildPayment(a, m, pay)
    PROVE  /\ pay \in Payments
           /\ built' = built \cup {pay} /\ built' \subseteq Payments
           /\ unconfirmed' \in [Apps -> [TxIds -> Watch]]
<1> DEFINE hash == IF unconfirmed[a][m.tx].shared THEN pay ELSE unconfirmed[a][m.tx].hash
           w == [unconfirmed[a][m.tx] EXCEPT !.hash = hash]
<1>1. pay \in Payments /\ built' = built \cup {pay} /\ built' \subseteq Payments
  BY DEF BuildPayment, ClientTypeOK
<1>2. hash \in TxHash
  BY <1>1 DEF ClientTypeOK, Watch, TxHash
<1>3. unconfirmed' = [unconfirmed EXCEPT ![a][m.tx] = w]
  BY DEF BuildPayment
<1> HIDE DEF hash
<1>4. w \in Watch
  <2>1. unconfirmed[a][m.tx] \in Watch
    BY DEF ClientTypeOK
  <2> QED
    BY <1>2, <2>1 DEF Watch
<1> HIDE DEF w
<1> QED
  BY <1>1, <1>3, <1>4 DEF ClientTypeOK

LEMMA ClientReceiveType ==
    ASSUME PacketsTypeOK, ClientTypeOK, ClientReceive
    PROVE  PacketsTypeOK' /\ ClientTypeOK'
<1>1. PICK m \in ToClient :
        LET a == Receiver(m) IN
        \/ ProcessNothing(a, m)
        \/ ProcessTransactionHold(a, m)
        \/ ProcessTransactionInit(a, m)
        \/ ProcessTransactionCreate(a, m)
        \/ ProcessTransactionSign(a, m)
        \/ ProcessTransactionCommit(a, m)
        \/ ProcessTransactionConfirm(a, m)
        \/ ProcessTransactionCancel(a, m)
        \/ ProcessTransactionFinished(a, m)
        \/ ProcessTransactionRollback(a, m)
  BY DEF ClientReceive
<1> DEFINE a == Receiver(m)
<1>2. m \in Packet /\ a \in Apps
  BY <1>1, NodeAssumption DEF ToClient, Deliverable, Receiver, PacketsTypeOK
<1> HIDE DEF a
<1>3. /\ swaps \in [Apps -> [TxIds -> Descr]] /\ unconfirmed \in [Apps -> [TxIds -> Watch]]
      /\ placed \subseteq Orders /\ pending \subseteq placed
      /\ built \subseteq Payments /\ paid \subseteq Payments /\ reverted \subseteq paid
  BY DEF ClientTypeOK
<1>4. \A id \in TxIds : swaps[a][id] \in Descr /\ unconfirmed[a][id] \in Watch
  BY <1>2, <1>3
<1>5. CASE ProcessNothing(a, m)
  BY <1>5, DeliverType DEF ProcessNothing, clientVars, ClientTypeOK
<1>6. CASE ProcessTransactionHold(a, m)
  <2>1. m.to \in Addrs /\ m.hub \in Hubs /\ m.order \in Orders /\ m.tx \in TxIds
    BY <1>2, <1>6, PacketFields DEF ProcessTransactionHold
  <2>2. PacketsTypeOK'
    BY <1>6, <2>1, DeliverType DEF ProcessTransactionHold, HoldApply, Packet
  <2>3. swaps' \in [Apps -> [TxIds -> Descr]]
    <3> DEFINE d == [NewDescr EXCEPT !.state = "trHold", !.id = m.order]
    <3>1. d \in Descr
      BY <2>1, DescrTypes
    <3>2. swaps' = [swaps EXCEPT ![a][m.tx] = d] \/ swaps' = swaps
      BY <1>6 DEF ProcessTransactionHold
    <3> HIDE DEF d
    <3>3. [swaps EXCEPT ![a][m.tx] = d] \in [Apps -> [TxIds -> Descr]]
      BY <1>2, <1>3, <2>1, <3>1, NestedUpdate
    <3> QED
      BY <1>3, <3>2, <3>3
  <2>4. unconfirmed' \in [Apps -> [TxIds -> Watch]]
    <3> DEFINE w == [unconfirmed[a][m.tx] EXCEPT !.shared = FALSE]
    <3>1. w \in Watch
      BY <1>4, <2>1 DEF Watch
    <3>2. unconfirmed' = [unconfirmed EXCEPT ![a][m.tx] = w] \/ unconfirmed' = unconfirmed
      BY <1>6 DEF ProcessTransactionHold
    <3> HIDE DEF w
    <3>3. [unconfirmed EXCEPT ![a][m.tx] = w] \in [Apps -> [TxIds -> Watch]]
      BY <1>2, <1>3, <2>1, <3>1, NestedUpdate
    <3> QED
      BY <1>3, <3>2, <3>3
  <2> QED
    BY <1>3, <1>6, <2>2, <2>3, <2>4 DEF ProcessTransactionHold, ClientTypeOK
<1>7. CASE ProcessTransactionInit(a, m)
  <2>1. m.to \in Addrs /\ m.hub \in Hubs /\ m.tx \in TxIds
    BY <1>2, <1>7, PacketFields DEF ProcessTransactionInit
  <2>2. PacketsTypeOK'
    BY <1>7, <2>1, DeliverType DEF ProcessTransactionInit, Initialized, Packet
  <2>3. swaps' \in [Apps -> [TxIds -> Descr]]
    BY <1>2, <1>3, <1>7, <2>1, DescrTypes DEF ProcessTransactionInit
  <2>4. [unconfirmed[a][m.tx] EXCEPT !.shared = FALSE] \in Watch
    BY <1>4, <2>1 DEF Watch
  <2>5. unconfirmed' \in [Apps -> [TxIds -> Watch]]
    BY <1>2, <1>3, <1>7, <2>1, <2>4 DEF ProcessTransactionInit
  <2> QED
    BY <1>3, <1>7, <2>2, <2>3, <2>5 DEF ProcessTransactionInit, ClientTypeOK
<1>8. CASE ProcessTransactionCreate(a, m)
  <2>1. m.to \in Addrs /\ m.hub \in Hubs /\ m.tx \in TxIds
    BY <1>2, <1>8, PacketFields DEF ProcessTransactionCreate
  <2>2. UNCHANGED <<placed, pending, paid, reverted>>
    BY <1>8 DEF ProcessTransactionCreate
  <2> DEFINE d == swaps[a][m.tx]
             rev(pay) == [spends |-> pay, signed |-> FALSE]
  <2>3. ASSUME NEW pay \in Payments, BuildPayment(a, m, pay),
               swaps' = [swaps EXCEPT ![a][m.tx] =
                           [d EXCEPT !.state = "trCreated", !.payTxId = pay,
                                     !.payTx = pay, !.revTx = rev(pay)]],
               Deliver(m, {Created(m.hub, m.to, m.tx, rev(pay))})
        PROVE  PacketsTypeOK' /\ ClientTypeOK'
    <3>1. rev(pay) \in RawRevTx
      BY DEF RawRevTx, TxHash
    <3>2. PacketsTypeOK'
      <4>1. Created(m.hub, m.to, m.tx, rev(pay)) \in Packet
        BY <2>1, <3>1 DEF Created, Packet
      <4> QED
        BY <2>3, <4>1, DeliverType
    <3>3. [d EXCEPT !.state = "trCreated", !.payTxId = pay,
                    !.payTx = pay, !.revTx = rev(pay)] \in Descr
      BY <1>4, <2>1, <3>1 DEF Descr, DescrState, TxHash
    <3>4. swaps' \in [Apps -> [TxIds -> Descr]]
      BY <1>2, <1>3, <2>1, <2>3, <3>3
    <3> QED
      BY <1>2, <1>3, <2>1, <2>2, <2>3, <3>2, <3>4, BuildPaymentType DEF ClientTypeOK
  <2>4. ASSUME NEW pay \in Payments, BuildPayment(a, m, pay),
               swaps' = [swaps EXCEPT ![a][m.tx] = [d EXCEPT !.payTxId = pay, !.payTx = pay]],
               Deliver(m, CancelAll(m.tx))
        PROVE  PacketsTypeOK' /\ ClientTypeOK'
    <3>1. PacketsTypeOK'
      BY <2>1, <2>4, DeliverType, Broadcasts
    <3>2. [d EXCEPT !.payTxId = pay, !.payTx = pay] \in Descr
      BY <1>4, <2>1 DEF Descr, TxHash
    <3>3. swaps' \in [Apps -> [TxIds -> Descr]]
      BY <1>2, <1>3, <2>1, <2>4, <3>2
    <3> QED
      BY <1>2, <1>3, <2>1, <2>2, <2>4, <3>1, <3>3, BuildPaymentType DEF ClientTypeOK
  <2>5. CASE Deliver(m, CancelAll(m.tx)) /\ UNCHANGED <<swaps, unconfirmed, built>>
    <3>1. PacketsTypeOK'
      BY <2>1, <2>5, DeliverType, Broadcasts
    <3> QED
      BY <2>2, <2>5, <3>1 DEF ClientTypeOK
  <2> QED
    BY <1>8, <2>3, <2>4, <2>5 DEF ProcessTransactionCreate
<1>9. CASE ProcessTransactionSign(a, m)
  <2>1. m.to \in Addrs /\ m.hub \in Hubs /\ m.tx \in TxIds /\ m.rev \in RawRevTx
    BY <1>2, <1>9, PacketFields DEF ProcessTransactionSign
  <2>2. [m.rev EXCEPT !.signed = TRUE] \in RawRevTx
    BY <2>1 DEF RawRevTx
  <2>3. Signed(m.hub, m.to, m.tx, [m.rev EXCEPT !.signed = TRUE]) \in Packet
    BY <2>1, <2>2, ClientPackets DEF Signed, Packet
  <2>4. PacketsTypeOK'
    BY <1>9, <2>1, <2>3, DeliverType, Broadcasts DEF ProcessTransactionSign
  <2>5. swaps' \in [Apps -> [TxIds -> Descr]]
    BY <1>2, <1>3, <1>9, <2>1, SetStateType DEF ProcessTransactionSign, DescrState
  <2> QED
    BY <1>3, <1>9, <2>4, <2>5 DEF ProcessTransactionSign, ClientTypeOK
<1>10. CASE ProcessTransactionCommit(a, m)
  <2>1. m.to \in Addrs /\ m.hub \in Hubs /\ m.tx \in TxIds /\ m.rev \in RawRevTx
    BY <1>2, <1>10, PacketFields DEF ProcessTransactionCommit
  <2> DEFINE d == [swaps[a][m.tx] EXCEPT !.revTx = m.rev]
  <2>2. d \in Descr /\ [d EXCEPT !.state = "trCommited"] \in Descr
    BY <1>4, <2>1 DEF Descr, DescrState
  <2>3. d.payTxId \in TxHash
    BY <2>2 DEF Descr
  <2>4. PacketsTypeOK'
    <3>1. Commited(m.hub, m.to, m.tx, d.payTxId) \in Packet
      BY <2>1, <2>3 DEF Commited, Packet
    <3> QED
      BY <1>10, <3>1, DeliverType DEF ProcessTransactionCommit
  <2>5. swaps' \in [Apps -> [TxIds -> Descr]]
    <3> DEFINE e == [d EXCEPT !.state = "trCommited"]
    <3>1. swaps' = [swaps EXCEPT ![a][m.tx] = e] \/ swaps' = [swaps EXCEPT ![a][m.tx] = d]
      BY <1>10 DEF ProcessTransactionCommit
    <3>2. e \in Descr /\ d \in Descr
      BY <2>2
    <3> HIDE DEF d, e
    <3>3. [swaps EXCEPT ![a][m.tx] = e] \in [Apps -> [TxIds -> Descr]]
      BY <1>2, <1>3, <2>1, <3>2, NestedUpdate
    <3>4. [swaps EXCEPT ![a][m.tx] = d] \in [Apps -> [TxIds -> Descr]]
      BY <1>2, <1>3, <2>1, <3>2, NestedUpdate
    <3> QED
      BY <3>1, <3>3, <3>4
  <2>6. UNCHANGED <<placed, pending, unconfirmed, built, reverted>>
        /\ (paid' = paid \/ (d.payTx # NoPayment /\ paid' = paid \cup {d.payTx}))
    BY <1>10 DEF ProcessTransactionCommit
  <2>7. paid' \subseteq Payments /\ paid \subseteq paid'
    BY <1>3, <2>2, <2>6 DEF Descr, TxHash
  <2> QED
    BY <1>3, <2>4, <2>5, <2>6, <2>7 DEF ClientTypeOK
<1>11. CASE ProcessTransactionConfirm(a, m)
  <2>1. m.to \in Addrs /\ m.hub \in Hubs /\ m.tx \in TxIds /\ m.hash \in TxHash
    BY <1>2, <1>11, PacketFields DEF ProcessTransactionConfirm
  <2>2. [swaps[a][m.tx] EXCEPT !.payTxId = m.hash] \in Descr
    BY <1>4, <2>1 DEF Descr
  <2>3. swaps' \in [Apps -> [TxIds -> Descr]]
    BY <1>2, <1>3, <1>11, <2>1, <2>2 DEF ProcessTransactionConfirm
  <2>4. unconfirmed' \in [Apps -> [TxIds -> Watch]]
    BY <1>2, <1>3, <1>11, <2>1 DEF ProcessTransactionConfirm, Watch
  <2> QED
    BY <1>3, <1>11, <2>3, <2>4, DeliverType DEF ProcessTransactionConfirm, ClientTypeOK
<1>12. CASE ProcessTransactionCancel(a, m)
  <2>1. swaps' \in [Apps -> [TxIds -> Descr]]
    BY <1>2, <1>3, <1>12, SetStateType DEF ProcessTransactionCancel, DescrState
  <2> QED
    BY <1>3, <1>12, <2>1, DeliverType DEF ProcessTransactionCancel, ClientTypeOK
<1>13. CASE ProcessTransactionFinished(a, m)
  <2>1. m.tx \in TxIds
    BY <1>2, <1>13, PacketFields DEF ProcessTransactionFinished
  <2>2. swaps' \in [Apps -> [TxIds -> Descr]]
    BY <1>2, <1>13, <2>1, SetStateType DEF ProcessTransactionFinished, DescrState
  <2> QED
    BY <1>3, <1>13, <2>2, DeliverType DEF ProcessTransactionFinished, ClientTypeOK
<1>14. CASE ProcessTransactionRollback(a, m)
  <2>1. m.tx \in TxIds
    BY <1>2, <1>14, PacketFields DEF ProcessTransactionRollback
  <2>2. swaps' \in [Apps -> [TxIds -> Descr]]
    BY <1>2, <1>14, <2>1, SetStateType DEF ProcessTransactionRollback, DescrState
  <2>3. reverted' \subseteq paid
    BY <1>3, <1>14 DEF ProcessTransactionRollback, RevertXBridgeTransaction
  <2> QED
    BY <1>3, <1>14, <2>2, <2>3, DeliverType DEF ProcessTransactionRollback, ClientTypeOK
<1> QED
  BY <1>1, <1>5, <1>6, <1>7, <1>8, <1>9, <1>10, <1>11, <1>12, <1>13, <1>14 DEF a

LEMMA ClientTimersType ==
    ASSUME PacketsTypeOK, ClientTypeOK, ClientTimer
    PROVE  PacketsTypeOK' /\ ClientTypeOK'
<1>1. ASSUME NEW a \in Apps, NEW id \in TxIds, RequestUnconfirmedTx(a, id)
      PROVE  PacketsTypeOK' /\ ClientTypeOK'
  <2>1. unconfirmed[a][id] \in Watch
    BY DEF ClientTypeOK
  <2>2. {Confirmed(h, me, id) : h \in unconfirmed[a][id].hubs, me \in unconfirmed[a][id].me}
          \subseteq Packet
    BY <2>1 DEF Watch, Confirmed, Packet
  <2>3. PacketsTypeOK'
    BY <1>1, <2>2, SendType DEF RequestUnconfirmedTx
  <2>4. unconfirmed' \in [Apps -> [TxIds -> Watch]]
    BY <1>1, DescrTypes DEF RequestUnconfirmedTx, ClientTypeOK
  <2> QED
    BY <1>1, <2>3, <2>4 DEF RequestUnconfirmedTx, ClientTypeOK
<1>2. ASSUME NEW a \in Apps, SendListOfTransactions(a)
      PROVE  PacketsTypeOK' /\ ClientTypeOK'
  <2>1. UNION {Offer(o) : o \in {p \in pending : AppOf(p) = a}} \subseteq Packet
    BY Broadcasts DEF ClientTypeOK
  <2>2. PacketsTypeOK'
    BY <1>2, <2>1, SendType DEF SendListOfTransactions
  <2> QED
    BY <1>2, <2>2 DEF SendListOfTransactions, clientVars, ClientTypeOK
<1> QED
  BY <1>1, <1>2 DEF ClientTimer

LEMMA ClientEnvironmentType ==
    ASSUME PacketsTypeOK, ClientTypeOK
    PROVE  /\ ClientUser => PacketsTypeOK' /\ ClientTypeOK'
           /\ \A a \in Apps : ClientRestart(a) => PacketsTypeOK' /\ ClientTypeOK'
           /\ \A a \in Apps, id \in TxIds :
                 ProcessTransactionDropped(a, id) => PacketsTypeOK' /\ ClientTypeOK'
<1>1. ASSUME NEW o \in Orders, SendXBridgeTransaction(o) \/ CancelPending(o)
      PROVE  PacketsTypeOK' /\ ClientTypeOK'
  <2>1. PacketsTypeOK'
    BY <1>1, Broadcasts, SendType DEF SendXBridgeTransaction, CancelPending
  <2> QED
    BY <1>1, <2>1 DEF SendXBridgeTransaction, CancelPending, ClientTypeOK
<1>2. ASSUME NEW a \in Apps, NEW id \in TxIds, CancelSwap(a, id)
      PROVE  PacketsTypeOK' /\ ClientTypeOK'
  <2>1. PacketsTypeOK'
    BY <1>2, Broadcasts, SendType DEF CancelSwap
  <2>2. swaps' \in [Apps -> [TxIds -> Descr]]
    BY <1>2, SetStateType DEF CancelSwap, DescrState
  <2> QED
    BY <1>2, <2>1, <2>2 DEF CancelSwap, ClientTypeOK
<1>3. ASSUME NEW a \in Apps, ClientRestart(a)
      PROVE  PacketsTypeOK' /\ ClientTypeOK'
  <2>1. /\ swaps' \in [Apps -> [TxIds -> Descr]]
        /\ unconfirmed' \in [Apps -> [TxIds -> Watch]]
    BY <1>3, DescrTypes DEF ClientRestart, ClientTypeOK
  <2> QED
    BY <1>3, <2>1 DEF ClientRestart, ClientTypeOK, PacketsTypeOK, netVars
<1>4. ASSUME NEW a \in Apps, NEW id \in TxIds, ProcessTransactionDropped(a, id)
      PROVE  PacketsTypeOK' /\ ClientTypeOK'
  <2>1. swaps' \in [Apps -> [TxIds -> Descr]]
    BY <1>4, SetStateType DEF ProcessTransactionDropped, DescrState
  <2> QED
    BY <1>4, <2>1 DEF ProcessTransactionDropped, ClientTypeOK, PacketsTypeOK, netVars
<1> QED
  BY <1>1, <1>2, <1>3, <1>4 DEF ClientUser

-----------------------------------------------------------------------------
LEMMA InitTypeOK == Init => TypeOK
<1> SUFFICES ASSUME Init PROVE TypeOK
  OBVIOUS
<1>1. PacketsTypeOK
  BY NodeAssumption DEF Init, PacketsInit, PacketsTypeOK
<1>2. HubTypeOK
  BY InvalidType DEF Init, HubInit, HubTypeOK, NoOffer
<1>3. ClientTypeOK
  BY DescrTypes DEF Init, ClientInit, ClientTypeOK
<1> QED
  BY <1>1, <1>2, <1>3 DEF TypeOK

LEMMA NextTypeOK == TypeOK /\ [Next]_vars => TypeOK'
<1> SUFFICES ASSUME TypeOK, [Next]_vars PROVE TypeOK'
  OBVIOUS
<1> USE DEF TypeOK
<1>0. paid \subseteq Payments
  BY DEF ClientTypeOK
<1>h. ASSUME UNCHANGED hubVars PROVE HubTypeOK'
  BY <1>h DEF hubVars, HubTypeOK
<1>c. ASSUME UNCHANGED clientVars PROVE ClientTypeOK'
  BY <1>c DEF clientVars, ClientTypeOK
<1>1. CASE HubReceives
  BY <1>1, <1>c, HubReceiveType DEF HubReceives
<1>2. CASE HubTimers
  BY <1>2, <1>c, HubTimersType DEF HubTimers
<1>3. CASE ClientReceives
  BY <1>3, <1>h, ClientReceiveType DEF ClientReceives
<1>4. CASE ClientTimers
  BY <1>4, <1>h, ClientTimersType DEF ClientTimers
<1>5. CASE TimePasses
  BY <1>0, <1>5, <1>c, HubEnvironmentType DEF TimePasses
<1>6. CASE Environment
  BY <1>0, <1>6, <1>c, <1>h, HubEnvironmentType, ClientEnvironmentType DEF Environment
<1>7. CASE UNCHANGED vars
  <2>1. PacketsTypeOK'
    BY <1>7 DEF vars, netVars, PacketsTypeOK
  <2> QED
    BY <1>7, <1>c, <1>h, <2>1 DEF vars
<1> QED
  BY <1>1, <1>2, <1>3, <1>4, <1>5, <1>6, <1>7 DEF Next

(***************************************************************************)
(* Every packet on the overlay, every record of every hub and every        *)
(* descriptor of every client is well formed, for any number of hubs,      *)
(* clients, orders and repeated packets.                                   *)
(***************************************************************************)
THEOREM TypeCorrect == Spec => []TypeOK
<1>1. TypeOK /\ [Next]_vars => TypeOK'
  BY NextTypeOK
<1> QED
  BY InitTypeOK, <1>1, PTL DEF Spec

(***************************************************************************)
(* Safety.                                                                 *)
(***************************************************************************)
LEMMA NetFrame ==
    ASSUME NEW ms, net' = net \cup ms, paid \subseteq paid'
    PROVE  /\ \A h, addr, id : SignedToHub(h, addr, id) => SignedToHub(h, addr, id)'
           /\ \A addr, id : PaidFrom(addr, id) => PaidFrom(addr, id)'
           /\ HoldsAddressed /\ (\A m \in ms : m.type # "Hold") => HoldsAddressed'
           /\ CoinOrdersAddressed /\ (\A m \in ms : m.type \notin {"Create", "Commit"})
                => CoinOrdersAddressed'
           /\ CommitMeansSigned /\ (\A m \in ms : m.type # "Commit") => CommitMeansSigned'
           /\ CommitedMeansPaid /\ (\A m \in ms : m.type # "Commited") => CommitedMeansPaid'
           /\ FinishedMeansBothPaid /\ (\A m \in ms : m.type # "Finished")
                => FinishedMeansBothPaid'
<1>1. \A h, addr, id : SignedToHub(h, addr, id) => SignedToHub(h, addr, id)'
  BY DEF SignedToHub
<1>2. \A addr, id : PaidFrom(addr, id) => PaidFrom(addr, id)'
  BY DEF PaidFrom
<1>3. HoldsAddressed /\ (\A m \in ms : m.type # "Hold") => HoldsAddressed'
  BY DEF HoldsAddressed
<1>4. CoinOrdersAddressed /\ (\A m \in ms : m.type \notin {"Create", "Commit"})
        => CoinOrdersAddressed'
  BY DEF CoinOrdersAddressed
<1>5. CommitMeansSigned /\ (\A m \in ms : m.type # "Commit") => CommitMeansSigned'
  BY <1>1 DEF CommitMeansSigned
<1>6. CommitedMeansPaid /\ (\A m \in ms : m.type # "Commited") => CommitedMeansPaid'
  BY <1>2 DEF CommitedMeansPaid
<1>7. FinishedMeansBothPaid /\ (\A m \in ms : m.type # "Finished") => FinishedMeansBothPaid'
  BY <1>2 DEF FinishedMeansBothPaid
<1> QED
  BY <1>1, <1>2, <1>3, <1>4, <1>5, <1>6, <1>7

\* A client that applies for nothing and takes no order back into its list.
LEMMA AppliedFrame ==
    ASSUME AppliedMeansNotPending, OneSwapPerOrder,
           NEW ms, net' = net \cup ms, \A m \in ms : m.type # "HoldApply",
           placed \ pending \subseteq placed' \ pending'
    PROVE  AppliedMeansNotPending' /\ OneSwapPerOrder'
<1>1. \A m \in net', o \in Orders :
        m.type = "HoldApply" /\ AcceptedFor(m, o) => m \in net /\ o \in placed \ pending
  BY DEF AppliedMeansNotPending
<1>2. AppliedMeansNotPending'
  BY <1>1 DEF AppliedMeansNotPending, AcceptedFor
<1>3. OneSwapPerOrder'
  BY <1>1 DEF OneSwapPerOrder, AcceptedFor
<1> QED
  BY <1>2, <1>3

\* A payment stays justified.
LEMMA PaymentFrame ==
    ASSUME NoPaymentBeforeBothSigned, NEW ms, net' = net \cup ms, paid' = paid
    PROVE  NoPaymentBeforeBothSigned'
BY NetFrame DEF NoPaymentBeforeBothSigned

\* A record that counts nobody it did not count, or whose phase stands for nothing.
Steady(h, id) ==
    LET old == transactions[h][id]
        new == transactions'[h][id]
    IN  \/ /\ new.state = old.state
           /\ new.state \in {"trCreated", "trSigned"} =>
                /\ new.firstStateChanged = old.firstStateChanged
                /\ new.secondStateChanged = old.secondStateChanged
        \/ new.state \in {"trInvalid", "trJoined", "trHold", "trInitialized", "trFinished"}
        \/ /\ new.state \in {"trCreated", "trSigned"}
           /\ ~new.firstStateChanged /\ ~new.secondStateChanged

LEMMA RecordFrame ==
    ASSUME NEW ms, net' = net \cup ms, paid \subseteq paid',
           \A h \in Hubs, id \in TxIds : Steady(h, id)
    PROVE  /\ PhaseMeansSigned => PhaseMeansSigned'
           /\ PhaseMeansPaid => PhaseMeansPaid'
<1>1. /\ \A h, addr, id : SignedToHub(h, addr, id) => SignedToHub(h, addr, id)'
      /\ \A addr, id : PaidFrom(addr, id) => PaidFrom(addr, id)'
  BY NetFrame
<1>2. PhaseMeansSigned => PhaseMeansSigned'
  BY <1>1 DEF PhaseMeansSigned, Steady
<1>3. PhaseMeansPaid => PhaseMeansPaid'
  BY <1>1 DEF PhaseMeansPaid, Steady
<1> QED
  BY <1>2, <1>3

-----------------------------------------------------------------------------
(***************************************************************************)
(* One acknowledgement: either it is counted, if it is for this phase, or  *)
(* it is the second one and the phase is over.                             *)
(***************************************************************************)
Acknowledges(m, tr, state, sent) ==
    /\ m \in net /\ m.to \in Hubs /\ m.tx \in TxIds /\ tr \in Record
    /\ tr.state = transactions[m.to][m.tx].state
    /\ tr.firstStateChanged = transactions[m.to][m.tx].firstStateChanged
    /\ tr.secondStateChanged = transactions[m.to][m.tx].secondStateChanged
    /\ Acknowledge(m, tr, state, sent)

LEMMA AcknowledgeStep ==
    ASSUME TypeOK, NEW m, NEW tr, NEW state \in Acknowledged, NEW sent,
           Acknowledges(m, tr, state, sent)
    PROVE  LET id  == m.tx
               old == transactions[m.to][id]
               new == transactions'[m.to][id]
               first == old.firstStateChanged \/ m.from = AckAddress(state, id[1])
               second == old.secondStateChanged \/ m.from = AckAddress(state, id[2])
           IN  /\ \A h \in Hubs, i \in TxIds :
                     h # m.to \/ i # id => transactions'[h][i] = transactions[h][i]
               /\ \/ /\ net' = net \cup {}
                     /\ new.state = old.state
                     /\ old.state # state =>
                          /\ new.firstStateChanged = old.firstStateChanged
                          /\ new.secondStateChanged = old.secondStateChanged
                     /\ new.firstStateChanged => first
                     /\ new.secondStateChanged => second
                  \/ /\ net' = net \cup sent
                     /\ old.state = state
                     /\ new.state = Successor[state]
                     /\ ~new.firstStateChanged /\ ~new.secondStateChanged
                     /\ first /\ second
<1> DEFINE id == m.tx
           old == transactions[m.to][id]
           new == transactions'[m.to][id]
<1> USE DEF Acknowledges
<1>1. new = IncreaseStateCounter(id, tr, state, m.from)
      /\ \A h \in Hubs, i \in TxIds : h # m.to \/ i # id => transactions'[h][i] = transactions[h][i]
  BY DEF Acknowledge, TypeOK, HubTypeOK
<1>2. net' = net \cup (IF BothHeard(id, tr, state, m.from) THEN sent ELSE {})
  BY DEF Acknowledge, Deliver
<1>3. CASE BothHeard(id, tr, state, m.from)
  <2>1. new = [tr EXCEPT !.state = Successor[state],
                         !.firstStateChanged = FALSE, !.secondStateChanged = FALSE]
    BY <1>1, <1>3 DEF IncreaseStateCounter, BothHeard
  <2>2. new.state = Successor[state] /\ ~new.firstStateChanged /\ ~new.secondStateChanged
    BY <2>1 DEF Record
  <2> QED
    BY <1>1, <1>2, <1>3, <2>2 DEF BothHeard, FirstHeard, SecondHeard
<1>4. CASE ~BothHeard(id, tr, state, m.from) /\ tr.state = state
  <2>1. new = [tr EXCEPT !.firstStateChanged = FirstHeard(id, tr, state, m.from),
                         !.secondStateChanged = SecondHeard(id, tr, state, m.from)]
    BY <1>1, <1>4 DEF IncreaseStateCounter
  <2>2. /\ new.state = tr.state
        /\ new.firstStateChanged = FirstHeard(id, tr, state, m.from)
        /\ new.secondStateChanged = SecondHeard(id, tr, state, m.from)
    BY <2>1 DEF Record
  <2> QED
    BY <1>1, <1>2, <1>4, <2>2 DEF FirstHeard, SecondHeard
<1>5. CASE tr.state # state
  BY <1>1, <1>2, <1>5 DEF IncreaseStateCounter, BothHeard
<1> QED
  BY <1>3, <1>4, <1>5

\* Every acknowledgement handler is one, whatever its setter wrote.
LEMMA HandlersAcknowledge ==
    ASSUME TypeOK, NEW m \in net
    PROVE  /\ ProcessTransactionHoldApply(m) =>
                Acknowledges(m, TransactionOf(m), "trJoined",
                   {InitTx(Dest[m.tx[1]], m.to, m.tx), InitTx(Dest[m.tx[2]], m.to, m.tx)})
           /\ ProcessTransactionInitialized(m) =>
                Acknowledges(m, TransactionOf(m), "trHold",
                   {Create(Source[m.tx[1]], m.to, m.tx), Create(Source[m.tx[2]], m.to, m.tx)})
           /\ ProcessTransactionCreated(m) =>
                \E tr : Acknowledges(m, tr, "trInitialized",
                   {Sign(Dest[m.tx[1]], m.to, m.tx, tr.rawrevtx2),
                    Sign(Dest[m.tx[2]], m.to, m.tx, tr.rawrevtx1)})
           /\ ProcessTransactionSigned(m) =>
                \E tr : Acknowledges(m, tr, "trCreated",
                   {Commit(Source[m.tx[1]], m.to, m.tx, tr.rawrevtx1),
                    Commit(Source[m.tx[2]], m.to, m.tx, tr.rawrevtx2)})
           /\ ProcessTransactionCommited(m) =>
                \E tr : Acknowledges(m, tr, "trSigned",
                   {ConfirmTx(Dest[m.tx[1]], m.to, m.tx, tr.txhash2),
                    ConfirmTx(Dest[m.tx[2]], m.to, m.tx, tr.txhash1)})
           /\ ProcessTransactionConfirmed(m) =>
                Acknowledges(m, TransactionOf(m), "trCommited", FinishedAll(m.to, m.tx))
<1> DEFINE old == transactions[m.to][m.tx]
           Same(tr) == /\ tr \in Record /\ tr.state = old.state
                       /\ tr.firstStateChanged = old.firstStateChanged
                       /\ tr.secondStateChanged = old.secondStateChanged
<1>1. m \in Packet
  BY DEF TypeOK, PacketsTypeOK
<1>2. ASSUME m.type \in {"HoldApply", "Initialized", "Created", "Signed", "Commited", "Confirmed"}
      PROVE  /\ m.to \in Hubs /\ m.tx \in TxIds
             /\ Same(TransactionOf(m))
             /\ \A rev \in RawRevTx : /\ Same(SetRawPayTx(m.tx, TransactionOf(m), m.from, rev))
                                      /\ Same(UpdateRawRevTx(m.tx, TransactionOf(m), m.from, rev))
             /\ \A hash \in TxHash : Same(SetTxHash(m.tx, TransactionOf(m), m.from, hash))
  <2>1. m.to \in Hubs /\ m.tx \in TxIds
    BY <1>1, <1>2, PacketFields
  <2>2. old \in Record
    BY <2>1 DEF TypeOK, HubTypeOK
  <2>3. Same(TransactionOf(m))
    BY <2>2 DEF TransactionOf, Record
  <2>4. ASSUME NEW rev \in RawRevTx
        PROVE  /\ Same(SetRawPayTx(m.tx, TransactionOf(m), m.from, rev))
               /\ Same(UpdateRawRevTx(m.tx, TransactionOf(m), m.from, rev))
    BY <2>3 DEF SetRawPayTx, UpdateRawRevTx, Record
  <2>5. ASSUME NEW hash \in TxHash
        PROVE  Same(SetTxHash(m.tx, TransactionOf(m), m.from, hash))
    BY <2>3 DEF SetTxHash, Record
  <2> QED
    BY <2>1, <2>3, <2>4, <2>5
<1>3. ASSUME ProcessTransactionHoldApply(m)
      PROVE  Acknowledges(m, TransactionOf(m), "trJoined",
              {InitTx(Dest[m.tx[1]], m.to, m.tx), InitTx(Dest[m.tx[2]], m.to, m.tx)})
  BY <1>2, <1>3 DEF ProcessTransactionHoldApply, Acknowledges
<1>4. ASSUME ProcessTransactionInitialized(m)
      PROVE  Acknowledges(m, TransactionOf(m), "trHold",
              {Create(Source[m.tx[1]], m.to, m.tx), Create(Source[m.tx[2]], m.to, m.tx)})
  BY <1>2, <1>4 DEF ProcessTransactionInitialized, Acknowledges
<1>5. ASSUME ProcessTransactionCreated(m)
      PROVE  \E tr : Acknowledges(m, tr, "trInitialized",
              {Sign(Dest[m.tx[1]], m.to, m.tx, tr.rawrevtx2),
               Sign(Dest[m.tx[2]], m.to, m.tx, tr.rawrevtx1)})
  <2>1. m.rev \in RawRevTx
    BY <1>1, <1>5, PacketFields DEF ProcessTransactionCreated
  <2> QED
    BY <1>2, <1>5, <2>1 DEF ProcessTransactionCreated, Acknowledges
<1>6. ASSUME ProcessTransactionSigned(m)
      PROVE  \E tr : Acknowledges(m, tr, "trCreated",
              {Commit(Source[m.tx[1]], m.to, m.tx, tr.rawrevtx1),
               Commit(Source[m.tx[2]], m.to, m.tx, tr.rawrevtx2)})
  <2>1. m.rev \in RawRevTx
    BY <1>1, <1>6, PacketFields DEF ProcessTransactionSigned
  <2> QED
    BY <1>2, <1>6, <2>1 DEF ProcessTransactionSigned, Acknowledges
<1>7. ASSUME ProcessTransactionCommited(m)
      PROVE  \E tr : Acknowledges(m, tr, "trSigned",
              {ConfirmTx(Dest[m.tx[1]], m.to, m.tx, tr.txhash2),
               ConfirmTx(Dest[m.tx[2]], m.to, m.tx, tr.txhash1)})
  <2>1. m.hash \in TxHash
    BY <1>1, <1>7, PacketFields DEF ProcessTransactionCommited
  <2> QED
    BY <1>2, <1>7, <2>1 DEF ProcessTransactionCommited, Acknowledges
<1>8. ASSUME ProcessTransactionConfirmed(m)
      PROVE  Acknowledges(m, TransactionOf(m), "trCommited", FinishedAll(m.to, m.tx))
  BY <1>2, <1>8 DEF ProcessTransactionConfirmed, Acknowledges
<1> QED
  BY <1>3, <1>4, <1>5, <1>6, <1>7, <1>8

-----------------------------------------------------------------------------
(***************************************************************************)
(* Steps of the hub.  They pay nothing and apply for nothing, so what is   *)
(* left to see is what the packets they send and the record they write     *)
(* stand for.                                                              *)
(***************************************************************************)
LEMMA HubFrame ==
    ASSUME SwapInv, UNCHANGED clientVars, NEW ms, net' = net \cup ms,
           \A m \in ms : m.type \notin {"HoldApply", "Commited"}
    PROVE  /\ OwnPayments' /\ NoPaymentBeforeBothSigned'
           /\ AppliedMeansNotPending' /\ OneSwapPerOrder'
           /\ CommitedMeansPaid => CommitedMeansPaid'
<1>1. paid' = paid /\ placed' = placed /\ pending' = pending /\ swaps' = swaps
  BY DEF clientVars
<1>2. OwnPayments'
  BY <1>1 DEF SwapInv, OwnPayments
<1>3. NoPaymentBeforeBothSigned'
  BY <1>1, PaymentFrame DEF SwapInv
<1>4. AppliedMeansNotPending' /\ OneSwapPerOrder'
  BY <1>1, AppliedFrame DEF SwapInv
<1>5. CommitedMeansPaid => CommitedMeansPaid'
  BY <1>1, NetFrame
<1> QED
  BY <1>2, <1>3, <1>4, <1>5

\* A step that leaves every record steady and sends nothing but packets that
\* stand for nothing.
LEMMA QuietHubStep ==
    ASSUME SwapInv, TypeOK', UNCHANGED clientVars, NEW ms, net' = net \cup ms,
           \A m \in ms : m.type \in {"Init", "Sign", "Confirm", "Rollback", "Cancel"},
           \A h \in Hubs, id \in TxIds : Steady(h, id)
    PROVE  SwapInv' /\ (PaymentInv => PaymentInv')
<1>1. paid' = paid
  BY DEF clientVars
<1>2. HoldsAddressed' /\ CoinOrdersAddressed' /\ CommitMeansSigned'
  BY <1>1, NetFrame DEF SwapInv
<1>3. PhaseMeansSigned' /\ (PhaseMeansPaid => PhaseMeansPaid')
  BY <1>1, RecordFrame DEF SwapInv
<1>4. FinishedMeansBothPaid => FinishedMeansBothPaid'
  BY <1>1, NetFrame
<1>5. /\ OwnPayments' /\ NoPaymentBeforeBothSigned'
      /\ AppliedMeansNotPending' /\ OneSwapPerOrder'
      /\ CommitedMeansPaid => CommitedMeansPaid'
  BY HubFrame
<1> QED
  BY <1>2, <1>3, <1>4, <1>5 DEF SwapInv, PaymentInv

LEMMA TwoPartyIds ==
    ASSUME NEW id \in TxIds
    PROVE  id[1] \in Orders /\ id[2] \in Orders
BY DEF TxIds

LEMMA ProcessTransactionInv ==
    ASSUME SwapInv, TypeOK', UNCHANGED clientVars, NEW m \in net, ProcessTransaction(m)
    PROVE  SwapInv' /\ (PaymentInv => PaymentInv')
<1>0. m.to \in Hubs /\ m.order \in Orders
  BY PacketFields DEF ProcessTransaction, SwapInv, TypeOK, PacketsTypeOK
<1>1. CASE UNCHANGED transactions /\ Deliver(m, {})
  <2> DEFINE ms == {}
  <2>1. net' = net \cup ms
        /\ \A n \in ms : n.type \in {"Init", "Sign", "Confirm", "Rollback", "Cancel"}
    BY <1>1 DEF Deliver
  <2>2. \A h \in Hubs, id \in TxIds : Steady(h, id)
    BY <1>1 DEF Steady
  <2> HIDE DEF ms
  <2> QED
    BY <2>1, <2>2, QuietHubStep
<1>2. ASSUME NEW other \in Orders, Join(m.to, other, m.order),
             Deliver(m, {Hold(Source[other], m.to, other, <<other, m.order>>),
                         Hold(Source[m.order], m.to, m.order, <<other, m.order>>)})
      PROVE  SwapInv' /\ (PaymentInv => PaymentInv')
  <2> DEFINE ms == {Hold(Source[other], m.to, other, <<other, m.order>>),
                    Hold(Source[m.order], m.to, m.order, <<other, m.order>>)}
  <2>1. net' = net \cup ms /\ paid' = paid
    BY <1>2 DEF Deliver, clientVars
  <2>2. \A n \in ms : /\ n.type = "Hold"
                      /\ n.to = Source[n.order] /\ n.order \in {n.tx[1], n.tx[2]}
    BY DEF Hold
  <2> HIDE DEF ms
  <2>3. HoldsAddressed'
    BY <2>1, <2>2 DEF HoldsAddressed, SwapInv
  <2>4. CoinOrdersAddressed' /\ CommitMeansSigned'
        /\ (FinishedMeansBothPaid => FinishedMeansBothPaid')
    BY <2>1, <2>2, NetFrame DEF SwapInv
  <2>5. \A h \in Hubs, id \in TxIds :
          transactions'[h][id] = transactions[h][id] \/ transactions'[h][id] = Joined
    BY <1>0, <1>2 DEF Join, SwapInv, TypeOK, HubTypeOK
  <2>6. \A h \in Hubs, id \in TxIds : Steady(h, id)
    BY <2>5 DEF Steady, Joined, Invalid
  <2>7. PhaseMeansSigned' /\ (PhaseMeansPaid => PhaseMeansPaid')
    BY <2>1, <2>6, RecordFrame DEF SwapInv
  <2>8. /\ OwnPayments' /\ NoPaymentBeforeBothSigned'
        /\ AppliedMeansNotPending' /\ OneSwapPerOrder'
        /\ CommitedMeansPaid => CommitedMeansPaid'
    BY <2>1, <2>2, HubFrame
  <2> QED
    BY <2>3, <2>4, <2>7, <2>8 DEF SwapInv, PaymentInv
<1> QED
  BY <1>1, <1>2 DEF ProcessTransaction, EnterBook

\* Outside the phases of signing and paying a record stays steady.
LEMMA SteadyAcknowledge ==
    ASSUME TypeOK, NEW m, NEW tr, NEW state \in Acknowledged \ {"trCreated", "trSigned"},
           NEW sent, Acknowledges(m, tr, state, sent)
    PROVE  /\ \A h \in Hubs, id \in TxIds : Steady(h, id)
           /\ \/ net' = net \cup {}
              \/ net' = net \cup sent /\ transactions[m.to][m.tx].state = state
<1> DEFINE old == transactions[m.to][m.tx]
           new == transactions'[m.to][m.tx]
<1>1. /\ \A h \in Hubs, i \in TxIds :
            h # m.to \/ i # m.tx => transactions'[h][i] = transactions[h][i]
      /\ \/ /\ net' = net \cup {}
            /\ new.state = old.state
            /\ old.state # state =>
                 /\ new.firstStateChanged = old.firstStateChanged
                 /\ new.secondStateChanged = old.secondStateChanged
         \/ /\ net' = net \cup sent
            /\ old.state = state
            /\ new.state = Successor[state]
            /\ ~new.firstStateChanged /\ ~new.secondStateChanged
  BY AcknowledgeStep
<1>2. Successor[state] \in {"trHold", "trInitialized", "trCreated", "trFinished"}
  BY DEF Successor, Acknowledged
<1>3. Steady(m.to, m.tx)
  BY <1>1, <1>2 DEF Steady
<1>4. \A h \in Hubs, id \in TxIds : Steady(h, id)
  BY <1>1, <1>3 DEF Steady
<1> QED
  BY <1>1, <1>4

LEMMA QuietAcknowledge ==
    ASSUME SwapInv, TypeOK', UNCHANGED clientVars, NEW m, NEW tr,
           NEW state \in Acknowledged \ {"trCreated", "trSigned"}, NEW sent,
           \A n \in sent : n.type \in {"Init", "Sign", "Confirm", "Rollback", "Cancel"},
           Acknowledges(m, tr, state, sent)
    PROVE  SwapInv' /\ (PaymentInv => PaymentInv')
<1>1. TypeOK
  BY DEF SwapInv
<1>2. PICK ms \in {{}, sent} : net' = net \cup ms
  BY <1>1, SteadyAcknowledge
<1>3. \A h \in Hubs, id \in TxIds : Steady(h, id)
  BY <1>1, SteadyAcknowledge
<1>4. \A n \in ms : n.type \in {"Init", "Sign", "Confirm", "Rollback", "Cancel"}
  BY <1>2
<1> QED
  BY <1>2, <1>3, <1>4, QuietHubStep

LEMMA ProcessTransactionInitializedInv ==
    ASSUME SwapInv, TypeOK', UNCHANGED clientVars, NEW m \in net,
           ProcessTransactionInitialized(m)
    PROVE  SwapInv' /\ (PaymentInv => PaymentInv')
<1> DEFINE sent == {Create(Source[m.tx[1]], m.to, m.tx), Create(Source[m.tx[2]], m.to, m.tx)}
<1>1. TypeOK /\ Acknowledges(m, TransactionOf(m), "trHold", sent)
  BY HandlersAcknowledge DEF SwapInv
<1>2. \A n \in sent : n.type = "Create" /\ n.to \in {Source[n.tx[1]], Source[n.tx[2]]}
  BY DEF Create
<1> HIDE DEF sent
<1>3. PICK ms \in {{}, sent} : net' = net \cup ms
  BY <1>1, SteadyAcknowledge DEF Acknowledged
<1>4. \A h \in Hubs, id \in TxIds : Steady(h, id)
  BY <1>1, SteadyAcknowledge DEF Acknowledged
<1>5. paid' = paid /\ \A n \in ms : n.type = "Create" /\ n.to \in {Source[n.tx[1]], Source[n.tx[2]]}
  BY <1>2, <1>3 DEF clientVars
<1>6. CoinOrdersAddressed'
  BY <1>3, <1>5 DEF CoinOrdersAddressed, SwapInv
<1>7. HoldsAddressed' /\ CommitMeansSigned' /\ (FinishedMeansBothPaid => FinishedMeansBothPaid')
  BY <1>3, <1>5, NetFrame DEF SwapInv
<1>8. PhaseMeansSigned' /\ (PhaseMeansPaid => PhaseMeansPaid')
  BY <1>3, <1>4, <1>5, RecordFrame DEF SwapInv
<1>9. /\ OwnPayments' /\ NoPaymentBeforeBothSigned'
      /\ AppliedMeansNotPending' /\ OneSwapPerOrder'
      /\ CommitedMeansPaid => CommitedMeansPaid'
  BY <1>3, <1>5, HubFrame
<1> QED
  BY <1>6, <1>7, <1>8, <1>9 DEF SwapInv, PaymentInv

\* A signature is counted for whom it came from; the second one sends the
\* orders to pay.
LEMMA ProcessTransactionSignedInv ==
    ASSUME SwapInv, TypeOK', UNCHANGED clientVars, NEW m \in net, ProcessTransactionSigned(m)
    PROVE  SwapInv' /\ (PaymentInv => PaymentInv')
<1>1. PICK tr : Acknowledges(m, tr, "trCreated",
                   {Commit(Source[m.tx[1]], m.to, m.tx, tr.rawrevtx1),
                    Commit(Source[m.tx[2]], m.to, m.tx, tr.rawrevtx2)})
  BY HandlersAcknowledge, ZenonT(60) DEF SwapInv
<1> DEFINE h == m.to
           id == m.tx
           old == transactions[h][id]
           new == transactions'[h][id]
           sent == {Commit(Source[id[1]], h, id, tr.rawrevtx1),
                    Commit(Source[id[2]], h, id, tr.rawrevtx2)}
<1>2. \A n \in sent : /\ n.type = "Commit" /\ n.to \in {Source[id[1]], Source[id[2]]}
                      /\ n.hub = h /\ n.tx = id
  BY DEF Commit
<1>3. h \in Hubs /\ id \in TxIds /\ SignedToHub(h, m.from, id) /\ paid' = paid
  BY <1>1 DEF Acknowledges, ProcessTransactionSigned, SignedToHub, clientVars
<1> HIDE DEF sent
<1>4. /\ \A g \in Hubs, i \in TxIds : g # h \/ i # id => transactions'[g][i] = transactions[g][i]
      /\ \/ /\ net' = net \cup {}
            /\ new.state = old.state
            /\ old.state # "trCreated" =>
                 /\ new.firstStateChanged = old.firstStateChanged
                 /\ new.secondStateChanged = old.secondStateChanged
            /\ new.firstStateChanged => old.firstStateChanged \/ m.from = Dest[id[1]]
            /\ new.secondStateChanged => old.secondStateChanged \/ m.from = Dest[id[2]]
         \/ /\ net' = net \cup sent
            /\ old.state = "trCreated"
            /\ new.state = "trSigned"
            /\ ~new.firstStateChanged /\ ~new.secondStateChanged
            /\ old.firstStateChanged \/ m.from = Dest[id[1]]
            /\ old.secondStateChanged \/ m.from = Dest[id[2]]
  BY <1>1, AcknowledgeStep, ZenonT(60) DEF SwapInv, Acknowledged, Successor, AckAddress, sent
<1>5. PICK ms \in {{}, sent} : net' = net \cup ms
  BY <1>4
<1>6. /\ \A g, addr, i : SignedToHub(g, addr, i) => SignedToHub(g, addr, i)'
      /\ \A addr, i : PaidFrom(addr, i) => PaidFrom(addr, i)'
  BY <1>3, <1>5, NetFrame
<1>7. old.state = "trCreated" =>
        /\ old.firstStateChanged => SignedToHub(h, Dest[id[1]], id)
        /\ old.secondStateChanged => SignedToHub(h, Dest[id[2]], id)
  BY <1>3 DEF SwapInv, PhaseMeansSigned
<1>8. PhaseMeansSigned'
  <2> SUFFICES ASSUME NEW g \in Hubs, NEW i \in TxIds, transactions'[g][i].state = "trCreated"
               PROVE  /\ transactions'[g][i].firstStateChanged => SignedToHub(g, Dest[i[1]], i)'
                      /\ transactions'[g][i].secondStateChanged => SignedToHub(g, Dest[i[2]], i)'
    BY DEF PhaseMeansSigned
  <2>1. CASE g = h /\ i = id
    BY <1>3, <1>4, <1>6, <1>7, <2>1
  <2>2. CASE g # h \/ i # id
    BY <1>4, <1>6, <2>2 DEF SwapInv, PhaseMeansSigned
  <2> QED
    BY <2>1, <2>2
<1>9. CommitMeansSigned'
  <2>1. CASE net' = net \cup {}
    BY <1>6, <2>1 DEF SwapInv, CommitMeansSigned
  <2>2. CASE net' = net \cup sent /\ old.state = "trCreated"
    BY <1>2, <1>3, <1>4, <1>6, <1>7, <2>2 DEF SwapInv, CommitMeansSigned
  <2> QED
    BY <1>4, <2>1, <2>2
<1>10. CoinOrdersAddressed'
  BY <1>2, <1>5 DEF SwapInv, CoinOrdersAddressed
<1>11. HoldsAddressed' /\ (FinishedMeansBothPaid => FinishedMeansBothPaid')
  BY <1>2, <1>3, <1>5, NetFrame DEF SwapInv
<1>12. PhaseMeansPaid => PhaseMeansPaid'
  <2>1. \A g \in Hubs, i \in TxIds : transactions'[g][i].state = "trSigned" =>
          \/ ~transactions'[g][i].firstStateChanged /\ ~transactions'[g][i].secondStateChanged
          \/ /\ transactions[g][i].state = "trSigned"
             /\ transactions'[g][i].firstStateChanged = transactions[g][i].firstStateChanged
             /\ transactions'[g][i].secondStateChanged = transactions[g][i].secondStateChanged
    BY <1>4
  <2>2. \A g \in Hubs, i \in TxIds : transactions'[g][i].state \in {"trCommited", "trConfirmed"} =>
          transactions'[g][i].state = transactions[g][i].state
    BY <1>4
  <2> QED
    BY <1>6, <2>1, <2>2 DEF PhaseMeansPaid
<1>13. /\ OwnPayments' /\ NoPaymentBeforeBothSigned'
       /\ AppliedMeansNotPending' /\ OneSwapPerOrder'
       /\ CommitedMeansPaid => CommitedMeansPaid'
  BY <1>2, <1>5, HubFrame
<1> QED
  BY <1>8, <1>9, <1>10, <1>11, <1>12, <1>13 DEF SwapInv, PaymentInv

\* A payment is counted for whom it came from; its sender has paid.
LEMMA ProcessTransactionCommitedInv ==
    ASSUME SwapInv, TypeOK', UNCHANGED clientVars, NEW m \in net, ProcessTransactionCommited(m)
    PROVE  SwapInv' /\ (PaymentInv => PaymentInv')
<1>1. PICK tr : Acknowledges(m, tr, "trSigned",
                   {ConfirmTx(Dest[m.tx[1]], m.to, m.tx, tr.txhash2),
                    ConfirmTx(Dest[m.tx[2]], m.to, m.tx, tr.txhash1)})
  BY HandlersAcknowledge, ZenonT(60) DEF SwapInv
<1> DEFINE h == m.to
           id == m.tx
           old == transactions[h][id]
           new == transactions'[h][id]
           sent == {ConfirmTx(Dest[id[1]], h, id, tr.txhash2),
                    ConfirmTx(Dest[id[2]], h, id, tr.txhash1)}
<1>2. \A n \in sent : n.type = "Confirm"
  BY DEF ConfirmTx
<1>3. h \in Hubs /\ id \in TxIds /\ m.type = "Commited" /\ paid' = paid
  BY <1>1 DEF Acknowledges, ProcessTransactionCommited, clientVars
<1> HIDE DEF sent
<1>4. /\ \A g \in Hubs, i \in TxIds : g # h \/ i # id => transactions'[g][i] = transactions[g][i]
      /\ \/ /\ net' = net \cup {}
            /\ new.state = old.state
            /\ old.state # "trSigned" =>
                 /\ new.firstStateChanged = old.firstStateChanged
                 /\ new.secondStateChanged = old.secondStateChanged
            /\ new.firstStateChanged => old.firstStateChanged \/ m.from = Source[id[1]]
            /\ new.secondStateChanged => old.secondStateChanged \/ m.from = Source[id[2]]
         \/ /\ net' = net \cup sent
            /\ old.state = "trSigned"
            /\ new.state = "trCommited"
            /\ old.firstStateChanged \/ m.from = Source[id[1]]
            /\ old.secondStateChanged \/ m.from = Source[id[2]]
  BY <1>1, AcknowledgeStep, ZenonT(60) DEF SwapInv, Acknowledged, Successor, AckAddress, sent
<1>5. PICK ms \in {{}, sent} : net' = net \cup ms
  BY <1>4
<1>6. /\ \A g, addr, i : SignedToHub(g, addr, i) => SignedToHub(g, addr, i)'
      /\ \A addr, i : PaidFrom(addr, i) => PaidFrom(addr, i)'
  BY <1>3, <1>5, NetFrame
<1>7. /\ HoldsAddressed' /\ CoinOrdersAddressed' /\ CommitMeansSigned'
      /\ FinishedMeansBothPaid => FinishedMeansBothPaid'
  BY <1>2, <1>3, <1>5, NetFrame DEF SwapInv
<1>8. PhaseMeansSigned'
  <2>1. \A g \in Hubs, i \in TxIds : transactions'[g][i].state = "trCreated" =>
          /\ transactions[g][i].state = "trCreated"
          /\ transactions'[g][i].firstStateChanged = transactions[g][i].firstStateChanged
          /\ transactions'[g][i].secondStateChanged = transactions[g][i].secondStateChanged
    BY <1>4
  <2> QED
    BY <1>6, <2>1 DEF SwapInv, PhaseMeansSigned
<1>9. ASSUME CommitedMeansPaid, PhaseMeansPaid
      PROVE  PhaseMeansPaid'
  <2>1. TwoParty(id) => PaidFrom(m.from, id)
    BY <1>3, <1>9 DEF CommitedMeansPaid
  <2>2. TwoParty(id) =>
          /\ old.state = "trSigned" =>
               /\ old.firstStateChanged => PaidFrom(Source[id[1]], id)
               /\ old.secondStateChanged => PaidFrom(Source[id[2]], id)
          /\ old.state = "trCommited" =>
               PaidFrom(Source[id[1]], id) /\ PaidFrom(Source[id[2]], id)
          /\ old.state # "trConfirmed"
    BY <1>3, <1>9 DEF PhaseMeansPaid
  <2>3. ASSUME NEW g \in Hubs, NEW i \in TxIds, g # h \/ i # id
        PROVE  transactions'[g][i] = transactions[g][i]
    BY <1>4, <2>3
  <2>4. TwoParty(id) =>
          /\ new.state = "trSigned" =>
               /\ new.firstStateChanged => PaidFrom(Source[id[1]], id)'
               /\ new.secondStateChanged => PaidFrom(Source[id[2]], id)'
          /\ new.state = "trCommited" =>
               PaidFrom(Source[id[1]], id)' /\ PaidFrom(Source[id[2]], id)'
          /\ new.state # "trConfirmed"
    BY <1>4, <1>6, <2>1, <2>2
  <2> QED
    BY <1>6, <1>9, <2>3, <2>4 DEF PhaseMeansPaid, TwoParty
<1>10. /\ OwnPayments' /\ NoPaymentBeforeBothSigned'
       /\ AppliedMeansNotPending' /\ OneSwapPerOrder'
       /\ CommitedMeansPaid => CommitedMeansPaid'
  BY <1>2, <1>5, HubFrame
<1> QED
  BY <1>7, <1>8, <1>9, <1>10 DEF SwapInv, PaymentInv

\* The swap is announced finished from a phase in which both have paid.
LEMMA ProcessTransactionConfirmedInv ==
    ASSUME SwapInv, TypeOK', UNCHANGED clientVars, NEW m \in net, ProcessTransactionConfirmed(m)
    PROVE  SwapInv' /\ (PaymentInv => PaymentInv')
<1>1. TypeOK /\ Acknowledges(m, TransactionOf(m), "trCommited", FinishedAll(m.to, m.tx))
  BY HandlersAcknowledge DEF SwapInv
<1>2. \A n \in FinishedAll(m.to, m.tx) : n.type = "Finished" /\ n.tx = m.tx
  BY DEF FinishedAll, Finished
<1>3. m.to \in Hubs /\ m.tx \in TxIds /\ paid' = paid
  BY <1>1 DEF Acknowledges, clientVars
<1>4. /\ \A h \in Hubs, id \in TxIds : Steady(h, id)
      /\ \/ net' = net \cup {}
         \/ net' = net \cup FinishedAll(m.to, m.tx) /\ transactions[m.to][m.tx].state = "trCommited"
  BY <1>1, SteadyAcknowledge DEF Acknowledged
<1>5. PICK ms \in {{}, FinishedAll(m.to, m.tx)} : net' = net \cup ms
  BY <1>4
<1>6. HoldsAddressed' /\ CoinOrdersAddressed' /\ CommitMeansSigned'
  BY <1>2, <1>3, <1>5, NetFrame DEF SwapInv
<1>7. PhaseMeansSigned' /\ (PhaseMeansPaid => PhaseMeansPaid')
  BY <1>3, <1>4, <1>5, RecordFrame DEF SwapInv
<1>8. ASSUME PhaseMeansPaid, FinishedMeansBothPaid
      PROVE  FinishedMeansBothPaid'
  <2>1. CASE net' = net \cup {}
    BY <1>3, <1>8, <2>1 DEF FinishedMeansBothPaid, PaidFrom
  <2>2. CASE net' = net \cup FinishedAll(m.to, m.tx)
             /\ transactions[m.to][m.tx].state = "trCommited"
    <3>1. TwoParty(m.tx) => PaidFrom(Source[m.tx[1]], m.tx) /\ PaidFrom(Source[m.tx[2]], m.tx)
      BY <1>3, <1>8, <2>2 DEF PhaseMeansPaid
    <3> QED
      BY <1>2, <1>3, <1>8, <2>2, <3>1 DEF FinishedMeansBothPaid, PaidFrom
  <2> QED
    BY <1>4, <2>1, <2>2
<1>9. /\ OwnPayments' /\ NoPaymentBeforeBothSigned'
      /\ AppliedMeansNotPending' /\ OneSwapPerOrder'
      /\ CommitedMeansPaid => CommitedMeansPaid'
  BY <1>2, <1>5, HubFrame
<1> QED
  BY <1>6, <1>7, <1>8, <1>9 DEF SwapInv, PaymentInv

LEMMA HubReceivesInv ==
    ASSUME SwapInv, TypeOK', HubReceives
    PROVE  SwapInv' /\ (PaymentInv => PaymentInv')
<1>1. PICK m \in Deliverable :
        \/ ProcessTransaction(m)
        \/ ProcessTransactionHoldApply(m)
        \/ ProcessTransactionInitialized(m)
        \/ ProcessTransactionCreated(m)
        \/ ProcessTransactionSigned(m)
        \/ ProcessTransactionCommited(m)
        \/ ProcessTransactionConfirmed(m)
        \/ ProcessTransactionCancelAtHub(m)
  BY DEF HubReceives, HubReceive
<1>2. m \in net /\ TypeOK /\ UNCHANGED clientVars
  BY DEF Deliverable, SwapInv, HubReceives
<1>3. CASE ProcessTransactionHoldApply(m)
  <2> DEFINE sent == {InitTx(Dest[m.tx[1]], m.to, m.tx), InitTx(Dest[m.tx[2]], m.to, m.tx)}
  <2>1. \A n \in sent : n.type = "Init"
    BY DEF InitTx
  <2>2. Acknowledges(m, TransactionOf(m), "trJoined", sent)
    BY <1>2, <1>3, HandlersAcknowledge
  <2> HIDE DEF sent
  <2> QED
    BY <1>2, <2>1, <2>2, QuietAcknowledge DEF Acknowledged
<1>4. CASE ProcessTransactionCreated(m)
  <2>1. PICK tr : Acknowledges(m, tr, "trInitialized",
                     {Sign(Dest[m.tx[1]], m.to, m.tx, tr.rawrevtx2),
                      Sign(Dest[m.tx[2]], m.to, m.tx, tr.rawrevtx1)})
    BY <1>2, <1>4, HandlersAcknowledge
  <2> DEFINE sent == {Sign(Dest[m.tx[1]], m.to, m.tx, tr.rawrevtx2),
                      Sign(Dest[m.tx[2]], m.to, m.tx, tr.rawrevtx1)}
  <2>2. \A n \in sent : n.type = "Sign"
    BY DEF Sign
  <2>3. Acknowledges(m, tr, "trInitialized", sent)
    BY <2>1
  <2> HIDE DEF sent
  <2> QED
    BY <1>2, <2>2, <2>3, QuietAcknowledge DEF Acknowledged
<1>5. CASE ProcessTransactionCancelAtHub(m)
  <2> DEFINE ms == {}
  <2>1. net' = net \cup ms
        /\ \A n \in ms : n.type \in {"Init", "Sign", "Confirm", "Rollback", "Cancel"}
    BY <1>5 DEF ProcessTransactionCancelAtHub, Deliver
  <2>2. \A h \in Hubs, id \in TxIds : Steady(h, id)
    BY <1>5 DEF ProcessTransactionCancelAtHub, Steady
  <2> HIDE DEF ms
  <2> QED
    BY <1>2, <2>1, <2>2, QuietHubStep
<1> QED
  BY <1>1, <1>2, <1>3, <1>4, <1>5, ProcessTransactionInv, ProcessTransactionInitializedInv,
     ProcessTransactionSignedInv, ProcessTransactionCommitedInv, ProcessTransactionConfirmedInv

\* Nothing is sent, and every record stays as it is or starts or ends.
LEMMA SilentHubStep ==
    ASSUME SwapInv, TypeOK', UNCHANGED <<netVars, clientVars>>,
           \A h \in Hubs, id \in TxIds : Steady(h, id)
    PROVE  SwapInv' /\ (PaymentInv => PaymentInv')
<1> DEFINE ms == {}
<1>1. net' = net \cup ms
      /\ \A n \in ms : n.type \in {"Init", "Sign", "Confirm", "Rollback", "Cancel"}
  BY DEF netVars
<1> HIDE DEF ms
<1> QED
  BY <1>1, QuietHubStep

LEMMA HubTimersInv ==
    ASSUME SwapInv, TypeOK', HubTimers
    PROVE  SwapInv' /\ (PaymentInv => PaymentInv')
<1>0. TypeOK /\ UNCHANGED clientVars
  BY DEF SwapInv, HubTimers
<1>1. ASSUME NEW h \in Hubs, NEW id \in TxIds, FinishTransaction(h, id)
      PROVE  SwapInv' /\ (PaymentInv => PaymentInv')
  <2>1. \A g \in Hubs, i \in TxIds : Steady(g, i)
    BY <1>0, <1>1 DEF FinishTransaction, Steady, TypeOK, HubTypeOK, Record
  <2>2. \A n \in FinishedAll(h, id) : n.type = "Finished" /\ n.tx = id
    BY DEF FinishedAll, Finished
  <2>3. net' = net \cup FinishedAll(h, id) /\ paid' = paid
    BY <1>0, <1>1 DEF FinishTransaction, Send, clientVars
  <2>4. HoldsAddressed' /\ CoinOrdersAddressed' /\ CommitMeansSigned'
    BY <2>2, <2>3, NetFrame DEF SwapInv
  <2>5. PhaseMeansSigned' /\ (PhaseMeansPaid => PhaseMeansPaid')
    BY <2>1, <2>3, RecordFrame DEF SwapInv
  <2>6. /\ OwnPayments' /\ NoPaymentBeforeBothSigned'
        /\ AppliedMeansNotPending' /\ OneSwapPerOrder'
        /\ CommitedMeansPaid => CommitedMeansPaid'
    BY <1>0, <2>2, <2>3, HubFrame
  <2>7. PhaseMeansPaid => ~TwoParty(id)
    BY <1>1 DEF FinishTransaction, PhaseMeansPaid
  <2>8. PhaseMeansPaid /\ FinishedMeansBothPaid => FinishedMeansBothPaid'
    BY <2>2, <2>3, <2>7 DEF FinishedMeansBothPaid, PaidFrom
  <2> QED
    BY <2>4, <2>5, <2>6, <2>8 DEF SwapInv, PaymentInv
<1>2. ASSUME NEW h \in Hubs, NEW id \in TxIds, DeleteTransaction(h, id)
      PROVE  SwapInv' /\ (PaymentInv => PaymentInv')
  <2>1. \A g \in Hubs, i \in TxIds : Steady(g, i)
    BY <1>0, <1>2 DEF DeleteTransaction, Steady, Invalid, TypeOK, HubTypeOK
  <2> QED
    BY <1>0, <1>2, <2>1, SilentHubStep DEF DeleteTransaction
<1>3. ASSUME NEW h \in Hubs, NEW id \in TxIds, RollbackTransaction(h, id)
      PROVE  SwapInv' /\ (PaymentInv => PaymentInv')
  <2>1. \A g \in Hubs, i \in TxIds : Steady(g, i)
    BY <1>0, <1>3 DEF RollbackTransaction, Steady, TypeOK, HubTypeOK, Record
  <2>2. PICK ms : /\ net' = net \cup ms
                  /\ \A n \in ms : n \in CancelAll(id) \/ n = Rollback(Source[id[1]], h, id)
                                   \/ n = Rollback(Source[id[2]], h, id)
    BY <1>3 DEF RollbackTransaction, Send
  <2>3. \A n \in ms : n.type \in {"Init", "Sign", "Confirm", "Rollback", "Cancel"}
    BY <2>2 DEF CancelAll, Cancel, Rollback
  <2> QED
    BY <1>0, <2>1, <2>2, <2>3, QuietHubStep
<1>4. ASSUME NEW h \in Hubs, NEW k \in Key, EraseExpiredPendingTransaction(h, k)
      PROVE  SwapInv' /\ (PaymentInv => PaymentInv')
  <2>1. \A g \in Hubs, i \in TxIds : Steady(g, i)
    BY <1>4 DEF EraseExpiredPendingTransaction, Steady
  <2> QED
    BY <1>0, <1>4, <2>1, SilentHubStep DEF EraseExpiredPendingTransaction
<1> QED
  BY <1>1, <1>2, <1>3, <1>4 DEF HubTimers, HubTimer, CheckFinishedTransaction

LEMMA TimePassesInv ==
    ASSUME SwapInv, TypeOK', TimePasses
    PROVE  SwapInv' /\ (PaymentInv => PaymentInv')
<1>0. TypeOK /\ UNCHANGED <<netVars, clientVars>>
  BY DEF SwapInv, TimePasses, Expire, ExpireOffer
<1>1. ASSUME NEW h \in Hubs, NEW id \in TxIds, Expire(h, id)
      PROVE  \A g \in Hubs, i \in TxIds : Steady(g, i)
  <2> DEFINE tr == [transactions[h][id] EXCEPT !.listed = TRUE]
  <2>1. transactions' = [transactions EXCEPT ![h][id] = tr]
    BY <1>1 DEF Expire
  <2>2. transactions[h][id] \in Record
    BY <1>0 DEF TypeOK, HubTypeOK
  <2>3. /\ tr.state = transactions[h][id].state
        /\ tr.firstStateChanged = transactions[h][id].firstStateChanged
        /\ tr.secondStateChanged = transactions[h][id].secondStateChanged
    BY <2>2 DEF Record
  <2> HIDE DEF tr
  <2> QED
    BY <1>0, <2>1, <2>3 DEF Steady, TypeOK, HubTypeOK
<1>2. ASSUME NEW h \in Hubs, NEW k \in Key, ExpireOffer(h, k)
      PROVE  \A g \in Hubs, i \in TxIds : Steady(g, i)
  BY <1>2 DEF ExpireOffer, Steady
<1> QED
  BY <1>0, <1>1, <1>2, SilentHubStep DEF TimePasses

LEMMA HubRestartInv ==
    ASSUME SwapInv, TypeOK', UNCHANGED clientVars, NEW h \in Hubs, HubRestart(h)
    PROVE  SwapInv' /\ (PaymentInv => PaymentInv')
<1>1. \A g \in Hubs, i \in TxIds : Steady(g, i)
  BY DEF HubRestart, Steady, Invalid, SwapInv, TypeOK, HubTypeOK
<1> QED
  BY <1>1, SilentHubStep DEF HubRestart

\* A report may confirm a swap nobody has paid for: of PaymentInv nothing is left.
LEMMA UpdateTransactionInv ==
    ASSUME SwapInv, TypeOK', UNCHANGED clientVars, NEW h \in Hubs, NEW hash \in paid,
           UpdateTransaction(h, hash)
    PROVE  SwapInv' /\ HubWalletReports
<1> DEFINE ms == {}
<1>1. net' = net \cup ms /\ (\A n \in ms : n.type \in {"Cancel"}) /\ paid' = paid
  BY DEF UpdateTransaction, netVars, clientVars
<1> HIDE DEF ms
<1>2. HoldsAddressed' /\ CoinOrdersAddressed' /\ CommitMeansSigned'
  BY <1>1, NetFrame DEF SwapInv
<1>3. /\ OwnPayments' /\ NoPaymentBeforeBothSigned'
      /\ AppliedMeansNotPending' /\ OneSwapPerOrder'
  BY <1>1, HubFrame
<1>4. \A g \in Hubs, i \in TxIds : \/ transactions'[g][i] = transactions[g][i]
                                   \/ \E found : transactions'[g][i] = Confirm(transactions[g][i], found)
  BY DEF UpdateTransaction, SwapInv, TypeOK, HubTypeOK
<1>5. ASSUME NEW g \in Hubs, NEW i \in TxIds, transactions'[g][i].state = "trCreated"
      PROVE  /\ transactions[g][i].state = "trCreated"
             /\ transactions'[g][i].firstStateChanged = transactions[g][i].firstStateChanged
             /\ transactions'[g][i].secondStateChanged = transactions[g][i].secondStateChanged
  <2> DEFINE old == transactions[g][i]
  <2>1. old \in Record
    BY DEF SwapInv, TypeOK, HubTypeOK
  <2>2. \A found : /\ Confirm(old, found).state \in {old.state, "trConfirmed"}
                   /\ Confirm(old, found).firstStateChanged = old.firstStateChanged
                   /\ Confirm(old, found).secondStateChanged = old.secondStateChanged
    BY <2>1 DEF Confirm, Record
  <2> QED
    BY <1>4, <1>5, <2>2
<1>6. PhaseMeansSigned'
  BY <1>1, <1>5, NetFrame DEF SwapInv, PhaseMeansSigned
<1> QED
  BY <1>2, <1>3, <1>6 DEF SwapInv, UpdateTransaction

-----------------------------------------------------------------------------
(***************************************************************************)
(* Steps of the clients.  They write no record and ask nobody to pay.      *)
(***************************************************************************)
LEMMA ClientFrame ==
    ASSUME SwapInv, UNCHANGED hubVars, NEW ms, net' = net \cup ms, paid \subseteq paid',
           \A m \in ms : m.type \notin {"Hold", "Create", "Commit", "Finished"}
    PROVE  /\ HoldsAddressed' /\ CoinOrdersAddressed' /\ CommitMeansSigned' /\ PhaseMeansSigned'
           /\ PhaseMeansPaid => PhaseMeansPaid'
           /\ FinishedMeansBothPaid => FinishedMeansBothPaid'
<1>1. \A h \in Hubs, id \in TxIds : Steady(h, id)
  BY DEF hubVars, Steady
<1> QED
  BY <1>1, NetFrame, RecordFrame DEF SwapInv

\* Nobody pays or applies, and a descriptor's payment is kept or forgotten.
LEMMA QuietClientStep ==
    ASSUME SwapInv, TypeOK', UNCHANGED hubVars, NEW ms, net' = net \cup ms, paid' = paid,
           \A m \in ms : m.type \in {"Transaction", "Initialized", "Created", "Signed",
                                     "Confirmed", "Cancel"},
           placed \ pending \subseteq placed' \ pending',
           \A a \in Apps, id \in TxIds : swaps'[a][id].payTx \in {swaps[a][id].payTx, NoPayment}
    PROVE  SwapInv' /\ (PaymentInv => PaymentInv')
<1>1. /\ HoldsAddressed' /\ CoinOrdersAddressed' /\ CommitMeansSigned' /\ PhaseMeansSigned'
      /\ PhaseMeansPaid => PhaseMeansPaid'
      /\ FinishedMeansBothPaid => FinishedMeansBothPaid'
  BY ClientFrame
<1>2. NoPaymentBeforeBothSigned' /\ (CommitedMeansPaid => CommitedMeansPaid')
  BY PaymentFrame, NetFrame DEF SwapInv
<1>3. OwnPayments'
  BY DEF SwapInv, OwnPayments
<1>4. AppliedMeansNotPending' /\ OneSwapPerOrder'
  BY AppliedFrame DEF SwapInv
<1> QED
  BY <1>1, <1>2, <1>3, <1>4 DEF SwapInv, PaymentInv

\* Of the two orders of a swap between two programs, at most one pays from a
\* given address, and at most one is a given program's.
LEMMA TwoPartySources ==
    ASSUME NEW id \in TxIds, TwoParty(id),
           NEW o \in {id[1], id[2]}, NEW p \in {id[1], id[2]}, Owner[Source[o]] = Owner[Source[p]]
    PROVE  o = p
BY DEF TwoParty, AppOf

\* An application takes its order out of the client's list, so that there is
\* never a second one.
LEMMA ProcessTransactionHoldInv ==
    ASSUME SwapInv, TypeOK', UNCHANGED hubVars, NEW m \in net, NEW a \in Apps,
           ProcessTransactionHold(a, m)
    PROVE  SwapInv' /\ (PaymentInv => PaymentInv')
<1>0. /\ m.type = "Hold" /\ m.order \in Orders /\ m.tx \in TxIds
      /\ m.to = Source[m.order] /\ m.order \in {m.tx[1], m.tx[2]}
      /\ swaps \in [Apps -> [TxIds -> Descr]] /\ pending \subseteq placed
      /\ UNCHANGED <<placed, built, paid, reverted>>
  BY PacketFields DEF ProcessTransactionHold, SwapInv, HoldsAddressed, TypeOK,
                      PacketsTypeOK, ClientTypeOK
<1>1. CASE /\ m.order \in pending
           /\ AppOf(m.order) = a
           /\ pending' = pending \ {m.order}
           /\ swaps' = [swaps EXCEPT ![a][m.tx] =
                           [NewDescr EXCEPT !.state = "trHold", !.id = m.order]]
           /\ Deliver(m, {HoldApply(m.hub, m.to, m.tx)})
  <2> DEFINE new == HoldApply(m.hub, m.to, m.tx)
             ms == {new}
  <2>1. net' = net \cup ms /\ \A n \in ms : n.type = "HoldApply" /\ n = new
    BY <1>1 DEF Deliver, HoldApply
  <2>2. new.type = "HoldApply" /\ new.from = Source[m.order] /\ new.tx = m.tx
    BY <1>0 DEF HoldApply
  <2> HIDE DEF new, ms
  <2>3. /\ HoldsAddressed' /\ CoinOrdersAddressed' /\ CommitMeansSigned' /\ PhaseMeansSigned'
        /\ PhaseMeansPaid => PhaseMeansPaid'
        /\ FinishedMeansBothPaid => FinishedMeansBothPaid'
    BY <1>0, <2>1, ClientFrame
  <2>4. NoPaymentBeforeBothSigned' /\ (CommitedMeansPaid => CommitedMeansPaid')
    BY <1>0, <2>1, PaymentFrame, NetFrame DEF SwapInv
  <2>5. [NewDescr EXCEPT !.state = "trHold", !.id = m.order].payTx = NoPayment
    BY DEF NewDescr
  <2>6. OwnPayments'
    BY <1>0, <1>1, <2>5 DEF SwapInv, OwnPayments
  <2>7. ASSUME NEW o \in Orders, AcceptedFor(new, o)
        PROVE  o = m.order
    BY <1>0, <2>2, <2>7, TwoPartySources DEF AcceptedFor
  <2>8. m.order \in placed \ pending'
    BY <1>0, <1>1
  <2>9. \A n \in net : \A o \in Orders : n.type = "HoldApply" /\ AcceptedFor(n, o) =>
          o \in placed \ pending /\ o # m.order
    BY <1>1 DEF SwapInv, AppliedMeansNotPending
  <2>10. AppliedMeansNotPending'
    BY <1>0, <1>1, <2>1, <2>7, <2>8, <2>9 DEF AppliedMeansNotPending, AcceptedFor, TwoParty, AppOf
  <2>11. OneSwapPerOrder'
    BY <2>1, <2>7, <2>9 DEF SwapInv, OneSwapPerOrder, AcceptedFor, TwoParty, AppOf
  <2> QED
    BY <2>3, <2>4, <2>6, <2>10, <2>11 DEF SwapInv, PaymentInv
<1>2. CASE Deliver(m, {}) /\ UNCHANGED <<pending, swaps>>
  <2> DEFINE ms == {}
  <2>1. net' = net \cup ms /\ \A n \in ms : n.type \in {"Cancel"}
    BY <1>2 DEF Deliver
  <2> HIDE DEF ms
  <2> QED
    BY <1>0, <1>2, <2>1, QuietClientStep
<1> QED
  BY <1>1, <1>2 DEF ProcessTransactionHold

\* A payment is built for the swap it is asked for, from one side's address.
LEMMA ProcessTransactionCreateInv ==
    ASSUME SwapInv, TypeOK', UNCHANGED hubVars, NEW m \in net, NEW a \in Apps, a = Receiver(m),
           ProcessTransactionCreate(a, m)
    PROVE  SwapInv' /\ (PaymentInv => PaymentInv')
<1>0. /\ m.type = "Create" /\ m.tx \in TxIds /\ m.to \in Addrs
      /\ m.to \in {Source[m.tx[1]], Source[m.tx[2]]}
      /\ swaps \in [Apps -> [TxIds -> Descr]]
      /\ UNCHANGED <<placed, pending, paid, reverted>>
  BY PacketFields DEF ProcessTransactionCreate, SwapInv, CoinOrdersAddressed, TypeOK,
                      PacketsTypeOK, ClientTypeOK
<1>1. a = Owner[m.to]
  BY <1>0, NodeAssumption DEF Receiver
<1>2. PICK ms : /\ net' = net \cup ms
                /\ \A n \in ms : n.type \in {"Created", "Cancel"}
  <2>1. \/ \E rev : Deliver(m, {Created(m.hub, m.to, m.tx, rev)})
        \/ Deliver(m, CancelAll(m.tx))
    BY DEF ProcessTransactionCreate
  <2>2. \A rev : \A n \in {Created(m.hub, m.to, m.tx, rev)} : n.type = "Created"
    BY DEF Created
  <2>3. \A n \in CancelAll(m.tx) : n.type = "Cancel"
    BY DEF CancelAll, Cancel
  <2> QED
    BY <2>1, <2>2, <2>3 DEF Deliver
<1>3. CASE UNCHANGED swaps
  BY <1>0, <1>2, <1>3, QuietClientStep
<1>4. ASSUME NEW d \in Descr, swaps' = [swaps EXCEPT ![a][m.tx] = d],
             NEW pay, BuildPayment(a, m, pay), d.payTx = pay
      PROVE  SwapInv' /\ (PaymentInv => PaymentInv')
  <2>1. pay[1] = m.to /\ pay[2] = m.tx
    BY <1>4 DEF BuildPayment
  <2>2. OwnPayments'
    BY <1>0, <1>1, <1>4, <2>1 DEF SwapInv, OwnPayments
  <2>3. /\ HoldsAddressed' /\ CoinOrdersAddressed' /\ CommitMeansSigned' /\ PhaseMeansSigned'
        /\ PhaseMeansPaid => PhaseMeansPaid'
        /\ FinishedMeansBothPaid => FinishedMeansBothPaid'
    BY <1>0, <1>2, ClientFrame
  <2>4. NoPaymentBeforeBothSigned' /\ (CommitedMeansPaid => CommitedMeansPaid')
    BY <1>0, <1>2, PaymentFrame, NetFrame DEF SwapInv
  <2>5. AppliedMeansNotPending' /\ OneSwapPerOrder'
    BY <1>0, <1>2, AppliedFrame DEF SwapInv
  <2> QED
    BY <2>2, <2>3, <2>4, <2>5 DEF SwapInv, PaymentInv
<1>5. ASSUME NEW pay \in Payments, BuildPayment(a, m, pay), NEW rev \in RawRevTx,
             \/ swaps' = [swaps EXCEPT ![a][m.tx] =
                   [swaps[a][m.tx] EXCEPT !.state = "trCreated", !.payTxId = pay,
                                          !.payTx = pay, !.revTx = rev]]
             \/ swaps' = [swaps EXCEPT ![a][m.tx] =
                   [swaps[a][m.tx] EXCEPT !.payTxId = pay, !.payTx = pay]]
      PROVE  SwapInv' /\ (PaymentInv => PaymentInv')
  <2>1. swaps[a][m.tx] \in Descr
    BY <1>0
  <2> DEFINE d == [swaps[a][m.tx] EXCEPT !.state = "trCreated", !.payTxId = pay,
                                         !.payTx = pay, !.revTx = rev]
             e == [swaps[a][m.tx] EXCEPT !.payTxId = pay, !.payTx = pay]
  <2>2. d \in Descr /\ d.payTx = pay
    BY <1>5, <2>1 DEF Descr, DescrState, TxHash
  <2>3. e \in Descr /\ e.payTx = pay
    BY <1>5, <2>1 DEF Descr, TxHash
  <2>4. swaps' = [swaps EXCEPT ![a][m.tx] = d] \/ swaps' = [swaps EXCEPT ![a][m.tx] = e]
    BY <1>5
  <2> HIDE DEF d, e
  <2> QED
    BY <1>4, <1>5, <2>2, <2>3, <2>4
<1>6. \A pay \in Payments : [spends |-> pay, signed |-> FALSE] \in RawRevTx
  BY DEF RawRevTx, TxHash
<1>7. NoRevTx \in RawRevTx
  BY InvalidType
<1> QED
  BY <1>3, <1>5, <1>6, <1>7 DEF ProcessTransactionCreate

\* The payment sent out was built for this swap, by the side the order to pay
\* names, and both sides have signed.
LEMMA ProcessTransactionCommitInv ==
    ASSUME SwapInv, TypeOK', UNCHANGED hubVars, NEW m \in net, NEW a \in Apps, a = Receiver(m),
           ProcessTransactionCommit(a, m)
    PROVE  SwapInv' /\ (PaymentInv => PaymentInv')
<1>0. /\ m.type = "Commit" /\ m.tx \in TxIds /\ m.to \in Addrs /\ m.hub \in Hubs
      /\ m.to \in {Source[m.tx[1]], Source[m.tx[2]]}
      /\ swaps \in [Apps -> [TxIds -> Descr]]
      /\ UNCHANGED <<placed, pending, built, reverted>>
  BY PacketFields DEF ProcessTransactionCommit, SwapInv, CoinOrdersAddressed, TypeOK,
                      PacketsTypeOK, ClientTypeOK
<1>1. a = Owner[m.to]
  BY <1>0, NodeAssumption DEF Receiver
<1> DEFINE d == [swaps[a][m.tx] EXCEPT !.revTx = m.rev]
           pay == d.payTx
           new == Commited(m.hub, m.to, m.tx, d.payTxId)
<1>2. swaps[a][m.tx] \in Descr
  BY <1>0
<1>3. pay = swaps[a][m.tx].payTx /\ [d EXCEPT !.state = "trCommited"].payTx = pay
  BY <1>2 DEF Descr
<1>4. CASE Deliver(m, {}) /\ UNCHANGED paid /\ swaps' = [swaps EXCEPT ![a][m.tx] = d]
  <2> DEFINE ms == {}
  <2>1. net' = net \cup ms /\ \A n \in ms : n.type \in {"Cancel"}
    BY <1>4 DEF Deliver
  <2> HIDE DEF ms, d
  <2>2. \A b \in Apps, id \in TxIds : swaps'[b][id].payTx = swaps[b][id].payTx
    BY <1>0, <1>3, <1>4
  <2> QED
    BY <1>0, <1>4, <2>1, <2>2, QuietClientStep
<1>5. CASE /\ pay # NoPayment
           /\ paid' = paid \cup {pay}
           /\ swaps' = [swaps EXCEPT ![a][m.tx] = [d EXCEPT !.state = "trCommited"]]
           /\ Deliver(m, {new})
  <2> DEFINE ms == {new}
  <2>1. net' = net \cup ms
        /\ \A n \in ms : n.type = "Commited" /\ n.from = m.to /\ n.tx = m.tx
    BY <1>5 DEF Deliver, Commited
  <2>2. pay[2] = m.tx /\ Owner[pay[1]] = a /\ pay[1] \in {Source[m.tx[1]], Source[m.tx[2]]}
    BY <1>0, <1>3, <1>5 DEF SwapInv, OwnPayments
  <2>3. \A b \in Apps, id \in TxIds : swaps'[b][id].payTx = swaps[b][id].payTx
    <3> DEFINE e == [d EXCEPT !.state = "trCommited"]
    <3>1. swaps' = [swaps EXCEPT ![a][m.tx] = e] /\ e.payTx = swaps[a][m.tx].payTx
      BY <1>3, <1>5
    <3> HIDE DEF e
    <3> QED
      BY <1>0, <3>1
  <2>4. paid' = paid \cup {pay}
    BY <1>5
  <2> HIDE DEF new, ms, d, pay
  <2>5. /\ HoldsAddressed' /\ CoinOrdersAddressed' /\ CommitMeansSigned' /\ PhaseMeansSigned'
        /\ PhaseMeansPaid => PhaseMeansPaid'
        /\ FinishedMeansBothPaid => FinishedMeansBothPaid'
    BY <2>1, <2>4, ClientFrame
  <2>6. OwnPayments'
    BY <2>3 DEF SwapInv, OwnPayments
  <2>7. AppliedMeansNotPending' /\ OneSwapPerOrder'
    BY <1>0, <2>1, AppliedFrame DEF SwapInv
  <2>8. /\ \A g, addr, i : SignedToHub(g, addr, i) => SignedToHub(g, addr, i)'
        /\ \A addr, i : PaidFrom(addr, i) => PaidFrom(addr, i)'
    BY <2>1, <2>4, NetFrame
  <2>9. NoPaymentBeforeBothSigned'
    <3>1. SignedToHub(m.hub, Dest[m.tx[1]], m.tx) /\ SignedToHub(m.hub, Dest[m.tx[2]], m.tx)
      BY <1>0 DEF SwapInv, CommitMeansSigned
    <3> QED
      BY <1>0, <2>2, <2>4, <2>8, <3>1 DEF SwapInv, NoPaymentBeforeBothSigned
  <2>10. ASSUME CommitedMeansPaid
         PROVE  CommitedMeansPaid'
    <3>1. TwoParty(m.tx) => pay[1] = m.to
      BY <1>0, <1>1, <2>2, TwoPartySources
    <3>2. TwoParty(m.tx) => PaidFrom(m.to, m.tx)'
      BY <2>2, <2>4, <3>1 DEF PaidFrom
    <3> QED
      BY <2>1, <2>8, <2>10, <3>2 DEF CommitedMeansPaid, TwoParty, AppOf
  <2> QED
    BY <2>5, <2>6, <2>7, <2>9, <2>10 DEF SwapInv, PaymentInv
<1> QED
  BY <1>4, <1>5 DEF ProcessTransactionCommit

LEMMA SetStateKeepsPayment ==
    ASSUME TypeOK, NEW a \in Apps, NEW id \in TxIds, NEW state, SetState(a, id, state)
    PROVE  \A b \in Apps, i \in TxIds : swaps'[b][i].payTx = swaps[b][i].payTx
<1> DEFINE d == [swaps[a][id] EXCEPT !.state = state]
<1>1. d.payTx = swaps[a][id].payTx
  BY DEF TypeOK, ClientTypeOK, Descr
<1>2. swaps' = [swaps EXCEPT ![a][id] = d]
  BY DEF SetState
<1> HIDE DEF d
<1> QED
  BY <1>1, <1>2 DEF TypeOK, ClientTypeOK

LEMMA ClientReceivesInv ==
    ASSUME SwapInv, TypeOK', ClientReceives
    PROVE  SwapInv' /\ (PaymentInv => PaymentInv')
<1>1. PICK m \in ToClient :
        LET a == Receiver(m) IN
        \/ ProcessNothing(a, m)
        \/ ProcessTransactionHold(a, m)
        \/ ProcessTransactionInit(a, m)
        \/ ProcessTransactionCreate(a, m)
        \/ ProcessTransactionSign(a, m)
        \/ ProcessTransactionCommit(a, m)
        \/ ProcessTransactionConfirm(a, m)
        \/ ProcessTransactionCancel(a, m)
        \/ ProcessTransactionFinished(a, m)
        \/ ProcessTransactionRollback(a, m)
  BY DEF ClientReceives, ClientReceive
<1> DEFINE a == Receiver(m)
<1>2. /\ TypeOK /\ m \in net /\ m \in Packet /\ a \in Apps
      /\ UNCHANGED hubVars
      /\ swaps \in [Apps -> [TxIds -> Descr]]
  BY NodeAssumption DEF SwapInv, TypeOK, PacketsTypeOK, ClientTypeOK, ToClient, Deliverable,
                        Receiver, ClientReceives
<1> HIDE DEF a
<1>3. ASSUME NEW ms, Deliver(m, ms), UNCHANGED <<placed, pending, paid>>,
             \A n \in ms : n.type \in {"Transaction", "Initialized", "Created", "Signed",
                                       "Confirmed", "Cancel"},
             \A b \in Apps, id \in TxIds : swaps'[b][id].payTx \in {swaps[b][id].payTx, NoPayment}
      PROVE  SwapInv' /\ (PaymentInv => PaymentInv')
  BY <1>2, <1>3, QuietClientStep DEF Deliver
<1> DEFINE none == {}
<1>4. \A n \in none : n.type \in {"Cancel"}
  OBVIOUS
<1>5. \A id : \A n \in CancelAll(id) : n.type = "Cancel"
  BY DEF CancelAll, Cancel
<1> HIDE DEF none
<1>6. CASE ProcessNothing(a, m)
  BY <1>3, <1>4, <1>6 DEF ProcessNothing, clientVars, none
<1>7. CASE ProcessTransactionInit(a, m)
  <2>1. m.tx \in TxIds /\ NewDescr.payTx = NoPayment
    BY <1>2, <1>7, PacketFields DEF ProcessTransactionInit, NewDescr
  <2>2. \A b \in Apps, id \in TxIds : swaps'[b][id].payTx \in {swaps[b][id].payTx, NoPayment}
    BY <1>2, <1>7, <2>1 DEF ProcessTransactionInit
  <2> DEFINE ms == {Initialized(m.hub, m.to, m.tx)}
  <2>3. \A n \in ms : n.type = "Initialized"
    BY DEF Initialized
  <2>4. Deliver(m, ms) /\ UNCHANGED <<placed, pending, paid>>
    BY <1>7 DEF ProcessTransactionInit
  <2> HIDE DEF ms
  <2> QED
    BY <1>3, <2>2, <2>3, <2>4
<1>8. CASE ProcessTransactionSign(a, m)
  <2>1. m.tx \in TxIds
    BY <1>2, <1>8, PacketFields DEF ProcessTransactionSign
  <2>2. \A b \in Apps, id \in TxIds : swaps'[b][id].payTx = swaps[b][id].payTx
    BY <1>2, <1>8, <2>1, SetStateKeepsPayment DEF ProcessTransactionSign
  <2> DEFINE ms == {Signed(m.hub, m.to, m.tx, [m.rev EXCEPT !.signed = TRUE])}
  <2>3. \A n \in ms : n.type = "Signed"
    BY DEF Signed
  <2>4. Deliver(m, ms) \/ Deliver(m, CancelAll(m.tx))
    BY <1>8 DEF ProcessTransactionSign
  <2>5. UNCHANGED <<placed, pending, paid>>
    BY <1>8 DEF ProcessTransactionSign
  <2> HIDE DEF ms
  <2> QED
    BY <1>3, <1>5, <2>2, <2>3, <2>4, <2>5
<1>9. CASE ProcessTransactionConfirm(a, m)
  <2>1. m.tx \in TxIds
    BY <1>2, <1>9, PacketFields DEF ProcessTransactionConfirm
  <2> DEFINE d == [swaps[a][m.tx] EXCEPT !.payTxId = m.hash]
  <2>2. swaps' = [swaps EXCEPT ![a][m.tx] = d]
    BY <1>9 DEF ProcessTransactionConfirm
  <2>3. d.payTx = swaps[a][m.tx].payTx
    BY <1>2, <2>1 DEF Descr
  <2> HIDE DEF d
  <2>4. \A b \in Apps, id \in TxIds : swaps'[b][id].payTx = swaps[b][id].payTx
    BY <1>2, <2>1, <2>2, <2>3
  <2>5. Deliver(m, none) /\ UNCHANGED <<placed, pending, paid>>
    BY <1>9 DEF ProcessTransactionConfirm, none
  <2> QED
    BY <1>3, <1>4, <2>4, <2>5
<1>10. CASE ProcessTransactionCancel(a, m)
  <2>1. \A b \in Apps, id \in TxIds : swaps'[b][id].payTx = swaps[b][id].payTx
    BY <1>2, <1>10, SetStateKeepsPayment DEF ProcessTransactionCancel
  <2>2. Deliver(m, none) /\ UNCHANGED <<placed, pending, paid>>
    BY <1>10 DEF ProcessTransactionCancel, none
  <2> QED
    BY <1>3, <1>4, <2>1, <2>2
<1>11. CASE ProcessTransactionFinished(a, m)
  <2>1. m.tx \in TxIds
    BY <1>2, <1>11, PacketFields DEF ProcessTransactionFinished
  <2>2. \A b \in Apps, id \in TxIds : swaps'[b][id].payTx = swaps[b][id].payTx
    BY <1>2, <1>11, <2>1, SetStateKeepsPayment DEF ProcessTransactionFinished
  <2>3. Deliver(m, none) /\ UNCHANGED <<placed, pending, paid>>
    BY <1>11 DEF ProcessTransactionFinished, none
  <2> QED
    BY <1>3, <1>4, <2>2, <2>3
<1>12. CASE ProcessTransactionRollback(a, m)
  <2>1. m.tx \in TxIds
    BY <1>2, <1>12, PacketFields DEF ProcessTransactionRollback
  <2>2. \A b \in Apps, id \in TxIds : swaps'[b][id].payTx = swaps[b][id].payTx
    BY <1>2, <1>12, <2>1, SetStateKeepsPayment DEF ProcessTransactionRollback
  <2>3. Deliver(m, none) /\ UNCHANGED <<placed, pending, paid>>
    BY <1>12 DEF ProcessTransactionRollback, none
  <2> QED
    BY <1>3, <1>4, <2>2, <2>3
<1> QED
  BY <1>1, <1>2, <1>6, <1>7, <1>8, <1>9, <1>10, <1>11, <1>12, ProcessTransactionHoldInv,
     ProcessTransactionCreateInv, ProcessTransactionCommitInv DEF a

LEMMA ClientTimersInv ==
    ASSUME SwapInv, TypeOK', ClientTimers
    PROVE  SwapInv' /\ (PaymentInv => PaymentInv')
<1>1. ASSUME NEW a \in Apps, NEW id \in TxIds, RequestUnconfirmedTx(a, id)
      PROVE  SwapInv' /\ (PaymentInv => PaymentInv')
  <2> DEFINE ms == {Confirmed(h, me, id) : h \in unconfirmed[a][id].hubs,
                                           me \in unconfirmed[a][id].me}
  <2>1. net' = net \cup ms /\ UNCHANGED <<placed, pending, swaps, paid>>
    BY <1>1 DEF RequestUnconfirmedTx, Send
  <2>2. \A n \in ms : n.type = "Confirmed"
    BY DEF Confirmed
  <2> HIDE DEF ms
  <2> QED
    BY <2>1, <2>2, QuietClientStep DEF ClientTimers
<1>2. ASSUME NEW a \in Apps, SendListOfTransactions(a)
      PROVE  SwapInv' /\ (PaymentInv => PaymentInv')
  <2> DEFINE ms == UNION {Offer(o) : o \in {p \in pending : AppOf(p) = a}}
  <2>1. net' = net \cup ms /\ UNCHANGED <<placed, pending, swaps, paid>>
    BY <1>2 DEF SendListOfTransactions, Send, clientVars
  <2>2. \A n \in ms : n.type = "Transaction"
    BY DEF Offer, Transaction
  <2> HIDE DEF ms
  <2> QED
    BY <2>1, <2>2, QuietClientStep DEF ClientTimers
<1> QED
  BY <1>1, <1>2 DEF ClientTimers, ClientTimer

LEMMA ClientEnvironmentInv ==
    ASSUME SwapInv, TypeOK', UNCHANGED hubVars,
           \/ ClientUser
           \/ \E a \in Apps : ClientRestart(a)
           \/ \E a \in Apps, id \in TxIds : ProcessTransactionDropped(a, id)
    PROVE  SwapInv' /\ (PaymentInv => PaymentInv')
<1>0. TypeOK /\ pending \subseteq placed /\ swaps \in [Apps -> [TxIds -> Descr]]
  BY DEF SwapInv, TypeOK, ClientTypeOK
<1>1. ASSUME NEW o \in Orders, SendXBridgeTransaction(o)
      PROVE  SwapInv' /\ (PaymentInv => PaymentInv')
  <2>1. \A n \in Offer(o) : n.type = "Transaction"
    BY DEF Offer, Transaction
  <2>2. /\ net' = net \cup Offer(o) /\ UNCHANGED <<swaps, paid>>
        /\ placed \ pending \subseteq placed' \ pending'
    BY <1>1 DEF SendXBridgeTransaction, Send
  <2> QED
    BY <2>1, <2>2, QuietClientStep
<1>2. ASSUME NEW o \in Orders, CancelPending(o)
      PROVE  SwapInv' /\ (PaymentInv => PaymentInv')
  <2>1. \A n \in CancelAll(o) : n.type = "Cancel"
    BY DEF CancelAll, Cancel
  <2>2. /\ net' = net \cup CancelAll(o) /\ UNCHANGED <<swaps, paid>>
        /\ placed \ pending \subseteq placed' \ pending'
    BY <1>2 DEF CancelPending, Send
  <2> QED
    BY <2>1, <2>2, QuietClientStep
<1>3. ASSUME NEW a \in Apps, NEW id \in TxIds, CancelSwap(a, id)
      PROVE  SwapInv' /\ (PaymentInv => PaymentInv')
  <2>1. \A n \in CancelAll(id) : n.type = "Cancel"
    BY DEF CancelAll, Cancel
  <2>2. net' = net \cup CancelAll(id) /\ UNCHANGED <<placed, pending, paid>>
    BY <1>3 DEF CancelSwap, Send
  <2>3. \A b \in Apps, i \in TxIds : swaps'[b][i].payTx = swaps[b][i].payTx
    BY <1>0, <1>3, SetStateKeepsPayment DEF CancelSwap
  <2> QED
    BY <2>1, <2>2, <2>3, QuietClientStep
<1> DEFINE none == {}
<1>4. \A n \in none : n.type \in {"Cancel"}
  OBVIOUS
<1>5. UNCHANGED netVars => net' = net \cup none
  BY DEF netVars
<1> HIDE DEF none
<1>6. ASSUME NEW a \in Apps, ClientRestart(a)
      PROVE  SwapInv' /\ (PaymentInv => PaymentInv')
  <2>1. placed \ pending \subseteq placed' \ pending' /\ paid' = paid /\ net' = net \cup none
    BY <1>5, <1>6 DEF ClientRestart
  <2>2. \A b \in Apps, i \in TxIds : swaps'[b][i].payTx \in {swaps[b][i].payTx, NoPayment}
    BY <1>0, <1>6 DEF ClientRestart, Absent, NewDescr
  <2> QED
    BY <1>4, <2>1, <2>2, QuietClientStep
<1>7. ASSUME NEW a \in Apps, NEW id \in TxIds, ProcessTransactionDropped(a, id)
      PROVE  SwapInv' /\ (PaymentInv => PaymentInv')
  <2>1. UNCHANGED <<placed, pending, paid>> /\ net' = net \cup none
    BY <1>5, <1>7 DEF ProcessTransactionDropped
  <2>2. \A b \in Apps, i \in TxIds : swaps'[b][i].payTx = swaps[b][i].payTx
    BY <1>0, <1>7, SetStateKeepsPayment DEF ProcessTransactionDropped
  <2> QED
    BY <1>4, <2>1, <2>2, QuietClientStep
<1> QED
  BY <1>1, <1>2, <1>3, <1>6, <1>7 DEF ClientUser

-----------------------------------------------------------------------------
LEMMA InitInv == Init => PaymentInv
<1> SUFFICES ASSUME Init PROVE PaymentInv
  OBVIOUS
<1>1. TypeOK /\ net = {} /\ paid = {}
  BY InitTypeOK DEF Init, PacketsInit, ClientInit
<1>2. \A h \in Hubs, id \in TxIds : transactions[h][id].state = "trInvalid"
  BY DEF Init, HubInit, Invalid
<1>3. \A a \in Apps, id \in TxIds : swaps[a][id].payTx = NoPayment
  BY DEF Init, ClientInit, Absent, NewDescr
<1>4. SwapInv
  BY <1>1, <1>2, <1>3 DEF SwapInv, HoldsAddressed, CoinOrdersAddressed, PhaseMeansSigned,
     CommitMeansSigned, OwnPayments, NoPaymentBeforeBothSigned, AppliedMeansNotPending,
     OneSwapPerOrder
<1> QED
  BY <1>1, <1>2, <1>4 DEF PaymentInv, CommitedMeansPaid, PhaseMeansPaid, FinishedMeansBothPaid

LEMMA StutterInv == SwapInv /\ UNCHANGED vars => SwapInv' /\ (PaymentInv => PaymentInv')
<1> SUFFICES ASSUME SwapInv, UNCHANGED vars PROVE SwapInv' /\ (PaymentInv => PaymentInv')
  OBVIOUS
<1>1. TypeOK'
  BY NextTypeOK DEF SwapInv
<1>2. UNCHANGED <<netVars, clientVars>> /\ \A h \in Hubs, id \in TxIds : Steady(h, id)
  BY DEF vars, hubVars, Steady
<1> QED
  BY <1>1, <1>2, SilentHubStep

LEMMA NextInv ==
    ASSUME SwapInv, [Next]_vars
    PROVE  SwapInv' /\ (PaymentInv /\ ~HubWalletReports => PaymentInv')
<1>1. TypeOK'
  BY NextTypeOK DEF SwapInv
<1>2. CASE HubReceives
  BY <1>1, <1>2, HubReceivesInv
<1>3. CASE HubTimers
  BY <1>1, <1>3, HubTimersInv
<1>4. CASE ClientReceives
  BY <1>1, <1>4, ClientReceivesInv
<1>5. CASE ClientTimers
  BY <1>1, <1>5, ClientTimersInv
<1>6. CASE TimePasses
  BY <1>1, <1>6, TimePassesInv
<1>7. CASE Environment
  BY <1>1, <1>7, ClientEnvironmentInv, HubRestartInv, UpdateTransactionInv DEF Environment
<1>8. CASE UNCHANGED vars
  BY <1>8, StutterInv
<1> QED
  BY <1>2, <1>3, <1>4, <1>5, <1>6, <1>7, <1>8 DEF Next

(***************************************************************************)
(* Nobody's coins move before both clients have signed the other one's     *)
(* revert transaction for one hub (processTransactionSigned sends the      *)
(* orders to pay, processTransactionCommit obeys them): whatever is lost,  *)
(* repeated, reordered, expired or restarted, with wallets that fail and   *)
(* hub wallets that report what they like.                                 *)
(***************************************************************************)
THEOREM NoEarlyPayment == Spec => []NoPaymentBeforeBothSigned
<1>1. Init => SwapInv
  BY InitInv DEF PaymentInv
<1>2. SwapInv /\ [Next]_vars => SwapInv'
  BY NextInv
<1>3. SwapInv => NoPaymentBeforeBothSigned
  BY DEF SwapInv
<1> QED
  BY <1>1, <1>2, <1>3, PTL DEF Spec

(***************************************************************************)
(* An order is accepted into one swap of one hub, although hubs do not     *)
(* know of each other (processTransactionHold takes the order out of the   *)
(* client's list before it answers).                                       *)
(***************************************************************************)
THEOREM OneSwap == Spec => []OneSwapPerOrder
<1>1. Init => SwapInv
  BY InitInv DEF PaymentInv
<1>2. SwapInv /\ [Next]_vars => SwapInv'
  BY NextInv
<1>3. SwapInv => OneSwapPerOrder
  BY DEF SwapInv
<1> QED
  BY <1>1, <1>2, <1>3, PTL DEF Spec

(***************************************************************************)
(* When no hub wallet reports payments, a swap between two programs is     *)
(* announced finished only after both have paid (the two counting phases   *)
(* of processTransactionCommited and processTransactionConfirmed).         *)
(***************************************************************************)
THEOREM FinishedIsPaid ==
    ASSUME ~HubWalletReports
    PROVE  Spec => []FinishedMeansBothPaid
<1>1. PaymentInv /\ [Next]_vars => PaymentInv'
  BY NextInv DEF PaymentInv
<1>2. PaymentInv => FinishedMeansBothPaid
  BY DEF PaymentInv
<1> QED
  BY InitInv, <1>1, <1>2, PTL DEF Spec

(***************************************************************************)
(* The counting phases of the hub (processTransactionCommited and          *)
(* processTransactionConfirmed): an order of a program is reported paid    *)
(* only by the side that paid it, a swap leaves trSigned only when both    *)
(* have, and the record, the reports on their way and the announcement     *)
(* agree on it at every step, when no hub wallet reports payments.         *)
(***************************************************************************)
THEOREM PhasesCountPayments ==
    ASSUME ~HubWalletReports
    PROVE  Spec => []PaymentInv
<1>1. PaymentInv /\ [Next]_vars => PaymentInv'
  BY NextInv DEF PaymentInv
<1> QED
  BY InitInv, <1>1, PTL DEF Spec
===============================================================================

------------------------ MODULE XBridgeSwap_refinement ------------------------
(***************************************************************************)
(* The protocol implements SwapContract: what the two users of a swap see  *)
(* of any step of hubs, clients and network is one side signing, paying or *)
(* reverting, an announcement, or nothing.                                 *)
(***************************************************************************)
EXTENDS XBridgeSwap_proofs

ContractTypes ==
    /\ SignedSides \in [ContractSwaps -> SUBSET {1, 2}]
    /\ PaidSides \in [ContractSwaps -> SUBSET {1, 2}]
    /\ RevertedSides \in [ContractSwaps -> SUBSET {1, 2}]
    /\ FinishedSwaps \in [ContractSwaps -> BOOLEAN]

LEMMA ContractTypesHold == ContractTypes /\ ContractTypes'
BY DEF ContractTypes, SignedSides, PaidSides, RevertedSides, FinishedSwaps,
       ContractSwaps, TwoParty, AppOf

\* What each variable of the contract depends on.
LEMMA ContractFrame ==
    ASSUME NEW ms, net' = net \cup ms
    PROVE  /\ (\A m \in ms : m.type # "Signed") => SignedSides' = SignedSides
           /\ (\A m \in ms : m.type # "Finished") => FinishedSwaps' = FinishedSwaps
           /\ paid' = paid => PaidSides' = PaidSides
           /\ reverted' = reverted => RevertedSides' = RevertedSides
<1>1. ContractSwaps' = ContractSwaps
  BY DEF ContractSwaps, TwoParty, AppOf
<1>2. ASSUME \A m \in ms : m.type # "Signed"
      PROVE  SignedSides' = SignedSides
  <2>1. \A h, addr, id : SignedToHub(h, addr, id)' <=> SignedToHub(h, addr, id)
    BY <1>2 DEF SignedToHub
  <2> QED
    BY <1>1, <2>1 DEF SignedSides
<1>3. ASSUME \A m \in ms : m.type # "Finished"
      PROVE  FinishedSwaps' = FinishedSwaps
  <2>1. \A h, id : Announced(h, id)' <=> Announced(h, id)
    BY <1>3 DEF Announced
  <2>2. \A id : (\E h \in Hubs : Announced(h, id))' = (\E h \in Hubs : Announced(h, id))
    BY <2>1
  <2> QED
    BY <1>1, <2>2 DEF FinishedSwaps
<1>4. paid' = paid => PaidSides' = PaidSides
  BY <1>1 DEF PaidSides, PaidFrom
<1>5. reverted' = reverted => RevertedSides' = RevertedSides
  BY <1>1 DEF RevertedSides, RevertedFrom
<1> QED
  BY <1>2, <1>3, <1>4, <1>5

\* The two sides of a contract are different addresses.
LEMMA Sides ==
    ASSUME NEW id \in ContractSwaps
    PROVE  /\ id \in TxIds /\ id[1] \in Orders /\ id[2] \in Orders
           /\ Source[id[1]] # Source[id[2]] /\ Dest[id[1]] # Dest[id[2]]
BY NodeAssumption DEF ContractSwaps, TwoParty, AppOf, TxIds

Quiet == UNCHANGED <<SignedSides, PaidSides, RevertedSides, FinishedSwaps>>

LEMMA SignStep ==
    ASSUME NEW n, net' = net \cup {n}, n.type = "Signed", n.to \in Hubs,
           UNCHANGED <<paid, reverted>>
    PROVE  Quiet \/ Contract!Next
<1> DEFINE ms == {n}
<1>1. net' = net \cup ms /\ \A m \in ms : m.type = "Signed"
  OBVIOUS
<1> HIDE DEF ms
<1>2. FinishedSwaps' = FinishedSwaps /\ PaidSides' = PaidSides /\ RevertedSides' = RevertedSides
  BY <1>1, ContractFrame
<1>3. ContractSwaps' = ContractSwaps
  BY DEF ContractSwaps, TwoParty, AppOf
<1>4. \A h, addr, id : SignedToHub(h, addr, id)' <=>
        SignedToHub(h, addr, id) \/ (h = n.to /\ addr = n.from /\ id = n.tx)
  BY DEF SignedToHub
<1>5. ASSUME NEW id \in ContractSwaps, NEW s \in {1, 2}, id = n.tx, n.from = Dest[id[s]]
      PROVE  Contract!SignRevert(id, s)
  <2>1. \A i \in ContractSwaps, t \in {1, 2} :
          (\E h \in Hubs : SignedToHub(h, Dest[i[t]], i)') <=>
            (\E h \in Hubs : SignedToHub(h, Dest[i[t]], i)) \/ (i = id /\ t = s)
    BY <1>4, <1>5, Sides
  <2>2. SignedSides' = [SignedSides EXCEPT ![id] = @ \cup {s}]
    BY <1>3, <2>1, ZenonT(60) DEF SignedSides
  <2> QED
    BY <1>2, <2>2 DEF Contract!SignRevert
<1>6. CASE \A id \in ContractSwaps, s \in {1, 2} : ~(id = n.tx /\ n.from = Dest[id[s]])
  <2>1. \A i \in ContractSwaps, t \in {1, 2} :
          (\E h \in Hubs : SignedToHub(h, Dest[i[t]], i)') <=>
            (\E h \in Hubs : SignedToHub(h, Dest[i[t]], i))
    BY <1>4, <1>6
  <2>2. SignedSides' = SignedSides
    BY <1>3, <2>1 DEF SignedSides
  <2> QED
    BY <1>2, <2>2 DEF Quiet
<1> QED
  BY <1>5, <1>6 DEF Contract!Next, Contract!Side

LEMMA PayStep ==
    ASSUME NEW ms, net' = net \cup ms, \A m \in ms : m.type = "Commited",
           NEW pay, paid' = paid \cup {pay}, UNCHANGED reverted, pay[2] \in TxIds,
           \E h \in Hubs : /\ SignedToHub(h, Dest[pay[2][1]], pay[2])
                           /\ SignedToHub(h, Dest[pay[2][2]], pay[2])
    PROVE  Quiet \/ Contract!Next
<1>1. SignedSides' = SignedSides /\ FinishedSwaps' = FinishedSwaps /\ RevertedSides' = RevertedSides
  BY ContractFrame
<1>2. ContractSwaps' = ContractSwaps
  BY DEF ContractSwaps, TwoParty, AppOf
<1>3. \A addr, id : PaidFrom(addr, id)' <=> PaidFrom(addr, id) \/ (addr = pay[1] /\ id = pay[2])
  BY DEF PaidFrom
<1>4. ASSUME NEW id \in ContractSwaps, NEW s \in {1, 2}, id = pay[2], pay[1] = Source[id[s]]
      PROVE  Contract!Pay(id, s)
  <2>1. \A i \in ContractSwaps, t \in {1, 2} :
          PaidFrom(Source[i[t]], i)' <=> PaidFrom(Source[i[t]], i) \/ (i = id /\ t = s)
    BY <1>3, <1>4, Sides
  <2>2. PaidSides' = [PaidSides EXCEPT ![id] = @ \cup {s}]
    BY <1>2, <2>1 DEF PaidSides
  <2>3. SignedSides[id] = {1, 2}
    BY <1>4 DEF SignedSides
  <2> QED
    BY <1>1, <2>2, <2>3 DEF Contract!Pay, Contract!Side
<1>5. CASE \A id \in ContractSwaps, s \in {1, 2} : ~(id = pay[2] /\ pay[1] = Source[id[s]])
  <2>1. \A i \in ContractSwaps, t \in {1, 2} :
          PaidFrom(Source[i[t]], i)' <=> PaidFrom(Source[i[t]], i)
    BY <1>3, <1>5
  <2>2. PaidSides' = PaidSides
    BY <1>2, <2>1 DEF PaidSides
  <2> QED
    BY <1>1, <2>2 DEF Quiet
<1> QED
  BY <1>4, <1>5 DEF Contract!Next, Contract!Side

LEMMA RevertStep ==
    ASSUME net' = net, UNCHANGED paid, NEW pay \in paid, reverted' = reverted \cup {pay}
    PROVE  Quiet \/ Contract!Next
<1> DEFINE ms == {}
<1>1. net' = net \cup ms /\ \A m \in ms : m.type = "Cancel"
  OBVIOUS
<1> HIDE DEF ms
<1>2. SignedSides' = SignedSides /\ FinishedSwaps' = FinishedSwaps /\ PaidSides' = PaidSides
  BY <1>1, ContractFrame
<1>3. ContractSwaps' = ContractSwaps
  BY DEF ContractSwaps, TwoParty, AppOf
<1>4. \A addr, id : RevertedFrom(addr, id)' <=>
        RevertedFrom(addr, id) \/ (addr = pay[1] /\ id = pay[2])
  BY DEF RevertedFrom
<1>5. ASSUME NEW id \in ContractSwaps, NEW s \in {1, 2}, id = pay[2], pay[1] = Source[id[s]]
      PROVE  Contract!Revert(id, s)
  <2>1. \A i \in ContractSwaps, t \in {1, 2} :
          RevertedFrom(Source[i[t]], i)' <=> RevertedFrom(Source[i[t]], i) \/ (i = id /\ t = s)
    BY <1>4, <1>5, Sides
  <2>2. RevertedSides' = [RevertedSides EXCEPT ![id] = @ \cup {s}]
    BY <1>3, <2>1 DEF RevertedSides
  <2>3. s \in PaidSides[id]
    BY <1>5 DEF PaidSides, PaidFrom
  <2> QED
    BY <1>2, <2>2, <2>3 DEF Contract!Revert
<1>6. CASE \A id \in ContractSwaps, s \in {1, 2} : ~(id = pay[2] /\ pay[1] = Source[id[s]])
  <2>1. \A i \in ContractSwaps, t \in {1, 2} :
          RevertedFrom(Source[i[t]], i)' <=> RevertedFrom(Source[i[t]], i)
    BY <1>4, <1>6
  <2>2. RevertedSides' = RevertedSides
    BY <1>3, <2>1 DEF RevertedSides
  <2> QED
    BY <1>2, <2>2 DEF Quiet
<1> QED
  BY <1>5, <1>6 DEF Contract!Next, Contract!Side

LEMMA FinishStep ==
    ASSUME NEW h \in Hubs, NEW id \in TxIds, net' = net \cup FinishedAll(h, id),
           UNCHANGED <<paid, reverted>>, FinishedMeansBothPaid'
    PROVE  Quiet \/ Contract!Next
<1> DEFINE ms == FinishedAll(h, id)
<1>1. \A m \in ms : m.type = "Finished" /\ m.hub = h /\ m.tx = id
  BY DEF FinishedAll, Finished
<1> HIDE DEF ms
<1>2. net' = net \cup ms
  BY DEF ms
<1>3. SignedSides' = SignedSides /\ PaidSides' = PaidSides /\ RevertedSides' = RevertedSides
  BY <1>1, <1>2, ContractFrame
<1>4. ContractSwaps' = ContractSwaps
  BY DEF ContractSwaps, TwoParty, AppOf
<1>5. CASE ms # {} /\ id \in ContractSwaps
  <2>1. \A i : (\E g \in Hubs : Announced(g, i)') <=> (\E g \in Hubs : Announced(g, i)) \/ i = id
    BY <1>1, <1>2, <1>5 DEF Announced
  <2>2. FinishedSwaps' = [FinishedSwaps EXCEPT ![id] = TRUE]
    BY <1>4, <2>1 DEF FinishedSwaps
  <2>3. PaidFrom(Source[id[1]], id)' /\ PaidFrom(Source[id[2]], id)'
    BY <1>1, <1>2, <1>5 DEF FinishedMeansBothPaid, ContractSwaps, TwoParty, AppOf
  <2>4. PaidSides[id] = {1, 2}
    BY <1>5, <2>3 DEF PaidSides, PaidFrom
  <2> QED
    BY <1>3, <1>5, <2>2, <2>4 DEF Contract!Finish, Contract!Next, Contract!Side
<1>6. CASE ms = {} \/ id \notin ContractSwaps
  <2>1. \A i \in ContractSwaps :
          (\E g \in Hubs : Announced(g, i)') <=> (\E g \in Hubs : Announced(g, i))
    BY <1>1, <1>2, <1>6 DEF Announced
  <2>2. FinishedSwaps' = FinishedSwaps
    BY <1>4, <2>1 DEF FinishedSwaps
  <2> QED
    BY <1>3, <2>2 DEF Quiet
<1> QED
  BY <1>5, <1>6

-----------------------------------------------------------------------------
\* Steps that pay nothing, revert nothing, sign nothing and announce nothing.
LEMMA QuietStep ==
    ASSUME NEW ms, net' = net \cup ms, UNCHANGED <<paid, reverted>>,
           \A m \in ms : m.type \notin {"Signed", "Finished"}
    PROVE  Quiet
BY ContractFrame DEF Quiet

LEMMA HubReceivesContract ==
    ASSUME TypeOK, FinishedMeansBothPaid', HubReceives
    PROVE  Quiet \/ Contract!Next
<1>1. PICK m \in Deliverable :
        \/ ProcessTransaction(m)
        \/ ProcessTransactionHoldApply(m)
        \/ ProcessTransactionInitialized(m)
        \/ ProcessTransactionCreated(m)
        \/ ProcessTransactionSigned(m)
        \/ ProcessTransactionCommited(m)
        \/ ProcessTransactionConfirmed(m)
        \/ ProcessTransactionCancelAtHub(m)
  BY DEF HubReceives, HubReceive
<1>2. m \in net /\ m \in Packet /\ UNCHANGED <<paid, reverted>>
  BY DEF Deliverable, HubReceives, clientVars, TypeOK, PacketsTypeOK
<1>3. CASE ProcessTransactionConfirmed(m)
  <2>1. m.to \in Hubs /\ m.tx \in TxIds
    BY <1>2, <1>3, PacketFields DEF ProcessTransactionConfirmed
  <2>2. CASE net' = net \cup FinishedAll(m.to, m.tx)
    BY <1>2, <2>1, <2>2, FinishStep
  <2> DEFINE none == {}
  <2>3. \A n \in none : n.type = "Cancel"
    OBVIOUS
  <2> HIDE DEF none
  <2>4. CASE net' = net \cup none
    BY <1>2, <2>3, <2>4, QuietStep
  <2> QED
    BY <1>3, <2>2, <2>4 DEF ProcessTransactionConfirmed, Acknowledge, Deliver, none
<1>4. ASSUME ~ProcessTransactionConfirmed(m)
      PROVE  \E ms : /\ net' = net \cup ms
                     /\ \A n \in ms : n.type \in {"Hold", "Init", "Create", "Sign",
                                                  "Commit", "Confirm"}
  <2> DEFINE OK(ms) == \A n \in ms : n.type \in {"Hold", "Init", "Create", "Sign",
                                                 "Commit", "Confirm"}
  <2>1. OK({})
    OBVIOUS
  <2>2. \A a, b, h, o, p, id, x, y :
          /\ OK({Hold(a, h, o, id), Hold(b, h, p, id)})
          /\ OK({InitTx(a, h, id), InitTx(b, h, id)})
          /\ OK({Create(a, h, id), Create(b, h, id)})
          /\ OK({Sign(a, h, id, x), Sign(b, h, id, y)})
          /\ OK({Commit(a, h, id, x), Commit(b, h, id, y)})
          /\ OK({ConfirmTx(a, h, id, x), ConfirmTx(b, h, id, y)})
    BY DEF Hold, InitTx, Create, Sign, Commit, ConfirmTx
  <2> HIDE DEF OK
  <2>3. \E ms : OK(ms) /\ Deliver(m, ms)
    <3>1. CASE ProcessTransaction(m)
      BY <2>1, <2>2, <3>1 DEF ProcessTransaction
    <3>2. CASE ProcessTransactionHoldApply(m)
      BY <2>1, <2>2, <3>2 DEF ProcessTransactionHoldApply, Acknowledge
    <3>3. CASE ProcessTransactionInitialized(m)
      BY <2>1, <2>2, <3>3 DEF ProcessTransactionInitialized, Acknowledge
    <3>4. CASE ProcessTransactionCreated(m)
      BY <2>1, <2>2, <3>4 DEF ProcessTransactionCreated, Acknowledge
    <3>5. CASE ProcessTransactionSigned(m)
      BY <2>1, <2>2, <3>5 DEF ProcessTransactionSigned, Acknowledge
    <3>6. CASE ProcessTransactionCommited(m)
      BY <2>1, <2>2, <3>6 DEF ProcessTransactionCommited, Acknowledge
    <3>7. CASE ProcessTransactionCancelAtHub(m)
      BY <2>1, <3>7 DEF ProcessTransactionCancelAtHub
    <3> QED
      BY <1>1, <1>4, <3>1, <3>2, <3>3, <3>4, <3>5, <3>6, <3>7
  <2> QED
    BY <2>3 DEF Deliver, OK
<1> QED
  BY <1>2, <1>3, <1>4, QuietStep

LEMMA HubJobsContract ==
    ASSUME TypeOK, FinishedMeansBothPaid', UNCHANGED clientVars,
           \/ HubTimers \/ TimePasses
           \/ \E h \in Hubs : HubRestart(h)
           \/ \E h \in Hubs, hash \in paid : UpdateTransaction(h, hash)
    PROVE  Quiet \/ Contract!Next
<1>1. UNCHANGED <<paid, reverted>>
  BY DEF clientVars
<1>2. ASSUME NEW h \in Hubs, NEW id \in TxIds, FinishTransaction(h, id)
      PROVE  Quiet \/ Contract!Next
  BY <1>1, <1>2, FinishStep DEF FinishTransaction, Send
<1>3. ASSUME NEW h \in Hubs, NEW id \in TxIds, RollbackTransaction(h, id)
      PROVE  Quiet \/ Contract!Next
  <2>1. PICK ms : /\ net' = net \cup ms
                  /\ \A n \in ms : n \in CancelAll(id) \/ n = Rollback(Source[id[1]], h, id)
                                   \/ n = Rollback(Source[id[2]], h, id)
    BY <1>3 DEF RollbackTransaction, Send
  <2>2. \A n \in ms : n.type \in {"Rollback", "Cancel"}
    BY <2>1 DEF CancelAll, Cancel, Rollback
  <2> QED
    BY <1>1, <2>1, <2>2, QuietStep
<1> DEFINE none == {}
<1>4. \A n \in none : n.type = "Cancel"
  OBVIOUS
<1>5. UNCHANGED netVars => net' = net \cup none
  BY DEF netVars
<1> HIDE DEF none
<1>6. UNCHANGED netVars => Quiet
  BY <1>1, <1>4, <1>5, QuietStep
<1> QED
  BY <1>2, <1>3, <1>6 DEF HubTimers, HubTimer, CheckFinishedTransaction, DeleteTransaction,
     EraseExpiredPendingTransaction, TimePasses, Expire, ExpireOffer, HubRestart,
     UpdateTransaction

LEMMA ClientReceivesContract ==
    ASSUME SwapInv, ClientReceives
    PROVE  Quiet \/ Contract!Next
<1>1. PICK m \in ToClient :
        LET a == Receiver(m) IN
        \/ ProcessNothing(a, m)
        \/ ProcessTransactionHold(a, m)
        \/ ProcessTransactionInit(a, m)
        \/ ProcessTransactionCreate(a, m)
        \/ ProcessTransactionSign(a, m)
        \/ ProcessTransactionCommit(a, m)
        \/ ProcessTransactionConfirm(a, m)
        \/ ProcessTransactionCancel(a, m)
        \/ ProcessTransactionFinished(a, m)
        \/ ProcessTransactionRollback(a, m)
  BY DEF ClientReceives, ClientReceive
<1> DEFINE a == Receiver(m)
<1>2. m \in net /\ m \in Packet /\ a \in Apps /\ swaps \in [Apps -> [TxIds -> Descr]]
  BY NodeAssumption DEF SwapInv, TypeOK, PacketsTypeOK, ClientTypeOK, ToClient, Deliverable, Receiver
<1> HIDE DEF a
<1>3. ASSUME NEW ms, Deliver(m, ms), UNCHANGED <<paid, reverted>>,
             \A n \in ms : n.type \in {"HoldApply", "Initialized", "Created", "Cancel", "Commited"}
      PROVE  Quiet
  BY <1>3, QuietStep DEF Deliver
<1> DEFINE none == {}
<1>4. \A n \in none : n.type = "Cancel"
  OBVIOUS
<1>5. \A id : \A n \in CancelAll(id) : n.type = "Cancel"
  BY DEF CancelAll, Cancel
<1>6. \A h, from, id, x :
        /\ \A n \in {HoldApply(h, from, id)} : n.type = "HoldApply"
        /\ \A n \in {Initialized(h, from, id)} : n.type = "Initialized"
        /\ \A n \in {Created(h, from, id, x)} : n.type = "Created"
        /\ \A n \in {Commited(h, from, id, x)} : n.type = "Commited"
  BY DEF HoldApply, Initialized, Created, Commited
<1> HIDE DEF none
<1>7. CASE ProcessNothing(a, m) \/ ProcessTransactionConfirm(a, m)
           \/ ProcessTransactionCancel(a, m) \/ ProcessTransactionFinished(a, m)
  BY <1>3, <1>4, <1>7 DEF ProcessNothing, ProcessTransactionConfirm, ProcessTransactionCancel,
     ProcessTransactionFinished, clientVars, none
<1>8. CASE ProcessTransactionHold(a, m)
  BY <1>3, <1>4, <1>6, <1>8 DEF ProcessTransactionHold, none
<1>9. CASE ProcessTransactionInit(a, m)
  BY <1>3, <1>6, <1>9 DEF ProcessTransactionInit
<1>10. CASE ProcessTransactionCreate(a, m)
  <2>1. \/ \E rev : Deliver(m, {Created(m.hub, m.to, m.tx, rev)})
        \/ Deliver(m, CancelAll(m.tx))
    BY <1>10 DEF ProcessTransactionCreate
  <2>2. UNCHANGED <<paid, reverted>>
    BY <1>10 DEF ProcessTransactionCreate
  <2> QED
    <3>1. ASSUME NEW rev, Deliver(m, {Created(m.hub, m.to, m.tx, rev)})
          PROVE  Quiet
      <4> DEFINE ms == {Created(m.hub, m.to, m.tx, rev)}
      <4>1. \A n \in ms : n.type = "Created"
        BY <1>6
      <4>2. Deliver(m, ms)
        BY <3>1
      <4> HIDE DEF ms
      <4> QED
        BY <1>3, <2>2, <4>1, <4>2
    <3>2. CASE Deliver(m, CancelAll(m.tx))
      BY <1>3, <1>5, <2>2, <3>2
    <3> QED
      BY <2>1, <3>1, <3>2
<1>11. CASE ProcessTransactionSign(a, m)
  <2> DEFINE n == Signed(m.hub, m.to, m.tx, [m.rev EXCEPT !.signed = TRUE])
  <2>1. n.type = "Signed" /\ n.to \in Hubs
    BY <1>2, <1>11, PacketFields DEF ProcessTransactionSign, Signed
  <2>2. Deliver(m, {n}) \/ Deliver(m, CancelAll(m.tx))
    BY <1>11 DEF ProcessTransactionSign
  <2>3. UNCHANGED <<paid, reverted>>
    BY <1>11 DEF ProcessTransactionSign
  <2> HIDE DEF n
  <2>4. CASE Deliver(m, {n})
    BY <2>1, <2>3, <2>4, SignStep DEF Deliver
  <2> QED
    BY <1>3, <1>5, <2>2, <2>3, <2>4
<1>12. CASE ProcessTransactionCommit(a, m)
  <2>1. m.type = "Commit" /\ m.tx \in TxIds /\ m.hub \in Hubs /\ UNCHANGED reverted
    BY <1>2, <1>12, PacketFields DEF ProcessTransactionCommit
  <2> DEFINE d == [swaps[a][m.tx] EXCEPT !.revTx = m.rev]
  <2>2. d.payTx = swaps[a][m.tx].payTx
    BY <1>2, <2>1 DEF Descr
  <2>3. \/ /\ swaps[a][m.tx].payTx # NoPayment
           /\ paid' = paid \cup {swaps[a][m.tx].payTx}
           /\ Deliver(m, {Commited(m.hub, m.to, m.tx, d.payTxId)})
        \/ Deliver(m, none) /\ UNCHANGED paid
    BY <1>12, <2>2 DEF ProcessTransactionCommit, none
  <2> DEFINE pay == swaps[a][m.tx].payTx
  <2> HIDE DEF d
  <2>4. pay # NoPayment => pay[2] = m.tx
    BY <1>2, <2>1 DEF SwapInv, OwnPayments
  <2>5. SignedToHub(m.hub, Dest[m.tx[1]], m.tx) /\ SignedToHub(m.hub, Dest[m.tx[2]], m.tx)
    BY <1>2, <2>1 DEF SwapInv, CommitMeansSigned
  <2> DEFINE ms == {Commited(m.hub, m.to, m.tx, d.payTxId)}
  <2>6. \A n \in ms : n.type = "Commited"
    BY <1>6
  <2> HIDE DEF pay, ms
  <2>7. CASE pay # NoPayment /\ paid' = paid \cup {pay} /\ Deliver(m, ms)
    <3>1. net' = net \cup ms
      BY <2>7 DEF Deliver
    <3> QED
      BY <2>1, <2>4, <2>5, <2>6, <2>7, <3>1, PayStep
  <2>8. CASE Deliver(m, none) /\ UNCHANGED paid
    BY <1>3, <1>4, <2>1, <2>8
  <2> QED
    BY <2>3, <2>7, <2>8 DEF pay, ms
<1>13. CASE ProcessTransactionRollback(a, m)
  <2>1. net' = net /\ UNCHANGED paid
    BY <1>13 DEF ProcessTransactionRollback, Deliver
  <2>2. CASE UNCHANGED reverted
    BY <1>3, <1>4, <1>13, <2>1, <2>2 DEF ProcessTransactionRollback, none
  <2>3. ASSUME NEW pay \in paid, reverted' = reverted \cup {pay}
        PROVE  Quiet \/ Contract!Next
    BY <2>1, <2>3, RevertStep
  <2> QED
    BY <1>13, <2>2, <2>3 DEF ProcessTransactionRollback, RevertXBridgeTransaction
<1> QED
  BY <1>1, <1>7, <1>8, <1>9, <1>10, <1>11, <1>12, <1>13 DEF a

LEMMA ClientJobsContract ==
    ASSUME \/ ClientTimers
           \/ ClientUser
           \/ \E a \in Apps : ClientRestart(a)
           \/ \E a \in Apps, id \in TxIds : ProcessTransactionDropped(a, id)
    PROVE  Quiet
<1> DEFINE OK(ms) == \A n \in ms : n.type \in {"Transaction", "Cancel", "Confirmed"}
<1>1. /\ OK({})
      /\ \A o : OK(Offer(o)) /\ OK(CancelAll(o))
      /\ \A a : OK(UNION {Offer(o) : o \in {p \in pending : AppOf(p) = a}})
      /\ \A hs, mes, id : OK({Confirmed(h, me, id) : h \in hs, me \in mes})
  BY DEF Offer, Transaction, CancelAll, Cancel, Confirmed
<1> HIDE DEF OK
<1>2. ASSUME NEW ms, Send(ms), OK(ms), UNCHANGED <<paid, reverted>>
      PROVE  Quiet
  <2>1. net' = net \cup ms /\ \A n \in ms : n.type \notin {"Signed", "Finished"}
    BY <1>2 DEF Send, OK
  <2> QED
    BY <1>2, <2>1, QuietStep
<1> DEFINE none == {}
<1>3. net' = net => net' = net \cup none
  OBVIOUS
<1>4. \A n \in none : n.type = "Cancel"
  OBVIOUS
<1> HIDE DEF none
<1>5. net' = net /\ UNCHANGED <<paid, reverted>> => Quiet
  BY <1>3, <1>4, QuietStep
<1>6. CASE ClientTimers
  <2>1. ASSUME NEW a \in Apps, NEW id \in TxIds, RequestUnconfirmedTx(a, id)
        PROVE  Quiet
    BY <1>1, <1>2, <2>1 DEF RequestUnconfirmedTx
  <2>2. ASSUME NEW a \in Apps, SendListOfTransactions(a)
        PROVE  Quiet
    BY <1>1, <1>2, <2>2 DEF SendListOfTransactions, clientVars
  <2> QED
    BY <1>6, <2>1, <2>2 DEF ClientTimers, ClientTimer
<1>7. CASE ClientUser
  BY <1>1, <1>2, <1>7 DEF ClientUser, SendXBridgeTransaction, CancelPending, CancelSwap
<1>8. CASE \/ \E a \in Apps : ClientRestart(a)
           \/ \E a \in Apps, id \in TxIds : ProcessTransactionDropped(a, id)
  BY <1>5, <1>8 DEF ClientRestart, ProcessTransactionDropped, netVars
<1> QED
  BY <1>6, <1>7, <1>8

LEMMA InitContract == Init => Contract!Init
<1> SUFFICES ASSUME Init PROVE Contract!Init
  OBVIOUS
<1>1. net = {} /\ paid = {} /\ reverted = {}
  BY DEF Init, PacketsInit, ClientInit
<1>2. \A h, addr, id : ~SignedToHub(h, addr, id) /\ ~Announced(h, id)
                       /\ ~PaidFrom(addr, id) /\ ~RevertedFrom(addr, id)
  BY <1>1 DEF SignedToHub, Announced, PaidFrom, RevertedFrom
<1> QED
  BY <1>2 DEF Contract!Init, SignedSides, PaidSides, RevertedSides, FinishedSwaps

LEMMA NextContract ==
    ASSUME PaymentInv, PaymentInv', [Next]_vars
    PROVE  [Contract!Next]_(Contract!contractVars)
<1>1. TypeOK /\ SwapInv /\ FinishedMeansBothPaid'
  BY DEF PaymentInv, SwapInv
<1>2. CASE HubReceives
  BY <1>1, <1>2, HubReceivesContract DEF Quiet, Contract!contractVars
<1>3. CASE ClientReceives
  BY <1>1, <1>3, ClientReceivesContract DEF Quiet, Contract!contractVars
<1>4. CASE HubTimers \/ TimePasses
  BY <1>1, <1>4, HubJobsContract DEF Quiet, Contract!contractVars, HubTimers, TimePasses
<1>5. CASE ClientTimers
  BY <1>5, ClientJobsContract DEF Quiet, Contract!contractVars
<1>6. CASE Environment
  BY <1>1, <1>6, HubJobsContract, ClientJobsContract
     DEF Environment, Quiet, Contract!contractVars
<1>7. CASE UNCHANGED vars
  <2> DEFINE none == {}
  <2>1. UNCHANGED <<paid, reverted>> /\ net' = net \cup none /\ \A n \in none : n.type = "Cancel"
    BY <1>7 DEF vars, netVars, clientVars
  <2> HIDE DEF none
  <2>2. Quiet
    BY <2>1, QuietStep
  <2> QED
    BY <2>2 DEF Quiet, Contract!contractVars
<1> QED
  BY <1>2, <1>3, <1>4, <1>5, <1>6, <1>7 DEF Next

(***************************************************************************)
(* When no hub wallet reports payments, the protocol implements the        *)
(* contract of the two users: no side pays before both have signed, only   *)
(* what was paid is reverted, nothing is announced finished that both have *)
(* not paid, and nothing signed, paid, reverted or announced is undone.    *)
(***************************************************************************)
THEOREM Refinement ==
    ASSUME ~HubWalletReports
    PROVE  Spec => ImplementsContract
<1>1. PaymentInv /\ [Next]_vars => PaymentInv'
  BY NextInv DEF PaymentInv
<1>2. PaymentInv /\ PaymentInv' /\ [Next]_vars => [Contract!Next]_(Contract!contractVars)
  BY NextContract
<1> QED
  BY InitInv, InitContract, <1>1, <1>2, PTL DEF Spec, ImplementsContract, Contract!Spec
===============================================================================

-------------------------- MODULE XBridgeSwap_reverts --------------------------
(***************************************************************************)
(* What lets a payer take its coins back, for any number of hubs, clients  *)
(* and orders: RevertInv holds when nobody's orders mirror each other,     *)
(* OnceInv when besides no packet is processed more often than it was      *)
(* sent, ClosedInv when besides no hub wallet reports payments; ClosesInv, *)
(* of the hub alone, when no offer is heard twice.                         *)
(*                                                                         *)
(* net and built only grow, and a packet leaves seen only when it is sent  *)
(* again; Stable says what that keeps.  A record is calm in a step that    *)
(* brings it into none of the phases where revert transactions matter.     *)
(***************************************************************************)
EXTENDS XBridgeSwap_proofs

LEMMA Stable ==
    ASSUME NEW ms, net' = net \cup ms, \A n \in seen : n \in seen' \/ n \in ms,
           built \subseteq built'
    PROVE  /\ \A h, id, type : Told(h, id, type) => Told(h, id, type)'
           /\ \A h, id, type : Told(h, id, type)' =>
                \/ Told(h, id, type)
                \/ \E n \in ms : n.type = type /\ n.hub = h /\ n.tx = id
           /\ \A h, id : BothApplied(h, id) => BothApplied(h, id)'
           /\ \A h, o, id : Applied(h, o, id) => Applied(h, o, id)'
           /\ \A h, addr, id, type : (\A n \in ms : n.type # type) =>
                (Heard(h, addr, id, type) => Heard(h, addr, id, type)')
           /\ \A rev, o, id : SideRev(rev, o, id) => SideRev(rev, o, id)'
           /\ \A rev, id, addr, one, two :
                RevOf(rev, id, addr, one, two) => RevOf(rev, id, addr, one, two)'
<1>1. \A h, id, type : Told(h, id, type) => Told(h, id, type)'
  BY DEF Told
<1>2. \A h, id, type : Told(h, id, type)' =>
        \/ Told(h, id, type)
        \/ \E n \in ms : n.type = type /\ n.hub = h /\ n.tx = id
  BY DEF Told
<1>3. \A h, o, id : Applied(h, o, id) => Applied(h, o, id)'
  BY DEF Applied
<1>4. \A h, id : BothApplied(h, id) => BothApplied(h, id)'
  BY <1>3 DEF BothApplied
<1>5. \A h, addr, id, type : (\A n \in ms : n.type # type) =>
        (Heard(h, addr, id, type) => Heard(h, addr, id, type)')
  BY DEF Heard
<1>6. \A rev, o, id : SideRev(rev, o, id) => SideRev(rev, o, id)'
  BY DEF SideRev
<1>7. \A rev, id, addr, one, two :
        RevOf(rev, id, addr, one, two) => RevOf(rev, id, addr, one, two)'
  BY <1>6 DEF RevOf
<1> QED
  BY <1>1, <1>2, <1>3, <1>4, <1>5, <1>6, <1>7

\* A packet is what its fields say.
LEMMA SameFields ==
    ASSUME NEW T, NEW R
    PROVE  /\ \A m, n \in [type : T, to : Hubs, from : Addrs, tx : TxIds] :
                m.type = n.type /\ m.to = n.to /\ m.from = n.from /\ m.tx = n.tx => m = n
           /\ \A m, n \in [type : T, to : Hubs, from : Addrs, tx : TxIds, rev : R] :
                m.type = n.type /\ m.to = n.to /\ m.from = n.from /\ m.tx = n.tx
                  /\ m.rev = n.rev => m = n
           /\ \A m, n \in [type : T, to : Addrs, hub : Hubs, tx : TxIds] :
                m.type = n.type /\ m.to = n.to /\ m.hub = n.hub /\ m.tx = n.tx => m = n
OBVIOUS

LEMMA SamePacket ==
    ASSUME NEW m \in Packet, NEW n \in Packet, m.type = n.type, m.to = n.to, m.tx = n.tx
    PROVE  /\ m.type = "HoldApply" /\ m.from = n.from => m = n
           /\ m.type = "Created" /\ m.from = n.from /\ m.rev = n.rev => m = n
           /\ m.type = "Create" /\ m.hub = n.hub => m = n
<1>1. ASSUME m.type = "HoldApply", m.from = n.from
      PROVE  m = n
  <2> DEFINE T == {"HoldApply", "Initialized", "Confirmed"}
  <2>1. /\ m \in [type : T, to : Hubs, from : Addrs, tx : TxIds]
        /\ n \in [type : T, to : Hubs, from : Addrs, tx : TxIds]
    BY <1>1 DEF Packet
  <2> HIDE DEF T
  <2> QED
    BY <1>1, <2>1, SameFields
<1>2. ASSUME m.type = "Created", m.from = n.from, m.rev = n.rev
      PROVE  m = n
  <2> DEFINE T == {"Created", "Signed"}
  <2>1. /\ m \in [type : T, to : Hubs, from : Addrs, tx : TxIds, rev : RawRevTx]
        /\ n \in [type : T, to : Hubs, from : Addrs, tx : TxIds, rev : RawRevTx]
    BY <1>2 DEF Packet
  <2> HIDE DEF T
  <2> QED
    BY <1>2, <2>1, SameFields
<1>3. ASSUME m.type = "Create", m.hub = n.hub
      PROVE  m = n
  <2> DEFINE T == {"Init", "Create", "Rollback"}
  <2>1. /\ m \in [type : T, to : Addrs, hub : Hubs, tx : TxIds]
        /\ n \in [type : T, to : Addrs, hub : Hubs, tx : TxIds]
    BY <1>3 DEF Packet
  <2> HIDE DEF T
  <2> QED
    BY <1>3, <2>1, SameFields
<1> QED
  BY <1>1, <1>2, <1>3

\* The two sides of a swap between two programs share no address.
LEMMA TwoPartyAddresses ==
    ASSUME NEW id \in TxIds, TwoParty(id)
    PROVE  /\ Source[id[1]] # Source[id[2]] /\ Dest[id[1]] # Dest[id[2]]
           /\ Owner[Source[id[1]]] # Owner[Source[id[2]]]
BY NodeAssumption, TwoPartyIds DEF TwoParty, AppOf

-----------------------------------------------------------------------------
(***************************************************************************)
(* Hub steps in which no record enters a phase and no revert transaction   *)
(* moves.                                                                  *)
(***************************************************************************)
Calm(h, id) ==
    LET old == transactions[h][id]
        new == transactions'[h][id]
    IN  /\ ~TwoParty(id) => new = Invalid
        /\ new.rawrevtx1 \in {old.rawrevtx1, NoRevTx}
        /\ new.rawrevtx2 \in {old.rawrevtx2, NoRevTx}
        /\ \/ new.state \in {"trInvalid", "trFinished", "trConfirmed"}
           \/ new.state = "trJoined" /\ ~new.firstStateChanged /\ ~new.secondStateChanged
           \/ old.state \in {"trSigned", "trCommited"} /\ new.state \in {"trSigned", "trCommited"}
           \/ /\ new.state = old.state
              /\ new.rawrevtx1 = old.rawrevtx1 /\ new.rawrevtx2 = old.rawrevtx2
              /\ new.state # "trHold" =>
                   /\ new.firstStateChanged = old.firstStateChanged
                   /\ new.secondStateChanged = old.secondStateChanged

LEMMA CalmHubStep ==
    ASSUME RevertInv, UNCHANGED clientVars, BookFiled',
           NEW ms, net' = net \cup ms, \A n \in seen : n \in seen' \/ n \in ms,
           \A n \in ms : n.type \in {"Hold", "Confirm", "Cancel", "Finished", "Rollback"},
           \A n \in ms : n.type \in {"Hold", "Finished", "Rollback"} => TwoParty(n.tx),
           \A n \in ms : n.type = "Rollback" =>
               BothApplied(n.hub, n.tx) /\ n.to \in {Source[n.tx[1]], Source[n.tx[2]]},
           \A h \in Hubs, id \in TxIds : Calm(h, id)
    PROVE  RevertParts' /\ (OnceParts => OnceParts')
<1>0. built' = built /\ paid' = paid /\ swaps' = swaps
  BY DEF clientVars
<1>1. /\ \A h, id, type : Told(h, id, type) => Told(h, id, type)'
      /\ \A h, id, type : Told(h, id, type)' =>
           \/ Told(h, id, type)
           \/ \E n \in ms : n.type = type /\ n.hub = h /\ n.tx = id
      /\ \A h, id : BothApplied(h, id) => BothApplied(h, id)'
      /\ \A h, o, id : Applied(h, o, id) => Applied(h, o, id)'
      /\ \A h, addr, id, type : (\A n \in ms : n.type # type) =>
           (Heard(h, addr, id, type) => Heard(h, addr, id, type)')
      /\ \A rev, o, id : SideRev(rev, o, id) => SideRev(rev, o, id)'
      /\ \A rev, id, addr, one, two :
           RevOf(rev, id, addr, one, two) => RevOf(rev, id, addr, one, two)'
  BY <1>0, Stable
<1>2. OnlyTwoParties'
  BY DEF OnlyTwoParties, RevertInv, RevertParts, Calm, TwoParty, AppOf
<1>3. AppliedFirst'
  <2>1. \A n \in net' : n.type \in {"Commit", "Rollback"} => BothApplied(n.hub, n.tx)'
    BY <1>1 DEF AppliedFirst, RevertInv, RevertParts
  <2>2. ASSUME NEW h \in Hubs, NEW id \in TxIds
        PROVE  LET tr == transactions'[h][id] IN
               /\ tr.state = "trJoined" =>
                    /\ tr.firstStateChanged => Applied(h, id[1], id)'
                    /\ tr.secondStateChanged => Applied(h, id[2], id)'
               /\ tr.state \in Running => BothApplied(h, id)'
    <3>1. Calm(h, id)
      OBVIOUS
    <3> QED
      BY <1>1, <3>1 DEF AppliedFirst, RevertInv, RevertParts, Calm, Running
  <2> QED
    BY <2>1, <2>2 DEF AppliedFirst
<1>4. RollbacksAddressed'
  BY DEF RollbacksAddressed, RevertInv, RevertParts
<1>5. RevertsOwnSide'
  <2>1. ASSUME NEW h \in Hubs, NEW id \in TxIds
        PROVE  /\ SideRev(transactions[h][id].rawrevtx1, id[1], id)'
               /\ SideRev(transactions[h][id].rawrevtx2, id[2], id)'
    <3>1. /\ SideRev(transactions[h][id].rawrevtx1, id[1], id)
          /\ SideRev(transactions[h][id].rawrevtx2, id[2], id)
      BY DEF RevertsOwnSide, RevertInv, RevertParts
    <3>2. \A o : SideRev(NoRevTx, o, id)
      BY DEF SideRev, NoRevTx
    <3> QED
      BY <1>1, <3>1, <3>2 DEF Calm
  <2> QED
    BY <1>0, <1>1, <2>1 DEF RevertsOwnSide, RevertInv, RevertParts, AppOf
<1>6. SignedMeansTold'
  BY <1>0 DEF SignedMeansTold, RevertInv, RevertParts
<1>7. ASSUME RunsOnce
      PROVE  RunsOnce'
  <2> SUFFICES ASSUME NEW h \in Hubs, NEW id \in TxIds
               PROVE  LET tr == transactions'[h][id] IN
                 /\ tr.state = "trJoined" =>
                      /\ tr.firstStateChanged => Heard(h, Source[id[1]], id, "HoldApply")'
                      /\ tr.secondStateChanged => Heard(h, Source[id[2]], id, "HoldApply")'
                      /\ ~(tr.firstStateChanged /\ tr.secondStateChanged)
                 /\ tr.state \in Running => Told(h, id, "Init")'
                 /\ Told(h, id, "Init")' =>
                      /\ Heard(h, Source[id[1]], id, "HoldApply")'
                      /\ Heard(h, Source[id[2]], id, "HoldApply")'
                 /\ Told(h, id, "Create")' => Told(h, id, "Init")' /\ tr.state # "trHold"
                 /\ Told(h, id, "Sign")' =>
                      Told(h, id, "Init")' /\ tr.state \notin {"trHold", "trInitialized"}
                 /\ Told(h, id, "Commit")' =>
                      Told(h, id, "Init")' /\ tr.state \notin {"trHold", "trInitialized", "trCreated"}
    BY DEF RunsOnce
  <2>1. /\ \A type \in {"Init", "Create", "Sign", "Commit"} :
             Told(h, id, type)' <=> Told(h, id, type)
        /\ \A addr : Heard(h, addr, id, "HoldApply") => Heard(h, addr, id, "HoldApply")'
    BY <1>1
  <2>2. Calm(h, id)
    OBVIOUS
  <2> QED
    BY <1>7, <2>1, <2>2 DEF RunsOnce, Calm, Running
<1>8. OnePaymentEach => OnePaymentEach'
  <2>1. \A n \in seen : n.type = "Create" => n \in seen'
    OBVIOUS
  <2> QED
    BY <1>0, <2>1 DEF OnePaymentEach, Create
<1>9. ASSUME RevertsReady
      PROVE  RevertsReady'
  <2>1. \A h, addr, id : Heard(h, addr, id, "Created") => Heard(h, addr, id, "Created")'
    BY <1>1
  <2>2. ASSUME NEW h \in Hubs, NEW id \in TxIds
        PROVE  LET tr == transactions'[h][id] IN
          /\ tr.state = "trInitialized" =>
               /\ tr.firstStateChanged =>
                    tr.rawrevtx1.spends # NoPayment /\ Heard(h, Source[id[1]], id, "Created")'
               /\ tr.secondStateChanged =>
                    tr.rawrevtx2.spends # NoPayment /\ Heard(h, Source[id[2]], id, "Created")'
          /\ tr.state = "trCreated" =>
               /\ tr.rawrevtx1.spends # NoPayment /\ Heard(h, Source[id[1]], id, "Created")'
               /\ tr.rawrevtx2.spends # NoPayment /\ Heard(h, Source[id[2]], id, "Created")'
               /\ tr.firstStateChanged => tr.rawrevtx2.signed
               /\ tr.secondStateChanged => tr.rawrevtx1.signed
    <3>1. Calm(h, id)
      OBVIOUS
    <3> QED
      BY <1>9, <2>1, <3>1 DEF RevertsReady, Calm
  <2> QED
    BY <1>0, <1>9, <2>2 DEF RevertsReady
<1>10. PayerCanRevert => PayerCanRevert'
  BY <1>0 DEF PayerCanRevert
<1> QED
  BY <1>2, <1>3, <1>4, <1>5, <1>6, <1>7, <1>8, <1>9, <1>10 DEF RevertParts, OnceParts

\* What was announced or rolled back stays so, and nothing new is.
ClosedParts == EndsOnce /\ NeverFinishedAndRolledBack

LEMMA EndsFrame ==
    ASSUME ClosedParts, NEW ms, net' = net \cup ms,
           \A n \in ms : n.type \notin {"Finished", "Rollback"},
           \A h \in Hubs, id \in TxIds : transactions'[h][id].state \in Running =>
               transactions[h][id].state \in Running \/ ~Told(h, id, "Init")
    PROVE  ClosedParts'
<1>1. \A h, id : /\ Announced(h, id)' => Announced(h, id)
                 /\ RolledBack(h, id)' => RolledBack(h, id)
                 /\ Told(h, id, "Init") => Told(h, id, "Init")'
  BY DEF Announced, RolledBack, Told
<1>2. EndsOnce'
  BY <1>1 DEF ClosedParts, EndsOnce
<1>3. NeverFinishedAndRolledBack'
  BY <1>1 DEF ClosedParts, NeverFinishedAndRolledBack
<1> QED
  BY <1>2, <1>3 DEF ClosedParts

LEMMA CalmRuns ==
    ASSUME NEW h, NEW id, Calm(h, id), transactions'[h][id].state \in Running
    PROVE  transactions[h][id].state \in Running
BY DEF Calm, Running

\* A calm step that sends nothing.
LEMMA CalmSilentStep ==
    ASSUME RevertInv, UNCHANGED clientVars, BookFiled', net' = net, seen \subseteq seen',
           \A h \in Hubs, id \in TxIds : Calm(h, id)
    PROVE  /\ RevertParts'
           /\ OnceParts => OnceParts'
           /\ ClosedParts => ClosedParts'
<1> DEFINE ms == {}
<1>1. net' = net \cup ms /\ \A n \in ms : FALSE
  OBVIOUS
<1> HIDE DEF ms
<1>2. RevertParts' /\ (OnceParts => OnceParts')
  BY <1>1, CalmHubStep
<1>3. ClosedParts => ClosedParts'
  BY <1>1, CalmRuns, EndsFrame
<1> QED
  BY <1>2, <1>3

\* Entries leave the book, or one is filed under its own key.
LEMMA BookFrame ==
    ASSUME BookFiled,
           \A h \in Hubs, k \in Key : \A o \in book'[h][k].orders :
               o \in book[h][k].orders \/ k = Hash1(o)
    PROVE  BookFiled'
BY DEF BookFiled, Hash1

LEMMA BookKept ==
    ASSUME RevertInv, UNCHANGED book
    PROVE  BookFiled'
BY DEF RevertInv, RevertParts, BookFiled, Hash1

LEMMA RecordUnchanged ==
    ASSUME RevertInv, NEW h \in Hubs, NEW id \in TxIds,
           transactions'[h][id] = transactions[h][id]
    PROVE  Calm(h, id)
BY DEF RevertInv, RevertParts, OnlyTwoParties, Calm

-----------------------------------------------------------------------------
(***************************************************************************)
(* Offers, expiry, restarts and wallet reports.                            *)
(***************************************************************************)
LEMMA ProcessTransactionReverts ==
    ASSUME NoSelfTrade, RevertInv, UNCHANGED clientVars, NEW m \in net, ProcessTransaction(m)
    PROVE  /\ RevertParts'
           /\ OnceParts => OnceParts'
           /\ ClosedParts => ClosedParts'
<1>0. m.to \in Hubs /\ m.order \in Orders
  BY PacketFields DEF ProcessTransaction, RevertInv, SwapInv, TypeOK, PacketsTypeOK
<1>a. /\ book \in [Hubs -> [Key -> [orders : SUBSET Orders, expired : BOOLEAN]]]
      /\ transactions \in [Hubs -> [TxIds -> Record]]
  BY DEF RevertInv, SwapInv, TypeOK, HubTypeOK
<1>b. Hash1(m.order) \in Key /\ Hash2(m.order) \in Key
  BY <1>0, KeyType
<1>1. ASSUME EnterBook(m.to, m.order), Deliver(m, {})
      PROVE  /\ RevertParts'
             /\ OnceParts => OnceParts'
             /\ ClosedParts => ClosedParts'
  <2>1. NoOffer.orders = {} /\ NewOffer(m.order).orders = {m.order}
    BY DEF NoOffer, NewOffer
  <2>2. \A h \in Hubs, k \in Key : \A o \in book'[h][k].orders :
          o \in book[h][k].orders \/ k = Hash1(o)
    BY <1>0, <1>a, <1>1, <2>1 DEF EnterBook, DeletePendingTransactions
  <2>3. BookFiled'
    BY <2>2, BookFrame DEF RevertInv, RevertParts
  <2>4. net' = net /\ seen \subseteq seen' /\ transactions' = transactions
    BY <1>1 DEF EnterBook, Deliver
  <2> QED
    BY <2>3, <2>4, RecordUnchanged, CalmSilentStep
<1>2. ASSUME NEW other \in Orders, Join(m.to, other, m.order),
             Deliver(m, {Hold(Source[other], m.to, other, <<other, m.order>>),
                         Hold(Source[m.order], m.to, m.order, <<other, m.order>>)})
      PROVE  /\ RevertParts'
             /\ OnceParts => OnceParts'
             /\ ClosedParts => ClosedParts'
  <2> DEFINE id == <<other, m.order>>
             ms == {Hold(Source[other], m.to, other, id), Hold(Source[m.order], m.to, m.order, id)}
  <2>1. net' = net \cup ms /\ \A n \in seen : n \in seen' \/ n \in ms
    BY <1>2 DEF Deliver
  <2>2. \A n \in ms : n.type = "Hold" /\ n.tx = id
    BY DEF Hold
  <2>3. id \in TxIds /\ TwoParty(id)
    <3>1. Hash2(m.order) = Hash1(other)
      BY <1>0, <1>2, <1>b DEF Join, RevertInv, RevertParts, BookFiled
    <3>2. AppOf(m.order) # AppOf(other)
      BY <1>0, <3>1 DEF NoSelfTrade
    <3> QED
      BY <1>0, <3>2 DEF TwoParty, TxIds
  <2>4. transactions' = [transactions EXCEPT ![m.to][id] = Joined]
    BY <1>2 DEF Join
  <2>5. BookFiled'
    <3>1. \A h \in Hubs, k \in Key : \A o \in book'[h][k].orders : o \in book[h][k].orders
      BY <1>0, <1>2, <1>a DEF Join, DeletePendingTransactions, NoOffer
    <3> QED
      BY <3>1, BookFrame DEF RevertInv, RevertParts
  <2> HIDE DEF ms, id
  <2>6. ASSUME NEW h \in Hubs, NEW i \in TxIds
        PROVE  Calm(h, i)
    <3>1. CASE h = m.to /\ i = id
      <4>1. transactions'[h][i] = Joined
        BY <1>a, <2>3, <2>4, <3>1
      <4> QED
        BY <2>3, <3>1, <4>1 DEF Calm, Joined, Invalid
    <3>2. CASE h # m.to \/ i # id
      BY <1>0, <1>a, <2>3, <2>4, <3>2, RecordUnchanged
    <3> QED
      BY <3>1, <3>2
  <2>7. RevertParts' /\ (OnceParts => OnceParts')
    BY <2>1, <2>2, <2>3, <2>5, <2>6, CalmHubStep
  <2>8. ClosedParts => ClosedParts'
    BY <2>1, <2>2, <2>6, CalmRuns, EndsFrame
  <2> QED
    BY <2>7, <2>8
<1>3. ASSUME Deliver(m, {}), UNCHANGED <<book, transactions>>
      PROVE  /\ RevertParts'
             /\ OnceParts => OnceParts'
             /\ ClosedParts => ClosedParts'
  <2>1. net' = net /\ seen \subseteq seen'
    BY <1>3 DEF Deliver
  <2> QED
    BY <1>3, <2>1, BookKept, RecordUnchanged, CalmSilentStep
<1> QED
  BY <1>1, <1>2, <1>3 DEF ProcessTransaction

LEMMA HubQuietReverts ==
    ASSUME RevertInv, UNCHANGED clientVars, NEW h \in Hubs
    PROVE  LET Kept == /\ RevertParts'
                       /\ OnceParts => OnceParts'
                       /\ ClosedParts => ClosedParts'
           IN  /\ \A m \in net : ProcessTransactionCancelAtHub(m) => Kept
               /\ \A id \in TxIds : Expire(h, id) \/ (DeleteTransaction(h, id) /\ UNCHANGED book) => Kept
               /\ \A k \in Key : ExpireOffer(h, k) \/ EraseExpiredPendingTransaction(h, k) => Kept
               /\ HubRestart(h) => Kept
<1> DEFINE Kept == /\ RevertParts'
                   /\ OnceParts => OnceParts'
                   /\ ClosedParts => ClosedParts'
<1>a. /\ book \in [Hubs -> [Key -> [orders : SUBSET Orders, expired : BOOLEAN]]]
      /\ transactions \in [Hubs -> [TxIds -> Record]]
      /\ BookFiled
  BY DEF RevertInv, RevertParts, SwapInv, TypeOK, HubTypeOK
<1>b. NoOffer.orders = {}
  BY DEF NoOffer
<1>1. ASSUME NEW m \in net, ProcessTransactionCancelAtHub(m)
      PROVE  Kept
  <2>1. \A g \in Hubs, k \in Key : \A o \in book'[g][k].orders : o \in book[g][k].orders
    BY <1>1, <1>a, <1>b DEF ProcessTransactionCancelAtHub, DeletePendingTransactions
  <2>2. net' = net /\ seen \subseteq seen' /\ transactions' = transactions
    BY <1>1 DEF ProcessTransactionCancelAtHub, Deliver
  <2> QED
    BY <1>a, <2>1, <2>2, BookFrame, RecordUnchanged, CalmSilentStep
<1>2. ASSUME NEW id \in TxIds, Expire(h, id)
      PROVE  Kept
  <2> DEFINE tr == [transactions[h][id] EXCEPT !.listed = TRUE]
  <2>1. net' = net /\ seen' = seen /\ book' = book /\ transactions' = [transactions EXCEPT ![h][id] = tr]
    BY <1>2 DEF Expire, netVars
  <2>2. transactions[h][id] \in Record /\ transactions[h][id].state \in Acknowledged
    BY <1>2, <1>a DEF Expire
  <2>3. TwoParty(id)
    BY <2>2 DEF RevertInv, RevertParts, OnlyTwoParties, Invalid, Acknowledged
  <2>4. /\ tr.state = transactions[h][id].state
        /\ tr.firstStateChanged = transactions[h][id].firstStateChanged
        /\ tr.secondStateChanged = transactions[h][id].secondStateChanged
        /\ tr.rawrevtx1 = transactions[h][id].rawrevtx1
        /\ tr.rawrevtx2 = transactions[h][id].rawrevtx2
    BY <2>2 DEF Record
  <2> HIDE DEF tr
  <2>5. transactions'[h][id] = tr
    BY <1>a, <2>1
  <2>6. Calm(h, id)
    BY <2>3, <2>4, <2>5 DEF Calm
  <2>7. \A g \in Hubs, i \in TxIds : Calm(g, i)
    BY <1>a, <2>1, <2>6, RecordUnchanged
  <2> QED
    BY <2>1, <2>7, BookKept, CalmSilentStep
<1>3. ASSUME NEW id \in TxIds, DeleteTransaction(h, id), UNCHANGED book
      PROVE  Kept
  <2>1. net' = net /\ seen' = seen /\ transactions' = [transactions EXCEPT ![h][id] = Invalid]
    BY <1>3 DEF DeleteTransaction, netVars
  <2>2. transactions'[h][id] = Invalid
    BY <1>a, <2>1
  <2>3. Calm(h, id)
    BY <2>2 DEF Calm, Invalid
  <2>4. \A g \in Hubs, i \in TxIds : Calm(g, i)
    BY <1>a, <2>1, <2>3, RecordUnchanged
  <2> QED
    BY <1>3, <2>1, <2>4, BookKept, CalmSilentStep
<1>4. ASSUME NEW k \in Key, ExpireOffer(h, k) \/ EraseExpiredPendingTransaction(h, k)
      PROVE  Kept
  <2>1. \A g \in Hubs, l \in Key : \A o \in book'[g][l].orders : o \in book[g][l].orders
    <3>1. CASE ExpireOffer(h, k)
      <4> DEFINE offer == [book[h][k] EXCEPT !.expired = TRUE]
      <4>1. book' = [book EXCEPT ![h][k] = offer]
        BY <3>1 DEF ExpireOffer
      <4>2. offer.orders = book[h][k].orders
        BY <1>a
      <4> HIDE DEF offer
      <4> QED
        BY <1>a, <4>1, <4>2
    <3>2. CASE EraseExpiredPendingTransaction(h, k)
      BY <1>a, <1>b, <3>2 DEF EraseExpiredPendingTransaction, DeletePendingTransactions
    <3> QED
      BY <1>4, <3>1, <3>2
  <2>2. net' = net /\ seen' = seen /\ transactions' = transactions
    BY <1>4 DEF ExpireOffer, EraseExpiredPendingTransaction, netVars
  <2> QED
    BY <1>a, <2>1, <2>2, BookFrame, RecordUnchanged, CalmSilentStep
<1>5. ASSUME HubRestart(h)
      PROVE  Kept
  <2>1. \A g \in Hubs, k \in Key : \A o \in book'[g][k].orders : o \in book[g][k].orders
    BY <1>a, <1>b, <1>5 DEF HubRestart
  <2>2. net' = net /\ seen' = seen
        /\ transactions' = [transactions EXCEPT ![h] = [id \in TxIds |-> Invalid]]
    BY <1>5 DEF HubRestart, netVars
  <2>3. \A i \in TxIds : Calm(h, i)
    BY <1>a, <2>2 DEF Calm, Invalid
  <2>4. \A g \in Hubs, i \in TxIds : Calm(g, i)
    BY <1>a, <2>2, <2>3, RecordUnchanged
  <2> QED
    BY <1>a, <2>1, <2>2, <2>4, BookFrame, CalmSilentStep
<1> QED
  BY <1>1, <1>2, <1>3, <1>4, <1>5

LEMMA TimersReverts ==
    ASSUME RevertInv, UNCHANGED clientVars, NEW h \in Hubs, NEW id \in TxIds,
           CheckFinishedTransaction(h, id)
    PROVE  /\ RevertParts'
           /\ OnceParts => OnceParts'
           /\ PhaseMeansPaid /\ OnceParts /\ ClosedParts => ClosedParts'
<1> DEFINE old == transactions[h][id]
           ended == [old EXCEPT !.state = "trFinished"]
<1>a. /\ transactions \in [Hubs -> [TxIds -> Record]] /\ UNCHANGED book
      /\ seen \subseteq net
      /\ old \in Record
  BY DEF RevertInv, SwapInv, TypeOK, PacketsTypeOK, HubTypeOK, CheckFinishedTransaction
<1>b. BookFiled'
  BY <1>a, BookKept
<1>c. ~TwoParty(id) => old.state = "trInvalid"
  BY DEF RevertInv, RevertParts, OnlyTwoParties, Invalid
<1>d. /\ ended.state = "trFinished"
      /\ ended.rawrevtx1 = old.rawrevtx1 /\ ended.rawrevtx2 = old.rawrevtx2
  BY <1>a DEF Record
<1>e. CASE DeleteTransaction(h, id)
  BY <1>a, <1>e, HubQuietReverts
<1>1. ASSUME old.state # "trInvalid", transactions' = [transactions EXCEPT ![h][id] = ended]
      PROVE  \A g \in Hubs, i \in TxIds : Calm(g, i)
  <2> HIDE DEF ended
  <2>1. transactions'[h][id] = ended
    BY <1>1, <1>a
  <2>2. Calm(h, id)
    BY <1>1, <1>c, <1>d, <2>1 DEF Calm
  <2> QED
    BY <1>1, <1>a, <2>2, RecordUnchanged
<1>2. CASE FinishTransaction(h, id)
  <2> DEFINE ms == FinishedAll(h, id)
  <2>1. \A n \in ms : n.type = "Finished" /\ n.tx = id
    BY DEF FinishedAll, Finished
  <2>2. net' = net \cup ms /\ \A n \in seen : n \in seen' \/ n \in ms
    BY <1>2 DEF FinishTransaction, Send
  <2>3. old.state = "trConfirmed" /\ transactions' = [transactions EXCEPT ![h][id] = ended]
    BY <1>2 DEF FinishTransaction
  <2> HIDE DEF ms
  <2>4. RevertParts' /\ (OnceParts => OnceParts')
    BY <1>1, <1>b, <1>c, <2>1, <2>2, <2>3, CalmHubStep
  <2>5. ~PhaseMeansPaid
    BY <1>c, <2>3 DEF PhaseMeansPaid
  <2> QED
    BY <2>4, <2>5
<1>3. CASE RollbackTransaction(h, id)
  <2>1. old.state \in Acknowledged /\ TwoParty(id)
    BY <1>3, <1>c DEF RollbackTransaction, Acknowledged
  <2>2. transactions' = [transactions EXCEPT ![h][id] = ended]
    BY <1>3 DEF RollbackTransaction
  <2> DEFINE ms == CancelAll(id) \cup
                   IF MayHavePaid(old.state)
                   THEN {Rollback(Source[id[1]], h, id), Rollback(Source[id[2]], h, id)}
                   ELSE {}
  <2>3. net' = net \cup ms /\ \A n \in seen : n \in seen' \/ n \in ms
    BY <1>3 DEF RollbackTransaction, Send
  <2>4. \A n \in ms : \/ n.type = "Cancel"
                      \/ /\ n.type = "Rollback" /\ n.hub = h /\ n.tx = id
                         /\ n.to \in {Source[id[1]], Source[id[2]]}
                         /\ old.state \in {"trSigned", "trCommited"}
    BY DEF CancelAll, Cancel, Rollback, MayHavePaid
  <2> HIDE DEF ms
  <2>5. old.state \in Running => BothApplied(h, id)
    BY DEF RevertInv, RevertParts, AppliedFirst
  <2>6. RevertParts' /\ (OnceParts => OnceParts')
    BY <1>1, <1>b, <2>1, <2>2, <2>3, <2>4, <2>5, CalmHubStep DEF Acknowledged, Running
  <2>7. ASSUME OnceParts, ClosedParts
        PROVE  ClosedParts'
    <3>1. transactions'[h][id].state = "trFinished"
      BY <1>a, <1>d, <2>2
    <3>2. \A g \in Hubs, i \in TxIds : g # h \/ i # id => transactions'[g][i] = transactions[g][i]
      BY <1>a, <2>2
    <3>3. old.state \in Running => Told(h, id, "Init") /\ ~Announced(h, id)
      BY <2>7 DEF OnceParts, RunsOnce, ClosedParts, EndsOnce
    <3>4. \A g, i : /\ Announced(g, i)' => Announced(g, i)
                    /\ Told(g, i, "Init") => Told(g, i, "Init")'
                    /\ RolledBack(g, i)' => \/ RolledBack(g, i)
                                            \/ g = h /\ i = id /\ old.state \in Running
      BY <2>3, <2>4 DEF Announced, RolledBack, Told, Running
    <3>5. EndsOnce'
      <4> SUFFICES ASSUME NEW g \in Hubs, NEW i \in TxIds,
                          Announced(g, i)' \/ RolledBack(g, i)'
                   PROVE  Told(g, i, "Init")' /\ transactions'[g][i].state \notin Running
        BY DEF EndsOnce
      <4>1. CASE g = h /\ i = id
        BY <2>7, <3>1, <3>3, <3>4, <4>1 DEF ClosedParts, EndsOnce, Running
      <4>2. CASE g # h \/ i # id
        BY <2>7, <3>2, <3>4, <4>2 DEF ClosedParts, EndsOnce
      <4> QED
        BY <4>1, <4>2
    <3>6. NeverFinishedAndRolledBack'
      BY <2>7, <3>3, <3>4 DEF ClosedParts, NeverFinishedAndRolledBack
    <3> QED
      BY <3>5, <3>6 DEF ClosedParts
  <2> QED
    BY <2>6, <2>7
<1> QED
  BY <1>e, <1>2, <1>3 DEF CheckFinishedTransaction

\* A report moves no record of a swap nobody joined, and none into a phase.
LEMMA ReportReverts ==
    ASSUME RevertInv, UNCHANGED clientVars, NEW h \in Hubs, NEW hash \in paid,
           UpdateTransaction(h, hash)
    PROVE  /\ RevertParts'
           /\ OnceParts => OnceParts'
           /\ HubWalletReports
<1> DEFINE wallet == walletTransactions[h] \cup {hash}
           found == {u \in hubUnconfirmed[h] : u[1] \in wallet}
           hits(id) == {u[1] : u \in {v \in found : v[2] = id}}
<1>1. /\ transactions' = [transactions EXCEPT ![h] =
             [id \in TxIds |-> Confirm(transactions[h][id], hits(id))]]
      /\ transactions \in [Hubs -> [TxIds -> Record]]
      /\ UNCHANGED <<book, netVars>>
  BY DEF UpdateTransaction, RevertInv, SwapInv, TypeOK, HubTypeOK
<1>2. wallet \subseteq Payments
  BY DEF RevertInv, SwapInv, TypeOK, HubTypeOK, ClientTypeOK
<1>3. \A id : NoPayment \notin hits(id)
  <2>1. NoPayment \notin Payments
    BY DEF Payments, NoPayment
  <2>2. \A id : hits(id) \subseteq wallet
    OBVIOUS
  <2> HIDE DEF hits, wallet
  <2> QED
    BY <1>2, <2>1, <2>2
<1> HIDE DEF hits
<1>4. ASSUME NEW id \in TxIds
      PROVE  Calm(h, id)
  <2> DEFINE old == transactions[h][id]
             new == transactions'[h][id]
  <2>1. new = Confirm(old, hits(id)) /\ old \in Record
    BY <1>1
  <2>2. /\ new.state \in {old.state, "trConfirmed"}
        /\ new.firstStateChanged = old.firstStateChanged
        /\ new.secondStateChanged = old.secondStateChanged
        /\ new.rawrevtx1 = old.rawrevtx1 /\ new.rawrevtx2 = old.rawrevtx2
    BY <2>1 DEF Confirm, Record
  <2>3. old = Invalid => new = Invalid
    <3> SUFFICES ASSUME old = Invalid PROVE new = Invalid
      OBVIOUS
    <3>1. {old.txhash1, old.txhash2} \cap hits(id) = {}
      BY <1>3 DEF Invalid
    <3> QED
      BY <2>1, <3>1 DEF Confirm, Invalid
  <2> QED
    BY <2>2, <2>3 DEF Calm, RevertInv, RevertParts, OnlyTwoParties
<1>5. \A g \in Hubs, i \in TxIds : Calm(g, i)
  BY <1>1, <1>4, RecordUnchanged
<1>6. net' = net /\ seen \subseteq seen'
  BY <1>1 DEF netVars
<1> QED
  BY <1>1, <1>5, <1>6, BookKept, CalmSilentStep DEF UpdateTransaction

-----------------------------------------------------------------------------
(***************************************************************************)
(* Acknowledgements.                                                       *)
(***************************************************************************)
\* What an acknowledgement m, counted in state, makes of the record when it is the
\* first one or counts for nothing, and when both are heard.
AckQuiet(m, state) ==
    LET old == transactions[m.to][m.tx]
        new == transactions'[m.to][m.tx]
    IN  /\ new.state = old.state
        /\ old.state # state =>
             /\ new.firstStateChanged = old.firstStateChanged
             /\ new.secondStateChanged = old.secondStateChanged
        /\ old.state = state => ~(new.firstStateChanged /\ new.secondStateChanged)
        /\ new.firstStateChanged =>
             old.firstStateChanged \/ m.from = AckAddress(state, m.tx[1])
        /\ new.secondStateChanged =>
             old.secondStateChanged \/ m.from = AckAddress(state, m.tx[2])

AckOver(m, state) ==
    LET old == transactions[m.to][m.tx]
        new == transactions'[m.to][m.tx]
    IN  /\ old.state = state
        /\ new.state = Successor[state]
        /\ ~new.firstStateChanged /\ ~new.secondStateChanged
        /\ old.firstStateChanged \/ m.from = AckAddress(state, m.tx[1])
        /\ old.secondStateChanged \/ m.from = AckAddress(state, m.tx[2])

\* ms are the packets sent for it.
AckOutcome(m, state, sent, ms) ==
    /\ net' = net \cup ms /\ seen' = (seen \cup {m}) \ ms
    /\ (ms = {} /\ AckQuiet(m, state)) \/ (ms = sent /\ AckOver(m, state))

AckRecord(m, tr, new) ==
    /\ m \in Deliverable
    /\ \A h \in Hubs, i \in TxIds :
          h # m.to \/ i # m.tx => transactions'[h][i] = transactions[h][i]
    /\ new.rawrevtx1 = tr.rawrevtx1 /\ new.rawrevtx2 = tr.rawrevtx2
    /\ tr = Invalid => new = Invalid

LEMMA AckStep ==
    ASSUME TypeOK, NEW m, NEW tr, NEW state \in Acknowledged, NEW sent,
           Acknowledges(m, tr, state, sent)
    PROVE  /\ AckRecord(m, tr, transactions'[m.to][m.tx])
           /\ \E ms : AckOutcome(m, state, sent, ms)
<1> DEFINE id == m.tx
           old == transactions[m.to][id]
           new == transactions'[m.to][id]
           ms == IF BothHeard(id, tr, state, m.from) THEN sent ELSE {}
<1> USE DEF Acknowledges
<1>1. new = IncreaseStateCounter(id, tr, state, m.from)
      /\ \A h \in Hubs, i \in TxIds : h # m.to \/ i # id => transactions'[h][i] = transactions[h][i]
  BY DEF Acknowledge, TypeOK, HubTypeOK
<1>2. m \in Deliverable /\ net' = net \cup ms /\ seen' = (seen \cup {m}) \ ms
  BY DEF Acknowledge, Deliver
<1>3. tr = Invalid => new = Invalid
  BY <1>1 DEF IncreaseStateCounter, Invalid, Acknowledged
<1>4. CASE BothHeard(id, tr, state, m.from)
  <2>1. new = [tr EXCEPT !.state = Successor[state],
                         !.firstStateChanged = FALSE, !.secondStateChanged = FALSE]
    BY <1>1, <1>4 DEF IncreaseStateCounter, BothHeard
  <2>2. /\ new.state = Successor[state] /\ ~new.firstStateChanged /\ ~new.secondStateChanged
        /\ new.rawrevtx1 = tr.rawrevtx1 /\ new.rawrevtx2 = tr.rawrevtx2
    BY <2>1 DEF Record
  <2>3. ms = sent
    BY <1>4
  <2> HIDE DEF ms
  <2> QED
    <3>1. AckOver(m, state)
      BY <1>4, <2>2 DEF AckOver, BothHeard, FirstHeard, SecondHeard
    <3>2. AckRecord(m, tr, new)
      BY <1>1, <1>2, <1>3, <2>2 DEF AckRecord
    <3> QED
      BY <1>2, <2>3, <3>1, <3>2 DEF AckOutcome
<1>5. CASE ~BothHeard(id, tr, state, m.from) /\ tr.state = state
  <2>1. new = [tr EXCEPT !.firstStateChanged = FirstHeard(id, tr, state, m.from),
                         !.secondStateChanged = SecondHeard(id, tr, state, m.from)]
    BY <1>1, <1>5 DEF IncreaseStateCounter
  <2>2. /\ new.state = tr.state
        /\ new.firstStateChanged = FirstHeard(id, tr, state, m.from)
        /\ new.secondStateChanged = SecondHeard(id, tr, state, m.from)
        /\ new.rawrevtx1 = tr.rawrevtx1 /\ new.rawrevtx2 = tr.rawrevtx2
    BY <2>1 DEF Record
  <2>3. ~(new.firstStateChanged /\ new.secondStateChanged)
    BY <1>5, <2>2 DEF BothHeard
  <2>4. ms = {}
    BY <1>5
  <2> HIDE DEF ms
  <2> QED
    <3>1. AckQuiet(m, state)
      BY <1>5, <2>2, <2>3 DEF AckQuiet, FirstHeard, SecondHeard
    <3>2. AckRecord(m, tr, new)
      BY <1>1, <1>2, <1>3, <2>2 DEF AckRecord
    <3> QED
      BY <1>2, <2>4, <3>1, <3>2 DEF AckOutcome
<1>6. CASE tr.state # state
  <2>1. ms = {}
    BY <1>6 DEF BothHeard
  <2> HIDE DEF ms
  <2> QED
    <3>0. new = tr
      BY <1>1, <1>6 DEF IncreaseStateCounter
    <3>1. AckQuiet(m, state)
      BY <1>6, <3>0 DEF AckQuiet
    <3>2. AckRecord(m, tr, new)
      BY <1>1, <1>2, <3>0 DEF AckRecord
    <3> QED
      BY <1>2, <2>1, <3>1, <3>2 DEF AckOutcome
<1> QED
  BY <1>4, <1>5, <1>6

\* The parts of RevertParts and OnceParts that speak of one record or packet.
AppliedAt(h, id) ==
    LET tr == transactions[h][id] IN
    /\ tr.state = "trJoined" =>
         /\ tr.firstStateChanged => Applied(h, id[1], id)
         /\ tr.secondStateChanged => Applied(h, id[2], id)
    /\ tr.state \in Running => BothApplied(h, id)

SidesAt(h, id) ==
    /\ SideRev(transactions[h][id].rawrevtx1, id[1], id)
    /\ SideRev(transactions[h][id].rawrevtx2, id[2], id)

SidesOf(m) ==
    /\ m.type = "Created" => RevOf(m.rev, m.tx, m.from, Source[m.tx[1]], Source[m.tx[2]])
    /\ m.type = "Sign"    => RevOf(m.rev, m.tx, m.to, Dest[m.tx[2]], Dest[m.tx[1]])
    /\ m.type = "Signed"  => RevOf(m.rev, m.tx, m.from, Dest[m.tx[2]], Dest[m.tx[1]])
    /\ m.type = "Commit"  => RevOf(m.rev, m.tx, m.to, Source[m.tx[1]], Source[m.tx[2]])

RunsOnceAt(h, id) ==
    LET tr == transactions[h][id] IN
    /\ tr.state = "trJoined" =>
         /\ tr.firstStateChanged => Heard(h, Source[id[1]], id, "HoldApply")
         /\ tr.secondStateChanged => Heard(h, Source[id[2]], id, "HoldApply")
         /\ ~(tr.firstStateChanged /\ tr.secondStateChanged)
    /\ tr.state \in Running => Told(h, id, "Init")
    /\ Told(h, id, "Init") =>
         /\ Heard(h, Source[id[1]], id, "HoldApply")
         /\ Heard(h, Source[id[2]], id, "HoldApply")
    /\ Told(h, id, "Create") => Told(h, id, "Init") /\ tr.state # "trHold"
    /\ Told(h, id, "Sign") =>
         Told(h, id, "Init") /\ tr.state \notin {"trHold", "trInitialized"}
    /\ Told(h, id, "Commit") =>
         Told(h, id, "Init") /\ tr.state \notin {"trHold", "trInitialized", "trCreated"}

ReadyAt(h, id) ==
    LET tr == transactions[h][id] IN
    /\ tr.state = "trInitialized" =>
         /\ tr.firstStateChanged =>
              tr.rawrevtx1.spends # NoPayment /\ Heard(h, Source[id[1]], id, "Created")
         /\ tr.secondStateChanged =>
              tr.rawrevtx2.spends # NoPayment /\ Heard(h, Source[id[2]], id, "Created")
    /\ tr.state = "trCreated" =>
         /\ tr.rawrevtx1.spends # NoPayment /\ Heard(h, Source[id[1]], id, "Created")
         /\ tr.rawrevtx2.spends # NoPayment /\ Heard(h, Source[id[2]], id, "Created")
         /\ tr.firstStateChanged => tr.rawrevtx2.signed
         /\ tr.secondStateChanged => tr.rawrevtx1.signed

ReadyOf(m) ==
    /\ m.type = "Created" =>
         /\ m.rev.spends \in built /\ ~m.rev.signed
         /\ m.rev.spends[1] = m.from /\ m.rev.spends[2] = m.tx
    /\ m.type \in {"Sign", "Signed", "Commit"} => m.rev.spends # NoPayment
    /\ m.type \in {"Signed", "Commit"} => m.rev.signed

LEMMA PartsAt ==
    /\ AppliedFirst <=>
         /\ \A h \in Hubs, id \in TxIds : AppliedAt(h, id)
         /\ \A m \in net : m.type \in {"Commit", "Rollback"} => BothApplied(m.hub, m.tx)
    /\ RevertsOwnSide <=>
         /\ \A h \in Hubs, id \in TxIds : SidesAt(h, id)
         /\ \A m \in net : SidesOf(m)
         /\ \A a \in Apps, id \in TxIds :
               RevOf(swaps[a][id].revTx, id, a, AppOf(id[1]), AppOf(id[2]))
    /\ RunsOnce <=> \A h \in Hubs, id \in TxIds : RunsOnceAt(h, id)
    /\ RevertsReady <=>
         /\ \A h \in Hubs, id \in TxIds : ReadyAt(h, id)
         /\ \A m \in net : ReadyOf(m)
<1>1. AppliedFirst <=>
        /\ \A h \in Hubs, id \in TxIds : AppliedAt(h, id)
        /\ \A m \in net : m.type \in {"Commit", "Rollback"} => BothApplied(m.hub, m.tx)
  BY DEF AppliedFirst, AppliedAt
<1>2. RevertsOwnSide <=>
        /\ \A h \in Hubs, id \in TxIds : SidesAt(h, id)
        /\ \A m \in net : SidesOf(m)
        /\ \A a \in Apps, id \in TxIds :
              RevOf(swaps[a][id].revTx, id, a, AppOf(id[1]), AppOf(id[2]))
  BY DEF RevertsOwnSide, SidesAt, SidesOf
<1>3. RunsOnce <=> \A h \in Hubs, id \in TxIds : RunsOnceAt(h, id)
  BY DEF RunsOnce, RunsOnceAt
<1>4. RevertsReady <=>
        /\ \A h \in Hubs, id \in TxIds : ReadyAt(h, id)
        /\ \A m \in net : ReadyOf(m)
  BY DEF RevertsReady, ReadyAt, ReadyOf
<1> QED
  BY <1>1, <1>2, <1>3, <1>4

\* What an acknowledgement leaves alone.
LEMMA AckFrame ==
    ASSUME RevertInv, UNCHANGED <<clientVars, book>>, NEW h0 \in Hubs, NEW id0 \in TxIds,
           NEW ms, net' = net \cup ms, \A n \in seen : n \in seen' \/ n \in ms,
           \A n \in ms : /\ n.type \in {"Init", "Create", "Sign", "Commit"}
                         /\ n.hub = h0 /\ n.tx = id0,
           \A h \in Hubs, id \in TxIds :
               h # h0 \/ id # id0 => transactions'[h][id] = transactions[h][id]
    PROVE  /\ /\ ~TwoParty(id0) => ms = {} /\ transactions'[h0][id0] = Invalid
              /\ \A n \in ms : n.type = "Commit" => BothApplied(h0, id0)
              /\ AppliedAt(h0, id0)' /\ SidesAt(h0, id0)' /\ \A n \in ms : SidesOf(n)
              => RevertParts'
           /\ /\ OnceParts
              /\ RunsOnceAt(h0, id0)' /\ ReadyAt(h0, id0)' /\ \A n \in ms : ReadyOf(n)
              /\ \A n \in ms : n.type = "Create" => n \notin seen
              => OnceParts'
<1>0. built' = built /\ paid' = paid /\ swaps' = swaps /\ book' = book
  BY DEF clientVars
<1>1. /\ \A h, id, type : Told(h, id, type) => Told(h, id, type)'
      /\ \A h, id, type : Told(h, id, type)' =>
           \/ Told(h, id, type)
           \/ \E n \in ms : n.type = type /\ n.hub = h /\ n.tx = id
      /\ \A h, id : BothApplied(h, id) => BothApplied(h, id)'
      /\ \A h, o, id : Applied(h, o, id) => Applied(h, o, id)'
      /\ \A h, addr, id, type : (\A n \in ms : n.type # type) =>
           (Heard(h, addr, id, type) => Heard(h, addr, id, type)')
      /\ \A rev, o, id : SideRev(rev, o, id) => SideRev(rev, o, id)'
      /\ \A rev, id, addr, one, two :
           RevOf(rev, id, addr, one, two) => RevOf(rev, id, addr, one, two)'
  BY <1>0, Stable
<1>2. ASSUME NEW h \in Hubs, NEW id \in TxIds, h # h0 \/ id # id0
      PROVE  /\ AppliedAt(h, id) => AppliedAt(h, id)'
             /\ SidesAt(h, id) => SidesAt(h, id)'
             /\ RunsOnceAt(h, id) => RunsOnceAt(h, id)'
             /\ ReadyAt(h, id) => ReadyAt(h, id)'
  <2>1. transactions'[h][id] = transactions[h][id]
    BY <1>2
  <2>2. \A type : Told(h, id, type)' <=> Told(h, id, type)
    BY <1>1, <1>2
  <2>3. \A addr : \A type \in {"HoldApply", "Created"} :
          Heard(h, addr, id, type) => Heard(h, addr, id, type)'
    BY <1>1
  <2>4. AppliedAt(h, id) => AppliedAt(h, id)'
    BY <1>1, <2>1 DEF AppliedAt
  <2>5. SidesAt(h, id) => SidesAt(h, id)'
    BY <1>1, <2>1 DEF SidesAt
  <2>6. RunsOnceAt(h, id) => RunsOnceAt(h, id)'
    BY <2>1, <2>2, <2>3 DEF RunsOnceAt
  <2>7. ReadyAt(h, id) => ReadyAt(h, id)'
    BY <2>1, <2>3 DEF ReadyAt
  <2> QED
    BY <2>4, <2>5, <2>6, <2>7
<1>3. \A m : (SidesOf(m) => SidesOf(m)') /\ (ReadyOf(m) => ReadyOf(m)')
  BY <1>0, <1>1 DEF SidesOf, ReadyOf
<1>4. ASSUME ~TwoParty(id0) => ms = {} /\ transactions'[h0][id0] = Invalid,
             \A n \in ms : n.type = "Commit" => BothApplied(h0, id0),
             AppliedAt(h0, id0)', SidesAt(h0, id0)', \A n \in ms : SidesOf(n)
      PROVE  RevertParts'
  <2>1. BookFiled'
    BY <1>0, BookKept
  <2>2. OnlyTwoParties'
    BY <1>4 DEF OnlyTwoParties, RevertInv, RevertParts, TwoParty, AppOf
  <2>3. AppliedFirst'
    <3>1. \A n \in net' : n.type \in {"Commit", "Rollback"} => BothApplied(n.hub, n.tx)'
      BY <1>1, <1>4, PartsAt DEF RevertInv, RevertParts
    <3>2. \A h \in Hubs, id \in TxIds : AppliedAt(h, id)'
      BY <1>2, <1>4, PartsAt DEF RevertInv, RevertParts
    <3> QED
      BY <3>1, <3>2 DEF AppliedFirst, AppliedAt
  <2>4. RollbacksAddressed'
    BY DEF RollbacksAddressed, RevertInv, RevertParts
  <2>5. RevertsOwnSide'
    <3>1. \A h \in Hubs, id \in TxIds : SidesAt(h, id)'
      BY <1>2, <1>4, PartsAt DEF RevertInv, RevertParts
    <3>2. \A n \in net' : SidesOf(n)'
      BY <1>3, <1>4, PartsAt DEF RevertInv, RevertParts
    <3>3. \A a \in Apps, id \in TxIds :
            RevOf(swaps[a][id].revTx, id, a, AppOf(id[1]), AppOf(id[2]))'
      BY <1>0, <1>1 DEF RevertsOwnSide, RevertInv, RevertParts, AppOf
    <3> QED
      BY <3>1, <3>2, <3>3 DEF RevertsOwnSide, SidesAt, SidesOf
  <2>6. SignedMeansTold'
    BY <1>0 DEF SignedMeansTold, RevertInv, RevertParts
  <2> QED
    BY <2>1, <2>2, <2>3, <2>4, <2>5, <2>6 DEF RevertParts
<1>5. ASSUME OnceParts, RunsOnceAt(h0, id0)', ReadyAt(h0, id0)', \A n \in ms : ReadyOf(n),
             \A n \in ms : n.type = "Create" => n \notin seen
      PROVE  OnceParts'
  <2>1. \A h \in Hubs, id \in TxIds : RunsOnceAt(h, id)'
    BY <1>2, <1>5, PartsAt DEF OnceParts
  <2>2. RunsOnce'
    BY <2>1 DEF RunsOnce, RunsOnceAt
  <2>3. OnePaymentEach'
    <3>1. \A a, h, id : Create(a, h, id).type = "Create"
      BY DEF Create
    <3>2. \A a, h, id : Create(a, h, id) \in seen => Create(a, h, id) \in seen'
      BY <1>5, <3>1
    <3> QED
      BY <1>0, <1>5, <3>2 DEF OnceParts, OnePaymentEach
  <2>4. \A h \in Hubs, id \in TxIds : ReadyAt(h, id)'
    BY <1>2, <1>5, PartsAt DEF OnceParts
  <2>5. \A n \in net' : ReadyOf(n)'
    BY <1>3, <1>5, PartsAt DEF OnceParts
  <2>6. RevertsReady'
    BY <2>4, <2>5 DEF RevertsReady, ReadyAt, ReadyOf
  <2>7. PayerCanRevert'
    BY <1>0, <1>5 DEF OnceParts, PayerCanRevert
  <2> QED
    BY <2>2, <2>3, <2>6, <2>7 DEF OnceParts
<1> QED
  BY <1>4, <1>5

\* A setter writes nothing but what it is for.
LEMMA SettersAcknowledge ==
    ASSUME TypeOK, NEW m \in net
    PROVE  /\ ProcessTransactionCreated(m) =>
                LET tr == SetRawPayTx(m.tx, TransactionOf(m), m.from, m.rev) IN
                Acknowledges(m, tr, "trInitialized",
                   {Sign(Dest[m.tx[1]], m.to, m.tx, tr.rawrevtx2),
                    Sign(Dest[m.tx[2]], m.to, m.tx, tr.rawrevtx1)})
           /\ ProcessTransactionSigned(m) =>
                LET tr == UpdateRawRevTx(m.tx, TransactionOf(m), m.from, m.rev) IN
                Acknowledges(m, tr, "trCreated",
                   {Commit(Source[m.tx[1]], m.to, m.tx, tr.rawrevtx1),
                    Commit(Source[m.tx[2]], m.to, m.tx, tr.rawrevtx2)})
           /\ ProcessTransactionCommited(m) =>
                LET tr == SetTxHash(m.tx, TransactionOf(m), m.from, m.hash) IN
                /\ Acknowledges(m, tr, "trSigned",
                      {ConfirmTx(Dest[m.tx[1]], m.to, m.tx, tr.txhash2),
                       ConfirmTx(Dest[m.tx[2]], m.to, m.tx, tr.txhash1)})
                /\ tr.rawrevtx1 = TransactionOf(m).rawrevtx1
                /\ tr.rawrevtx2 = TransactionOf(m).rawrevtx2
                /\ TransactionOf(m) = Invalid => tr = Invalid
<1> DEFINE old == transactions[m.to][m.tx]
           Same(tr) == /\ tr \in Record /\ tr.state = old.state
                       /\ tr.firstStateChanged = old.firstStateChanged
                       /\ tr.secondStateChanged = old.secondStateChanged
<1>1. m \in Packet
  BY DEF TypeOK, PacketsTypeOK
<1>2. ASSUME m.type \in {"Created", "Signed", "Commited"}
      PROVE  /\ m.to \in Hubs /\ m.tx \in TxIds /\ TransactionOf(m) = old /\ old \in Record
             /\ \A rev \in RawRevTx : /\ Same(SetRawPayTx(m.tx, TransactionOf(m), m.from, rev))
                                      /\ Same(UpdateRawRevTx(m.tx, TransactionOf(m), m.from, rev))
             /\ \A hash \in TxHash : Same(SetTxHash(m.tx, TransactionOf(m), m.from, hash))
  <2>1. m.to \in Hubs /\ m.tx \in TxIds
    BY <1>1, <1>2, PacketFields
  <2>2. TransactionOf(m) = old /\ old \in Record
    BY <2>1 DEF TypeOK, HubTypeOK, TransactionOf
  <2>3. Same(old)
    BY <2>2 DEF Record
  <2>4. \A rev \in RawRevTx : /\ Same(SetRawPayTx(m.tx, old, m.from, rev))
                              /\ Same(UpdateRawRevTx(m.tx, old, m.from, rev))
    BY <2>3 DEF SetRawPayTx, UpdateRawRevTx, Record
  <2>5. \A hash \in TxHash : Same(SetTxHash(m.tx, old, m.from, hash))
    BY <2>3 DEF SetTxHash, Record
  <2> QED
    BY <2>1, <2>2, <2>4, <2>5
<1>3. ASSUME ProcessTransactionCreated(m)
      PROVE  LET tr == SetRawPayTx(m.tx, TransactionOf(m), m.from, m.rev) IN
             Acknowledges(m, tr, "trInitialized",
                   {Sign(Dest[m.tx[1]], m.to, m.tx, tr.rawrevtx2),
                    Sign(Dest[m.tx[2]], m.to, m.tx, tr.rawrevtx1)})
  <2>1. m.rev \in RawRevTx
    BY <1>1, <1>3, PacketFields DEF ProcessTransactionCreated
  <2> QED
    BY <1>2, <1>3, <2>1 DEF ProcessTransactionCreated, Acknowledges
<1>4. ASSUME ProcessTransactionSigned(m)
      PROVE  LET tr == UpdateRawRevTx(m.tx, TransactionOf(m), m.from, m.rev) IN
             Acknowledges(m, tr, "trCreated",
                   {Commit(Source[m.tx[1]], m.to, m.tx, tr.rawrevtx1),
                    Commit(Source[m.tx[2]], m.to, m.tx, tr.rawrevtx2)})
  <2>1. m.rev \in RawRevTx
    BY <1>1, <1>4, PacketFields DEF ProcessTransactionSigned
  <2> QED
    BY <1>2, <1>4, <2>1 DEF ProcessTransactionSigned, Acknowledges
<1>5. ASSUME ProcessTransactionCommited(m)
      PROVE  LET tr == SetTxHash(m.tx, TransactionOf(m), m.from, m.hash) IN
             /\ Acknowledges(m, tr, "trSigned",
                   {ConfirmTx(Dest[m.tx[1]], m.to, m.tx, tr.txhash2),
                    ConfirmTx(Dest[m.tx[2]], m.to, m.tx, tr.txhash1)})
             /\ tr.rawrevtx1 = TransactionOf(m).rawrevtx1
             /\ tr.rawrevtx2 = TransactionOf(m).rawrevtx2
             /\ TransactionOf(m) = Invalid => tr = Invalid
  <2> DEFINE tr == SetTxHash(m.tx, TransactionOf(m), m.from, m.hash)
  <2>1. m.hash \in TxHash /\ m.type = "Commited"
    BY <1>1, <1>5, PacketFields DEF ProcessTransactionCommited
  <2>2. Acknowledges(m, tr, "trSigned",
                   {ConfirmTx(Dest[m.tx[1]], m.to, m.tx, tr.txhash2),
                    ConfirmTx(Dest[m.tx[2]], m.to, m.tx, tr.txhash1)})
    BY <1>2, <1>5, <2>1 DEF ProcessTransactionCommited, Acknowledges
  <2>3. tr.rawrevtx1 = TransactionOf(m).rawrevtx1 /\ tr.rawrevtx2 = TransactionOf(m).rawrevtx2
    BY <1>2, <2>1 DEF SetTxHash, Record
  <2>4. TransactionOf(m) = Invalid => tr = Invalid
    BY DEF SetTxHash, KnownSource, Invalid
  <2> QED
    BY <2>2, <2>3, <2>4
<1> QED
  BY <1>3, <1>4, <1>5

\* Without repetition a packet that is processed was not processed since it was
\* sent, so nothing like it was heard.
LEMMA HeardOnce ==
    ASSUME TypeOK, MaxDuplicates = 0, NEW m \in Deliverable
    PROVE  /\ m \notin seen
           /\ m.type = "HoldApply" => ~Heard(m.to, m.from, m.tx, "HoldApply")
<1>1. m \in net /\ m \notin seen /\ net \subseteq Packet /\ seen \subseteq Packet
  BY DEF TypeOK, PacketsTypeOK, Deliverable
<1>2. ASSUME m.type = "HoldApply", Heard(m.to, m.from, m.tx, "HoldApply")
      PROVE  FALSE
  <2>1. PICK n \in seen : /\ n.type = "HoldApply" /\ n.to = m.to
                          /\ n.from = m.from /\ n.tx = m.tx
    BY <1>2 DEF Heard
  <2>2. m \in Packet /\ n \in Packet
    BY <1>1
  <2>3. m = n
    BY <1>2, <2>1, <2>2, SamePacket
  <2> QED
    BY <1>1, <2>1, <2>3
<1> QED
  BY <1>1, <1>2

LEMMA HoldApplyReverts ==
    ASSUME RevertInv, UNCHANGED clientVars, NEW m \in net, ProcessTransactionHoldApply(m)
    PROVE  /\ RevertParts'
           /\ OnceParts /\ MaxDuplicates = 0 => OnceParts'
           /\ OnceParts /\ ClosedParts /\ MaxDuplicates = 0 => ClosedParts'
<1> DEFINE h == m.to
           id == m.tx
           old == transactions[h][id]
           new == transactions'[h][id]
           sent == {InitTx(Dest[id[1]], h, id), InitTx(Dest[id[2]], h, id)}
           first == old.firstStateChanged \/ m.from = Source[id[1]]
           second == old.secondStateChanged \/ m.from = Source[id[2]]
<1>0. TypeOK /\ m.type = "HoldApply" /\ book' = book
  BY DEF RevertInv, SwapInv, ProcessTransactionHoldApply, Acknowledge
<1>1. Acknowledges(m, TransactionOf(m), "trJoined", sent)
  BY <1>0, HandlersAcknowledge
<1>2. h \in Hubs /\ id \in TxIds /\ TransactionOf(m) = old
  BY <1>1 DEF Acknowledges, TransactionOf
<1>3. /\ "trJoined" \in Acknowledged /\ Successor["trJoined"] = "trHold"
      /\ AckAddress("trJoined", id[1]) = Source[id[1]]
      /\ AckAddress("trJoined", id[2]) = Source[id[2]]
  BY DEF Acknowledged, Successor, AckAddress
<1>e. /\ AckRecord(m, TransactionOf(m), new)
      /\ \E ms : AckOutcome(m, "trJoined", sent, ms)
  BY <1>0, <1>1, <1>3, AckStep
<1>4. /\ m \in Deliverable
      /\ \A g \in Hubs, i \in TxIds :
            g # h \/ i # id => transactions'[g][i] = transactions[g][i]
      /\ new.rawrevtx1 = old.rawrevtx1 /\ new.rawrevtx2 = old.rawrevtx2
      /\ old = Invalid => new = Invalid
  BY <1>2, <1>e DEF AckRecord
<1>c. PICK ms : AckOutcome(m, "trJoined", sent, ms)
  BY <1>e
<1>5. /\ net' = net \cup ms /\ seen' = (seen \cup {m}) \ ms
      /\ \/ /\ ms = {}
            /\ new.state = old.state
            /\ old.state # "trJoined" =>
                 /\ new.firstStateChanged = old.firstStateChanged
                 /\ new.secondStateChanged = old.secondStateChanged
            /\ old.state = "trJoined" => ~(new.firstStateChanged /\ new.secondStateChanged)
            /\ new.firstStateChanged => first
            /\ new.secondStateChanged => second
         \/ /\ ms = sent
            /\ old.state = "trJoined"
            /\ new.state = "trHold"
            /\ ~new.firstStateChanged /\ ~new.secondStateChanged
            /\ first /\ second
  BY <1>2, <1>3, <1>c DEF AckOutcome, AckQuiet, AckOver
<1>6. \A n \in sent : n.type = "Init" /\ n.hub = h /\ n.tx = id
  BY DEF InitTx
<1>7. \E n \in sent : n.type = "Init" /\ n.hub = h /\ n.tx = id
  BY DEF InitTx
<1> HIDE DEF sent
<1>8. /\ \A n \in ms : n.type = "Init" /\ n.hub = h /\ n.tx = id
      /\ \A n \in seen : n \in seen' \/ n \in ms
      /\ m \in seen'
  BY <1>0, <1>5, <1>6
<1>9. /\ \A type : Told(h, id, type) => Told(h, id, type)'
      /\ \A type : type # "Init" /\ Told(h, id, type)' => Told(h, id, type)
      /\ ms = {} => (Told(h, id, "Init")' => Told(h, id, "Init"))
      /\ ms = sent => Told(h, id, "Init")'
      /\ \A g, i : BothApplied(g, i) => BothApplied(g, i)'
      /\ \A g, o, i : Applied(g, o, i) => Applied(g, o, i)'
      /\ \A g, addr, i, type : type # "Init" =>
           (Heard(g, addr, i, type) => Heard(g, addr, i, type)')
      /\ \A rev, o, i : SideRev(rev, o, i) => SideRev(rev, o, i)'
  <2>0. built \subseteq built'
    BY DEF clientVars
  <2>1. \A type : type # "Init" /\ Told(h, id, type)' => Told(h, id, type)
    BY <1>5, <1>8 DEF Told
  <2>2. ms = {} => (Told(h, id, "Init")' => Told(h, id, "Init"))
    BY <1>5 DEF Told
  <2>3. ms = sent => Told(h, id, "Init")'
    BY <1>5, <1>7 DEF Told
  <2> QED
    BY <1>5, <1>8, <2>0, <2>1, <2>2, <2>3, Stable
<1>10. /\ m.from = Source[id[1]] => Applied(h, id[1], id) /\ Heard(h, Source[id[1]], id, "HoldApply")'
       /\ m.from = Source[id[2]] => Applied(h, id[2], id) /\ Heard(h, Source[id[2]], id, "HoldApply")'
  BY <1>0, <1>8 DEF Applied, Heard
<1>11. RevertParts'
  <2>1. AppliedAt(h, id)'
    <3>1. AppliedAt(h, id)
      BY <1>2, PartsAt DEF RevertInv, RevertParts
    <3> QED
      BY <1>5, <1>9, <1>10, <3>1 DEF AppliedAt, BothApplied, Running
  <2>2. SidesAt(h, id)'
    <3>1. SidesAt(h, id)
      BY <1>2, PartsAt DEF RevertInv, RevertParts
    <3> QED
      BY <1>4, <1>9, <3>1 DEF SidesAt
  <2>3. \A n \in ms : SidesOf(n)
    BY <1>8 DEF SidesOf
  <2>4. ~TwoParty(id) => ms = {} /\ new = Invalid
    BY <1>2, <1>4, <1>5 DEF RevertInv, RevertParts, OnlyTwoParties, Invalid
  <2> QED
    BY <1>0, <1>2, <1>4, <1>5, <1>8, <2>1, <2>2, <2>3, <2>4, AckFrame
<1>12. ASSUME OnceParts, MaxDuplicates = 0, ms = sent, old.state = "trJoined", first, second
       PROVE  ~Told(h, id, "Init")
  <2>1. RunsOnceAt(h, id)
    BY <1>2, <1>12, PartsAt DEF OnceParts
  <2>2. ~Heard(h, m.from, id, "HoldApply")
    BY <1>0, <1>4, <1>12, HeardOnce
  <2> QED
    BY <1>12, <2>1, <2>2 DEF RunsOnceAt
<1>13. ASSUME OnceParts, MaxDuplicates = 0
       PROVE  OnceParts'
  <2>1. RunsOnceAt(h, id) /\ ReadyAt(h, id)
    BY <1>2, <1>13, PartsAt DEF OnceParts
  <2>2. RunsOnceAt(h, id)'
    <3>1. CASE ms = sent /\ old.state = "trJoined" /\ new.state = "trHold" /\ first /\ second
      <4>1. ~Told(h, id, "Init")
        BY <1>12, <1>13, <3>1
      <4>2. ~Told(h, id, "Create")' /\ ~Told(h, id, "Sign")' /\ ~Told(h, id, "Commit")'
        BY <1>9, <2>1, <4>1 DEF RunsOnceAt
      <4>3. Told(h, id, "Init")'
        BY <1>9, <3>1
      <4>4. Heard(h, Source[id[1]], id, "HoldApply")' /\ Heard(h, Source[id[2]], id, "HoldApply")'
        BY <1>9, <1>10, <2>1, <3>1 DEF RunsOnceAt
      <4> QED
        BY <3>1, <4>2, <4>3, <4>4 DEF RunsOnceAt, Running
    <3>2. CASE /\ ms = {}
               /\ new.state = old.state
               /\ old.state # "trJoined" =>
                    /\ new.firstStateChanged = old.firstStateChanged
                    /\ new.secondStateChanged = old.secondStateChanged
               /\ old.state = "trJoined" => ~(new.firstStateChanged /\ new.secondStateChanged)
               /\ new.firstStateChanged => first
               /\ new.secondStateChanged => second
      <4>1. \A type : Told(h, id, type)' <=> Told(h, id, type)
        BY <1>9, <3>2
      <4>2. \A addr : Heard(h, addr, id, "HoldApply") => Heard(h, addr, id, "HoldApply")'
        BY <1>9
      <4> QED
        BY <1>10, <2>1, <3>2, <4>1, <4>2 DEF RunsOnceAt
    <3> QED
      BY <1>5, <3>1, <3>2
  <2>3. ReadyAt(h, id)'
    <3>1. \A addr : Heard(h, addr, id, "Created") => Heard(h, addr, id, "Created")'
      BY <1>9
    <3> QED
      BY <1>4, <1>5, <2>1, <3>1 DEF ReadyAt
  <2>4. \A n \in ms : ReadyOf(n) /\ n.type # "Create"
    BY <1>8 DEF ReadyOf
  <2> QED
    BY <1>0, <1>2, <1>4, <1>5, <1>8, <1>13, <2>2, <2>3, <2>4, AckFrame
<1>14. ASSUME OnceParts, ClosedParts, MaxDuplicates = 0
       PROVE  ClosedParts'
  <2>1. \A n \in ms : n.type \notin {"Finished", "Rollback"}
    BY <1>8
  <2>2. \A g \in Hubs, i \in TxIds : transactions'[g][i].state \in Running =>
            transactions[g][i].state \in Running \/ ~Told(g, i, "Init")
    BY <1>4, <1>5, <1>12, <1>14
  <2> QED
    BY <1>5, <1>14, <2>1, <2>2, EndsFrame
<1> QED
  BY <1>11, <1>13, <1>14

LEMMA InitializedReverts ==
    ASSUME RevertInv, UNCHANGED clientVars, NEW m \in net, ProcessTransactionInitialized(m)
    PROVE  /\ RevertParts'
           /\ OnceParts => OnceParts'
           /\ ClosedParts => ClosedParts'
<1> DEFINE h == m.to
           id == m.tx
           old == transactions[h][id]
           new == transactions'[h][id]
           sent == {Create(Source[id[1]], h, id), Create(Source[id[2]], h, id)}
           Quiet == /\ new.state = old.state
                    /\ old.state # "trHold" =>
                         /\ new.firstStateChanged = old.firstStateChanged
                         /\ new.secondStateChanged = old.secondStateChanged
           Over == /\ old.state = "trHold" /\ new.state = "trInitialized"
                   /\ ~new.firstStateChanged /\ ~new.secondStateChanged
<1>0. TypeOK /\ m.type = "Initialized" /\ book' = book
  BY DEF RevertInv, SwapInv, ProcessTransactionInitialized, Acknowledge
<1>1. Acknowledges(m, TransactionOf(m), "trHold", sent)
  BY <1>0, HandlersAcknowledge
<1>2. h \in Hubs /\ id \in TxIds /\ TransactionOf(m) = old
  BY <1>1 DEF Acknowledges, TransactionOf
<1>3. "trHold" \in Acknowledged /\ Successor["trHold"] = "trInitialized"
  BY DEF Acknowledged, Successor
<1>e. /\ AckRecord(m, TransactionOf(m), new)
      /\ \E ms : AckOutcome(m, "trHold", sent, ms)
  BY <1>0, <1>1, <1>3, AckStep
<1>4. /\ \A g \in Hubs, i \in TxIds :
            g # h \/ i # id => transactions'[g][i] = transactions[g][i]
      /\ new.rawrevtx1 = old.rawrevtx1 /\ new.rawrevtx2 = old.rawrevtx2
      /\ old = Invalid => new = Invalid
  BY <1>2, <1>e DEF AckRecord
<1>c. PICK ms : AckOutcome(m, "trHold", sent, ms)
  BY <1>e
<1>5. /\ net' = net \cup ms /\ seen' = (seen \cup {m}) \ ms
      /\ (ms = {} /\ Quiet) \/ (ms = sent /\ Over)
  <2>1. AckQuiet(m, "trHold") => Quiet
    BY <1>3 DEF AckQuiet
  <2>2. AckOver(m, "trHold") => Over
    BY <1>3 DEF AckOver
  <2> HIDE DEF sent, Quiet, Over
  <2> QED
    BY <1>c, <2>1, <2>2 DEF AckOutcome
<1>6. \A n \in sent : n.type = "Create" /\ n.hub = h /\ n.tx = id
  BY DEF Create
<1> HIDE DEF sent
<1>7. /\ \A n \in ms : n.type = "Create" /\ n.hub = h /\ n.tx = id
      /\ \A n \in seen : n \in seen' \/ n \in ms
  BY <1>0, <1>5, <1>6
<1>8. /\ \A type : Told(h, id, type) => Told(h, id, type)'
      /\ \A type : type # "Create" /\ Told(h, id, type)' => Told(h, id, type)
      /\ ms = {} => (Told(h, id, "Create")' => Told(h, id, "Create"))
      /\ \A g, i : BothApplied(g, i) => BothApplied(g, i)'
      /\ \A g, o, i : Applied(g, o, i) => Applied(g, o, i)'
      /\ \A g, addr, i, type : type # "Create" =>
           (Heard(g, addr, i, type) => Heard(g, addr, i, type)')
      /\ \A rev, o, i : SideRev(rev, o, i) => SideRev(rev, o, i)'
  <2>0. built \subseteq built'
    BY DEF clientVars
  <2>1. \A type : type # "Create" /\ Told(h, id, type)' => Told(h, id, type)
    BY <1>5, <1>7 DEF Told
  <2>2. ms = {} => (Told(h, id, "Create")' => Told(h, id, "Create"))
    BY <1>5 DEF Told
  <2> QED
    BY <1>5, <1>7, <2>0, <2>1, <2>2, Stable
<1>9. RevertParts'
  <2>1. AppliedAt(h, id)'
    <3>1. AppliedAt(h, id)
      BY <1>2, PartsAt DEF RevertInv, RevertParts
    <3> QED
      BY <1>5, <1>8, <3>1 DEF AppliedAt, Running
  <2>2. SidesAt(h, id)'
    <3>1. SidesAt(h, id)
      BY <1>2, PartsAt DEF RevertInv, RevertParts
    <3> QED
      BY <1>4, <1>8, <3>1 DEF SidesAt
  <2>3. \A n \in ms : SidesOf(n)
    BY <1>7 DEF SidesOf
  <2>4. ~TwoParty(id) => ms = {} /\ new = Invalid
    BY <1>2, <1>4, <1>5 DEF RevertInv, RevertParts, OnlyTwoParties, Invalid
  <2> QED
    BY <1>0, <1>2, <1>4, <1>5, <1>7, <2>1, <2>2, <2>3, <2>4, AckFrame
<1>10. ASSUME OnceParts
       PROVE  OnceParts'
  <2>1. RunsOnceAt(h, id) /\ ReadyAt(h, id)
    BY <1>2, <1>10, PartsAt DEF OnceParts
  <2>2. \A addr : \A type \in {"HoldApply", "Created"} :
          Heard(h, addr, id, type) => Heard(h, addr, id, type)'
    BY <1>8
  <2>3. RunsOnceAt(h, id)'
    <3>1. CASE ms = sent /\ Over
      <4>1. Told(h, id, "Init") /\ ~Told(h, id, "Sign") /\ ~Told(h, id, "Commit")
        BY <2>1, <3>1 DEF RunsOnceAt, Running
      <4> QED
        BY <1>8, <2>1, <2>2, <3>1, <4>1 DEF RunsOnceAt, Running
    <3>2. CASE ms = {} /\ Quiet
      <4>1. \A type : Told(h, id, type)' <=> Told(h, id, type)
        BY <1>8, <3>2
      <4> QED
        BY <2>1, <2>2, <3>2, <4>1 DEF RunsOnceAt
    <3> QED
      BY <1>5, <3>1, <3>2
  <2>4. ReadyAt(h, id)'
    BY <1>4, <1>5, <2>1, <2>2 DEF ReadyAt
  <2>5. \A n \in ms : ReadyOf(n) /\ n \notin seen
    <3>1. ms # {} => ~Told(h, id, "Create")
      BY <1>5, <2>1 DEF RunsOnceAt
    <3> QED
      BY <1>0, <1>7, <3>1 DEF ReadyOf, Told, TypeOK, PacketsTypeOK
  <2> QED
    BY <1>0, <1>2, <1>4, <1>5, <1>7, <1>10, <2>3, <2>4, <2>5, AckFrame
<1>11. ASSUME ClosedParts
       PROVE  ClosedParts'
  <2>1. \A n \in ms : n.type \notin {"Finished", "Rollback"}
    BY <1>7
  <2>2. \A g \in Hubs, i \in TxIds : transactions'[g][i].state \in Running =>
            transactions[g][i].state \in Running
    BY <1>4, <1>5 DEF Running
  <2> QED
    BY <1>5, <1>11, <2>1, <2>2, EndsFrame
<1> QED
  BY <1>9, <1>10, <1>11

\* A client's revert transaction does not come twice while one payment is all a
\* side builds.
LEMMA CreatedOnce ==
    ASSUME TypeOK, MaxDuplicates = 0, OnceParts, NEW m \in Deliverable, m.type = "Created"
    PROVE  ~Heard(m.to, m.from, m.tx, "Created")
<1> SUFFICES ASSUME NEW n \in seen, n.type = "Created", n.to = m.to,
                    n.from = m.from, n.tx = m.tx
             PROVE  FALSE
  BY DEF Heard
<1>1. m \in net /\ n \in net /\ m \in Packet /\ n \in Packet /\ m \notin seen
  BY HeardOnce DEF TypeOK, PacketsTypeOK, Deliverable
<1>2. m.rev \in RawRevTx /\ n.rev \in RawRevTx
  BY <1>1, PacketFields
<1>3. ReadyOf(m) /\ ReadyOf(n) /\ OnePaymentEach
  BY <1>1, PartsAt DEF OnceParts
<1>4. m.rev.spends = n.rev.spends
  BY <1>3 DEF ReadyOf, OnePaymentEach
<1>5. m.rev.signed = n.rev.signed
  BY <1>2, <1>3 DEF ReadyOf, RawRevTx
<1>6. m.rev = n.rev
  BY <1>2, <1>4, <1>5 DEF RawRevTx
<1>7. m = n
  BY <1>1, <1>6, SamePacket
<1> QED
  BY <1>1, <1>7

LEMMA NoPaymentBuilt ==
    ASSUME TypeOK
    PROVE  NoPayment \notin built /\ NoPayment \notin paid
<1>1. NoPayment \notin Payments
  BY DEF NoPayment, Payments
<1> QED
  BY <1>1 DEF TypeOK, ClientTypeOK

LEMMA CreatedReverts ==
    ASSUME RevertInv, UNCHANGED clientVars, NEW m \in net, ProcessTransactionCreated(m)
    PROVE  /\ RevertParts'
           /\ OnceParts /\ MaxDuplicates = 0 => OnceParts'
           /\ ClosedParts => ClosedParts'
<1> DEFINE h == m.to
           id == m.tx
           old == transactions[h][id]
           new == transactions'[h][id]
           tr == SetRawPayTx(id, old, m.from, m.rev)
           sent == {Sign(Dest[id[1]], h, id, tr.rawrevtx2), Sign(Dest[id[2]], h, id, tr.rawrevtx1)}
           first == old.firstStateChanged \/ m.from = Source[id[1]]
           second == old.secondStateChanged \/ m.from = Source[id[2]]
           Quiet == /\ new.state = old.state
                    /\ old.state # "trInitialized" =>
                         /\ new.firstStateChanged = old.firstStateChanged
                         /\ new.secondStateChanged = old.secondStateChanged
                    /\ new.firstStateChanged => first
                    /\ new.secondStateChanged => second
           Over == /\ old.state = "trInitialized" /\ new.state = "trCreated"
                   /\ ~new.firstStateChanged /\ ~new.secondStateChanged
                   /\ first /\ second
<1>0. TypeOK /\ m.type = "Created" /\ book' = book
  BY DEF RevertInv, SwapInv, ProcessTransactionCreated, Acknowledge
<1>1. m.to \in Hubs /\ m.tx \in TxIds
  BY <1>0, PacketFields DEF TypeOK, PacketsTypeOK
<1>2. TransactionOf(m) = old /\ old \in Record
  BY <1>0, <1>1 DEF TransactionOf, TypeOK, HubTypeOK
<1>a. Acknowledges(m, tr, "trInitialized", sent)
  BY <1>0, <1>2, SettersAcknowledge
<1>3. /\ "trInitialized" \in Acknowledged /\ Successor["trInitialized"] = "trCreated"
      /\ AckAddress("trInitialized", id[1]) = Source[id[1]]
      /\ AckAddress("trInitialized", id[2]) = Source[id[2]]
  BY DEF Acknowledged, Successor, AckAddress
<1>b. /\ tr.rawrevtx1 = old.rawrevtx1 \/ (m.from = Source[id[1]] /\ tr.rawrevtx1 = m.rev)
      /\ tr.rawrevtx2 = old.rawrevtx2 \/ (m.from = Source[id[2]] /\ tr.rawrevtx2 = m.rev)
      /\ old = Invalid => tr = Invalid
      /\ old.state = "trInitialized" /\ m.from = Source[id[2]] => tr.rawrevtx2 = m.rev
      /\ old.state = "trInitialized" /\ m.from = Source[id[1]] /\ Source[id[1]] # Source[id[2]] =>
           tr.rawrevtx1 = m.rev
  <2>1. CASE old.state = "trInvalid"
    BY <1>2, <2>1 DEF SetRawPayTx
  <2>2. CASE old.state # "trInvalid" /\ m.from = Source[id[2]]
    <3>1. tr = [old EXCEPT !.rawrevtx2 = m.rev]
      BY <2>2 DEF SetRawPayTx
    <3>2. tr.rawrevtx2 = m.rev /\ tr.rawrevtx1 = old.rawrevtx1 /\ old # Invalid
      BY <1>2, <2>2, <3>1 DEF Record, Invalid
    <3> HIDE DEF tr
    <3> QED
      BY <2>2, <3>2
  <2>3. CASE old.state # "trInvalid" /\ m.from # Source[id[2]] /\ m.from = Source[id[1]]
    <3>1. tr = [old EXCEPT !.rawrevtx1 = m.rev]
      BY <2>3 DEF SetRawPayTx
    <3>2. tr.rawrevtx1 = m.rev /\ tr.rawrevtx2 = old.rawrevtx2 /\ old # Invalid
      BY <1>2, <2>3, <3>1 DEF Record, Invalid
    <3> HIDE DEF tr
    <3> QED
      BY <2>3, <3>2
  <2>4. CASE m.from # Source[id[2]] /\ m.from # Source[id[1]]
    BY <1>2, <2>4 DEF SetRawPayTx
  <2> QED
    BY <2>1, <2>2, <2>3, <2>4
<1> HIDE DEF tr
<1>e. /\ AckRecord(m, tr, new)
      /\ \E ms : AckOutcome(m, "trInitialized", sent, ms)
  BY <1>0, <1>a, <1>3, AckStep
<1>4. /\ m \in Deliverable
      /\ \A g \in Hubs, i \in TxIds :
            g # h \/ i # id => transactions'[g][i] = transactions[g][i]
      /\ new.rawrevtx1 = tr.rawrevtx1 /\ new.rawrevtx2 = tr.rawrevtx2
      /\ tr = Invalid => new = Invalid
  BY <1>2, <1>e, <1>a DEF AckRecord
<1>c. PICK ms : AckOutcome(m, "trInitialized", sent, ms)
  BY <1>e
<1>5. /\ net' = net \cup ms /\ seen' = (seen \cup {m}) \ ms
      /\ (ms = {} /\ Quiet) \/ (ms = sent /\ Over)
  <2>1. AckQuiet(m, "trInitialized") => Quiet
    BY <1>3 DEF AckQuiet
  <2>2. AckOver(m, "trInitialized") => Over
    BY <1>3 DEF AckOver
  <2> HIDE DEF sent, Quiet, Over
  <2> QED
    BY <1>c, <2>1, <2>2 DEF AckOutcome
<1>6. \A n \in sent : /\ n.type = "Sign" /\ n.hub = h /\ n.tx = id
                      /\ \/ n.to = Dest[id[1]] /\ n.rev = tr.rawrevtx2
                         \/ n.to = Dest[id[2]] /\ n.rev = tr.rawrevtx1
  BY DEF Sign
<1> HIDE DEF sent
<1>7. /\ \A n \in ms : /\ n.type = "Sign" /\ n.hub = h /\ n.tx = id
                       /\ \/ n.to = Dest[id[1]] /\ n.rev = tr.rawrevtx2
                          \/ n.to = Dest[id[2]] /\ n.rev = tr.rawrevtx1
      /\ \A n \in seen : n \in seen' \/ n \in ms
      /\ m \in seen'
  BY <1>0, <1>5, <1>6
<1>8. /\ \A type : Told(h, id, type) => Told(h, id, type)'
      /\ \A type : type # "Sign" /\ Told(h, id, type)' => Told(h, id, type)
      /\ ms = {} => (Told(h, id, "Sign")' => Told(h, id, "Sign"))
      /\ \A g, i : BothApplied(g, i) => BothApplied(g, i)'
      /\ \A g, o, i : Applied(g, o, i) => Applied(g, o, i)'
      /\ \A g, addr, i, type : type # "Sign" =>
           (Heard(g, addr, i, type) => Heard(g, addr, i, type)')
      /\ \A rev, o, i : SideRev(rev, o, i) => SideRev(rev, o, i)'
  <2>0. built \subseteq built'
    BY DEF clientVars
  <2>1. \A type : type # "Sign" /\ Told(h, id, type)' => Told(h, id, type)
    BY <1>5, <1>7 DEF Told
  <2>2. ms = {} => (Told(h, id, "Sign")' => Told(h, id, "Sign"))
    BY <1>5 DEF Told
  <2> QED
    BY <1>5, <1>7, <2>0, <2>1, <2>2, Stable
<1>9. old.state = "trInitialized" =>
        /\ TwoParty(id) /\ Source[id[1]] # Source[id[2]] /\ Dest[id[1]] # Dest[id[2]]
  <2>1. old.state = "trInitialized" => TwoParty(id)
    BY <1>1 DEF RevertInv, RevertParts, OnlyTwoParties, Invalid
  <2> QED
    BY <1>1, <2>1, TwoPartyAddresses
<1>10. SideRev(tr.rawrevtx1, id[1], id) /\ SideRev(tr.rawrevtx2, id[2], id)
  <2>1. SidesAt(h, id) /\ SidesOf(m)
    BY <1>1, PartsAt DEF RevertInv, RevertParts
  <2>2. /\ m.from = Source[id[1]] => SideRev(m.rev, id[1], id)
        /\ m.from = Source[id[2]] => SideRev(m.rev, id[2], id)
    BY <1>0, <2>1 DEF SidesOf, RevOf
  <2> QED
    BY <1>b, <2>1, <2>2 DEF SidesAt
<1>11. RevertParts'
  <2>1. AppliedAt(h, id)'
    <3>1. AppliedAt(h, id)
      BY <1>1, PartsAt DEF RevertInv, RevertParts
    <3> QED
      BY <1>5, <1>8, <3>1 DEF AppliedAt, Running
  <2>2. SidesAt(h, id)'
    BY <1>4, <1>8, <1>10 DEF SidesAt
  <2>3. \A n \in ms : SidesOf(n)
    <3> SUFFICES ASSUME NEW n \in ms
                 PROVE  RevOf(n.rev, id, n.to, Dest[id[2]], Dest[id[1]])
      BY <1>7 DEF SidesOf
    <3>1. Dest[id[1]] # Dest[id[2]]
      BY <1>5, <1>9
    <3> QED
      BY <1>7, <1>10, <3>1 DEF RevOf
  <2>4. ~TwoParty(id) => ms = {} /\ new = Invalid
    BY <1>1, <1>4, <1>5, <1>b DEF RevertInv, RevertParts, OnlyTwoParties, Invalid
  <2> QED
    BY <1>0, <1>1, <1>4, <1>5, <1>7, <2>1, <2>2, <2>3, <2>4, AckFrame, ZenonT(60)
<1>12. ASSUME OnceParts, MaxDuplicates = 0
       PROVE  OnceParts'
  <2>1. RunsOnceAt(h, id) /\ ReadyAt(h, id) /\ ReadyOf(m)
    BY <1>1, <1>12, PartsAt DEF OnceParts
  <2>2. \A addr : \A type \in {"HoldApply", "Created"} :
          Heard(h, addr, id, type) => Heard(h, addr, id, type)'
    BY <1>8
  <2>3. RunsOnceAt(h, id)'
    <3>1. CASE ms = sent /\ Over
      <4>1. Told(h, id, "Init") /\ ~Told(h, id, "Commit")
        BY <2>1, <3>1 DEF RunsOnceAt, Running
      <4> QED
        BY <1>8, <2>1, <2>2, <3>1, <4>1 DEF RunsOnceAt, Running
    <3>2. CASE ms = {} /\ Quiet
      <4>1. \A type : Told(h, id, type)' <=> Told(h, id, type)
        BY <1>8, <3>2
      <4> QED
        BY <2>1, <2>2, <3>2, <4>1 DEF RunsOnceAt
    <3> QED
      BY <1>5, <3>1, <3>2
  <2>4. m.rev.spends # NoPayment /\ Heard(h, m.from, id, "Created")'
    <3>1. m.rev.spends \in built
      BY <1>0, <2>1 DEF ReadyOf
    <3> QED
      BY <1>0, <1>7, <3>1, NoPaymentBuilt DEF Heard
  <2>5. old.state = "trInitialized" =>
          /\ first => tr.rawrevtx1.spends # NoPayment /\ Heard(h, Source[id[1]], id, "Created")'
          /\ second => tr.rawrevtx2.spends # NoPayment /\ Heard(h, Source[id[2]], id, "Created")'
    BY <1>9, <1>b, <2>1, <2>2, <2>4 DEF ReadyAt
  <2>6. old.state = "trCreated" =>
          tr.rawrevtx1 = old.rawrevtx1 /\ tr.rawrevtx2 = old.rawrevtx2
    <3>1. ~Heard(h, m.from, id, "Created")
      BY <1>0, <1>4, <1>12, CreatedOnce
    <3> QED
      BY <1>b, <2>1, <3>1 DEF ReadyAt
  <2>7. ReadyAt(h, id)'
    <3>1. CASE ms = sent /\ Over
      BY <1>4, <2>5, <3>1 DEF ReadyAt
    <3>2. CASE ms = {} /\ Quiet
      BY <1>4, <2>1, <2>2, <2>5, <2>6, <3>2 DEF ReadyAt
    <3> QED
      BY <1>5, <3>1, <3>2
  <2>8. \A n \in ms : ReadyOf(n) /\ n.type # "Create"
    BY <1>5, <1>7, <2>5 DEF ReadyOf
  <2> QED
    BY <1>0, <1>1, <1>4, <1>5, <1>7, <1>12, <2>3, <2>7, <2>8, AckFrame
<1>13. ASSUME ClosedParts
       PROVE  ClosedParts'
  <2>1. \A n \in ms : n.type \notin {"Finished", "Rollback"}
    BY <1>7
  <2>2. \A g \in Hubs, i \in TxIds : transactions'[g][i].state \in Running =>
            transactions[g][i].state \in Running
    BY <1>4, <1>5 DEF Running
  <2> QED
    BY <1>5, <1>13, <2>1, <2>2, EndsFrame
<1> QED
  BY <1>11, <1>12, <1>13

LEMMA SignedReverts ==
    ASSUME RevertInv, UNCHANGED clientVars, NEW m \in net, ProcessTransactionSigned(m)
    PROVE  /\ RevertParts'
           /\ OnceParts => OnceParts'
           /\ ClosedParts => ClosedParts'
<1> DEFINE h == m.to
           id == m.tx
           old == transactions[h][id]
           new == transactions'[h][id]
           tr == UpdateRawRevTx(id, old, m.from, m.rev)
           sent == {Commit(Source[id[1]], h, id, tr.rawrevtx1),
                    Commit(Source[id[2]], h, id, tr.rawrevtx2)}
           first == old.firstStateChanged \/ m.from = Dest[id[1]]
           second == old.secondStateChanged \/ m.from = Dest[id[2]]
           Quiet == /\ new.state = old.state
                    /\ old.state # "trCreated" =>
                         /\ new.firstStateChanged = old.firstStateChanged
                         /\ new.secondStateChanged = old.secondStateChanged
                    /\ new.firstStateChanged => first
                    /\ new.secondStateChanged => second
           Over == /\ old.state = "trCreated" /\ new.state = "trSigned"
                   /\ first /\ second
<1>0. TypeOK /\ m.type = "Signed" /\ book' = book
  BY DEF RevertInv, SwapInv, ProcessTransactionSigned, Acknowledge
<1>1. m.to \in Hubs /\ m.tx \in TxIds
  BY <1>0, PacketFields DEF TypeOK, PacketsTypeOK
<1>2. TransactionOf(m) = old /\ old \in Record
  BY <1>0, <1>1 DEF TransactionOf, TypeOK, HubTypeOK
<1>a. Acknowledges(m, tr, "trCreated", sent)
  BY <1>0, <1>2, SettersAcknowledge
<1>3. /\ "trCreated" \in Acknowledged /\ Successor["trCreated"] = "trSigned"
      /\ AckAddress("trCreated", id[1]) = Dest[id[1]]
      /\ AckAddress("trCreated", id[2]) = Dest[id[2]]
  BY DEF Acknowledged, Successor, AckAddress
<1>b. /\ tr.rawrevtx1 = old.rawrevtx1 \/ (m.from = Dest[id[2]] /\ tr.rawrevtx1 = m.rev)
      /\ tr.rawrevtx2 = old.rawrevtx2 \/ (m.from = Dest[id[1]] /\ tr.rawrevtx2 = m.rev)
      /\ old = Invalid => tr = Invalid
      /\ old.state = "trCreated" /\ m.from = Dest[id[2]] => tr.rawrevtx1 = m.rev
      /\ old.state = "trCreated" /\ m.from = Dest[id[1]] /\ Dest[id[1]] # Dest[id[2]] =>
           tr.rawrevtx2 = m.rev
  <2>1. CASE old.state = "trInvalid"
    BY <1>2, <2>1 DEF UpdateRawRevTx
  <2>2. CASE old.state # "trInvalid" /\ m.from = Dest[id[2]]
    <3>1. tr = [old EXCEPT !.rawrevtx1 = m.rev]
      BY <2>2 DEF UpdateRawRevTx
    <3>2. tr.rawrevtx1 = m.rev /\ tr.rawrevtx2 = old.rawrevtx2 /\ old # Invalid
      BY <1>2, <2>2, <3>1 DEF Record, Invalid
    <3> HIDE DEF tr
    <3> QED
      BY <2>2, <3>2
  <2>3. CASE old.state # "trInvalid" /\ m.from # Dest[id[2]] /\ m.from = Dest[id[1]]
    <3>1. tr = [old EXCEPT !.rawrevtx2 = m.rev]
      BY <2>3 DEF UpdateRawRevTx
    <3>2. tr.rawrevtx2 = m.rev /\ tr.rawrevtx1 = old.rawrevtx1 /\ old # Invalid
      BY <1>2, <2>3, <3>1 DEF Record, Invalid
    <3> HIDE DEF tr
    <3> QED
      BY <2>3, <3>2
  <2>4. CASE m.from # Dest[id[2]] /\ m.from # Dest[id[1]]
    BY <1>2, <2>4 DEF UpdateRawRevTx
  <2> QED
    BY <2>1, <2>2, <2>3, <2>4
<1> HIDE DEF tr
<1>e. /\ AckRecord(m, tr, new)
      /\ \E ms : AckOutcome(m, "trCreated", sent, ms)
  BY <1>0, <1>a, <1>3, AckStep
<1>4. /\ \A g \in Hubs, i \in TxIds :
            g # h \/ i # id => transactions'[g][i] = transactions[g][i]
      /\ new.rawrevtx1 = tr.rawrevtx1 /\ new.rawrevtx2 = tr.rawrevtx2
      /\ tr = Invalid => new = Invalid
  BY <1>2, <1>e, <1>a DEF AckRecord
<1>c. PICK ms : AckOutcome(m, "trCreated", sent, ms)
  BY <1>e
<1>5. /\ net' = net \cup ms /\ seen' = (seen \cup {m}) \ ms
      /\ (ms = {} /\ Quiet) \/ (ms = sent /\ Over)
  <2>1. AckQuiet(m, "trCreated") => Quiet
    BY <1>3 DEF AckQuiet
  <2>2. AckOver(m, "trCreated") => Over
    BY <1>3 DEF AckOver
  <2> HIDE DEF sent, Quiet, Over
  <2> QED
    BY <1>c, <2>1, <2>2 DEF AckOutcome
<1>6. \A n \in sent : /\ n.type = "Commit" /\ n.hub = h /\ n.tx = id
                      /\ \/ n.to = Source[id[1]] /\ n.rev = tr.rawrevtx1
                         \/ n.to = Source[id[2]] /\ n.rev = tr.rawrevtx2
  BY DEF Commit
<1> HIDE DEF sent
<1>7. /\ \A n \in ms : /\ n.type = "Commit" /\ n.hub = h /\ n.tx = id
                       /\ \/ n.to = Source[id[1]] /\ n.rev = tr.rawrevtx1
                          \/ n.to = Source[id[2]] /\ n.rev = tr.rawrevtx2
      /\ \A n \in seen : n \in seen' \/ n \in ms
  BY <1>0, <1>5, <1>6
<1>8. /\ \A type : Told(h, id, type) => Told(h, id, type)'
      /\ \A type : type # "Commit" /\ Told(h, id, type)' => Told(h, id, type)
      /\ ms = {} => (Told(h, id, "Commit")' => Told(h, id, "Commit"))
      /\ \A g, i : BothApplied(g, i) => BothApplied(g, i)'
      /\ \A g, o, i : Applied(g, o, i) => Applied(g, o, i)'
      /\ \A g, addr, i, type : type # "Commit" =>
           (Heard(g, addr, i, type) => Heard(g, addr, i, type)')
      /\ \A rev, o, i : SideRev(rev, o, i) => SideRev(rev, o, i)'
  <2>0. built \subseteq built'
    BY DEF clientVars
  <2>1. \A type : type # "Commit" /\ Told(h, id, type)' => Told(h, id, type)
    BY <1>5, <1>7 DEF Told
  <2>2. ms = {} => (Told(h, id, "Commit")' => Told(h, id, "Commit"))
    BY <1>5 DEF Told
  <2> QED
    BY <1>5, <1>7, <2>0, <2>1, <2>2, Stable
<1>9. old.state = "trCreated" =>
        /\ TwoParty(id) /\ Source[id[1]] # Source[id[2]] /\ Dest[id[1]] # Dest[id[2]]
        /\ BothApplied(h, id)
  <2>1. old.state = "trCreated" => TwoParty(id)
    BY <1>1 DEF RevertInv, RevertParts, OnlyTwoParties, Invalid
  <2>2. old.state = "trCreated" => BothApplied(h, id)
    BY <1>1 DEF RevertInv, RevertParts, AppliedFirst, Running
  <2> QED
    BY <1>1, <2>1, <2>2, TwoPartyAddresses
<1>10. SideRev(tr.rawrevtx1, id[1], id) /\ SideRev(tr.rawrevtx2, id[2], id)
  <2>1. SidesAt(h, id) /\ SidesOf(m)
    BY <1>1, PartsAt DEF RevertInv, RevertParts
  <2>2. /\ m.from = Dest[id[2]] => SideRev(m.rev, id[1], id)
        /\ m.from = Dest[id[1]] => SideRev(m.rev, id[2], id)
    BY <1>0, <2>1 DEF SidesOf, RevOf
  <2> QED
    BY <1>b, <2>1, <2>2 DEF SidesAt
<1>11. RevertParts'
  <2>1. AppliedAt(h, id)'
    <3>1. AppliedAt(h, id)
      BY <1>1, PartsAt DEF RevertInv, RevertParts
    <3> QED
      BY <1>5, <1>8, <3>1 DEF AppliedAt, Running
  <2>2. SidesAt(h, id)'
    BY <1>4, <1>8, <1>10 DEF SidesAt
  <2>3. \A n \in ms : SidesOf(n) /\ BothApplied(h, id)
    <3> SUFFICES ASSUME NEW n \in ms
                 PROVE  RevOf(n.rev, id, n.to, Source[id[1]], Source[id[2]]) /\ BothApplied(h, id)
      BY <1>7 DEF SidesOf
    <3>1. Source[id[1]] # Source[id[2]] /\ BothApplied(h, id)
      BY <1>5, <1>9
    <3> QED
      BY <1>7, <1>10, <3>1 DEF RevOf
  <2>4. ~TwoParty(id) => ms = {} /\ new = Invalid
    BY <1>1, <1>4, <1>5, <1>b DEF RevertInv, RevertParts, OnlyTwoParties, Invalid
  <2> QED
    BY <1>0, <1>1, <1>4, <1>5, <1>7, <2>1, <2>2, <2>3, <2>4, AckFrame
<1>12. ASSUME OnceParts
       PROVE  OnceParts'
  <2>1. RunsOnceAt(h, id) /\ ReadyAt(h, id) /\ ReadyOf(m)
    BY <1>1, <1>12, PartsAt DEF OnceParts
  <2>2. \A addr : \A type \in {"HoldApply", "Created"} :
          Heard(h, addr, id, type) => Heard(h, addr, id, type)'
    BY <1>8
  <2>3. RunsOnceAt(h, id)'
    <3>1. CASE ms = sent /\ Over
      <4>1. Told(h, id, "Init")
        BY <2>1, <3>1 DEF RunsOnceAt, Running
      <4> QED
        BY <1>8, <2>1, <2>2, <3>1, <4>1 DEF RunsOnceAt, Running
    <3>2. CASE ms = {} /\ Quiet
      <4>1. \A type : Told(h, id, type)' <=> Told(h, id, type)
        BY <1>8, <3>2
      <4> QED
        BY <2>1, <2>2, <3>2, <4>1 DEF RunsOnceAt
    <3> QED
      BY <1>5, <3>1, <3>2
  <2>4. m.rev.spends # NoPayment /\ m.rev.signed
    BY <1>0, <2>1 DEF ReadyOf
  <2>5. /\ old.rawrevtx1.spends # NoPayment => tr.rawrevtx1.spends # NoPayment
        /\ old.rawrevtx2.spends # NoPayment => tr.rawrevtx2.spends # NoPayment
    BY <1>b, <2>4
  <2>6. old.state = "trCreated" =>
          /\ first => tr.rawrevtx2.signed
          /\ second => tr.rawrevtx1.signed
    BY <1>9, <1>b, <2>1, <2>4 DEF ReadyAt
  <2>7. ReadyAt(h, id)'
    <3>1. CASE ms = sent /\ Over
      BY <3>1 DEF ReadyAt
    <3>2. CASE ms = {} /\ Quiet
      BY <1>4, <2>1, <2>2, <2>5, <2>6, <3>2 DEF ReadyAt
    <3> QED
      BY <1>5, <3>1, <3>2
  <2>8. \A n \in ms : ReadyOf(n) /\ n.type # "Create"
    <3>1. ms # {} => /\ tr.rawrevtx1.spends # NoPayment /\ tr.rawrevtx1.signed
                     /\ tr.rawrevtx2.spends # NoPayment /\ tr.rawrevtx2.signed
      BY <1>5, <2>1, <2>5, <2>6 DEF ReadyAt
    <3> QED
      BY <1>7, <3>1 DEF ReadyOf
  <2> QED
    BY <1>0, <1>1, <1>4, <1>5, <1>7, <1>12, <2>3, <2>7, <2>8, AckFrame
<1>13. ASSUME ClosedParts
       PROVE  ClosedParts'
  <2>1. \A n \in ms : n.type \notin {"Finished", "Rollback"}
    BY <1>7
  <2>2. \A g \in Hubs, i \in TxIds : transactions'[g][i].state \in Running =>
            transactions[g][i].state \in Running
    BY <1>4, <1>5 DEF Running
  <2> QED
    BY <1>5, <1>13, <2>1, <2>2, EndsFrame
<1> QED
  BY <1>11, <1>12, <1>13

-----------------------------------------------------------------------------
(***************************************************************************)
(* The last two phases.                                                    *)
(***************************************************************************)
LEMMA CommitedReverts ==
    ASSUME RevertInv, UNCHANGED clientVars, NEW m \in net, ProcessTransactionCommited(m)
    PROVE  /\ RevertParts'
           /\ OnceParts => OnceParts'
           /\ ClosedParts => ClosedParts'
<1> DEFINE h == m.to
           id == m.tx
           old == transactions[h][id]
           new == transactions'[h][id]
           tr == SetTxHash(id, old, m.from, m.hash)
           sent == {ConfirmTx(Dest[id[1]], h, id, tr.txhash2),
                    ConfirmTx(Dest[id[2]], h, id, tr.txhash1)}
<1>0. TypeOK /\ m.type = "Commited" /\ book' = book
  BY DEF RevertInv, SwapInv, ProcessTransactionCommited, Acknowledge
<1>1. m.to \in Hubs /\ m.tx \in TxIds
  BY <1>0, PacketFields DEF TypeOK, PacketsTypeOK
<1>2. TransactionOf(m) = old
  BY <1>1 DEF TransactionOf
<1>a. /\ Acknowledges(m, tr, "trSigned", sent)
      /\ tr.rawrevtx1 = old.rawrevtx1 /\ tr.rawrevtx2 = old.rawrevtx2
      /\ old = Invalid => tr = Invalid
  BY <1>0, <1>2, SettersAcknowledge
<1> HIDE DEF tr
<1>3. "trSigned" \in Acknowledged /\ Successor["trSigned"] = "trCommited"
  BY DEF Acknowledged, Successor
<1>e. /\ AckRecord(m, tr, new)
      /\ \E ms : AckOutcome(m, "trSigned", sent, ms)
  BY <1>0, <1>a, <1>3, AckStep
<1>4. /\ \A g \in Hubs, i \in TxIds :
            g # h \/ i # id => transactions'[g][i] = transactions[g][i]
      /\ new.rawrevtx1 = tr.rawrevtx1 /\ new.rawrevtx2 = tr.rawrevtx2
      /\ tr = Invalid => new = Invalid
  BY <1>2, <1>e, <1>a DEF AckRecord
<1>c. PICK ms : AckOutcome(m, "trSigned", sent, ms)
  BY <1>e
<1>5. /\ net' = net \cup ms /\ seen' = (seen \cup {m}) \ ms
      /\ ms = {} \/ ms = sent
      /\ new.state = old.state \/ (old.state = "trSigned" /\ new.state = "trCommited")
      /\ old.state # "trSigned" => /\ new.firstStateChanged = old.firstStateChanged
                                   /\ new.secondStateChanged = old.secondStateChanged
  BY <1>2, <1>3, <1>c DEF AckOutcome, AckQuiet, AckOver
<1>6. \A n \in sent : n.type = "Confirm"
  BY DEF ConfirmTx
<1> HIDE DEF sent
<1>7. (\A n \in ms : n.type = "Confirm") /\ (\A n \in seen : n \in seen' \/ n \in ms)
  BY <1>5, <1>6
<1>8. ASSUME NEW g \in Hubs, NEW i \in TxIds
      PROVE  Calm(g, i)
  <2>1. CASE g = h /\ i = id
    <3>1. ~TwoParty(id) => new = Invalid
      BY <1>1, <1>4, <1>a DEF RevertInv, RevertParts, OnlyTwoParties
    <3> QED
      BY <1>4, <1>5, <1>a, <2>1, <3>1 DEF Calm, Running
  <2>2. CASE g # h \/ i # id
    BY <1>4, <2>2, RecordUnchanged
  <2> QED
    BY <2>1, <2>2
<1>9. BookFiled'
  BY <1>0, BookKept
<1>10. RevertParts' /\ (OnceParts => OnceParts')
  BY <1>5, <1>7, <1>8, <1>9, CalmHubStep
<1>11. ClosedParts => ClosedParts'
  BY <1>5, <1>7, <1>8, CalmRuns, EndsFrame
<1> QED
  BY <1>10, <1>11

LEMMA ConfirmedReverts ==
    ASSUME RevertInv, UNCHANGED clientVars, NEW m \in net, ProcessTransactionConfirmed(m)
    PROVE  /\ RevertParts'
           /\ OnceParts => OnceParts'
           /\ OnceParts /\ ClosedParts => ClosedParts'
<1> DEFINE h == m.to
           id == m.tx
           old == transactions[h][id]
           new == transactions'[h][id]
           sent == FinishedAll(h, id)
           Over == old.state = "trCommited" /\ new.state = "trFinished"
<1>0. TypeOK /\ m.type = "Confirmed" /\ book' = book
  BY DEF RevertInv, SwapInv, ProcessTransactionConfirmed, Acknowledge
<1>1. m.to \in Hubs /\ m.tx \in TxIds
  BY <1>0, PacketFields DEF TypeOK, PacketsTypeOK
<1>2. TransactionOf(m) = old
  BY <1>1 DEF TransactionOf
<1>a. Acknowledges(m, old, "trCommited", sent)
  BY <1>0, <1>2, HandlersAcknowledge
<1>3. "trCommited" \in Acknowledged /\ Successor["trCommited"] = "trFinished"
  BY DEF Acknowledged, Successor
<1>e. /\ AckRecord(m, old, new)
      /\ \E ms : AckOutcome(m, "trCommited", sent, ms)
  BY <1>0, <1>a, <1>3, AckStep
<1>4. /\ \A g \in Hubs, i \in TxIds :
            g # h \/ i # id => transactions'[g][i] = transactions[g][i]
      /\ new.rawrevtx1 = old.rawrevtx1 /\ new.rawrevtx2 = old.rawrevtx2
      /\ old = Invalid => new = Invalid
  BY <1>2, <1>e, <1>a DEF AckRecord
<1>c. PICK ms : AckOutcome(m, "trCommited", sent, ms)
  BY <1>e
<1>5. /\ net' = net \cup ms /\ seen' = (seen \cup {m}) \ ms
      /\ (ms = {} /\ new.state = old.state) \/ (ms = sent /\ Over)
      /\ old.state # "trCommited" => /\ new.firstStateChanged = old.firstStateChanged
                                     /\ new.secondStateChanged = old.secondStateChanged
  BY <1>2, <1>3, <1>c DEF AckOutcome, AckQuiet, AckOver
<1>6. \A n \in sent : n.type = "Finished" /\ n.hub = h /\ n.tx = id
  BY DEF FinishedAll, Finished
<1> HIDE DEF sent
<1>7. /\ \A n \in ms : n.type = "Finished" /\ n.hub = h /\ n.tx = id
      /\ \A n \in seen : n \in seen' \/ n \in ms
  BY <1>5, <1>6
<1>8. ASSUME NEW g \in Hubs, NEW i \in TxIds
      PROVE  Calm(g, i)
  <2>1. CASE g = h /\ i = id
    <3>1. ~TwoParty(id) => new = Invalid
      BY <1>1, <1>4 DEF RevertInv, RevertParts, OnlyTwoParties
    <3> QED
      BY <1>4, <1>5, <2>1, <3>1 DEF Calm
  <2>2. CASE g # h \/ i # id
    BY <1>4, <2>2, RecordUnchanged
  <2> QED
    BY <2>1, <2>2
<1>9. BookFiled'
  BY <1>0, BookKept
<1>b. ms # {} => TwoParty(id)
  BY <1>1, <1>5 DEF RevertInv, RevertParts, OnlyTwoParties, Invalid
<1>10. RevertParts' /\ (OnceParts => OnceParts')
  BY <1>5, <1>7, <1>8, <1>9, <1>b, CalmHubStep
<1>11. ASSUME OnceParts, ClosedParts
       PROVE  ClosedParts'
  <2>1. \A g, i : /\ Announced(g, i)' => Announced(g, i) \/ (g = h /\ i = id /\ ms # {})
                  /\ Told(g, i, "Init") => Told(g, i, "Init")'
                  /\ RolledBack(g, i)' => RolledBack(g, i)
    BY <1>5, <1>7 DEF Announced, RolledBack, Told
  <2>2. ms # {} => Told(h, id, "Init") /\ ~RolledBack(h, id) /\ new.state \notin Running
    BY <1>1, <1>5, <1>11 DEF OnceParts, RunsOnce, ClosedParts, EndsOnce, Running
  <2>3. \A g \in Hubs, i \in TxIds : transactions'[g][i].state \in Running =>
            transactions[g][i].state \in Running
    BY <1>8, CalmRuns
  <2>4. EndsOnce'
    BY <1>11, <2>1, <2>2, <2>3 DEF ClosedParts, EndsOnce
  <2>5. NeverFinishedAndRolledBack'
    BY <1>11, <2>1, <2>2 DEF ClosedParts, NeverFinishedAndRolledBack
  <2> QED
    BY <2>4, <2>5 DEF ClosedParts
<1> QED
  BY <1>10, <1>11

LEMMA HubReverts ==
    ASSUME NoSelfTrade, RevertInv, HubReceives \/ HubTimers \/ TimePasses
    PROVE  /\ RevertParts'
           /\ OnceParts /\ MaxDuplicates = 0 => OnceParts'
           /\ OnceParts /\ ClosedParts /\ MaxDuplicates = 0 /\ PhaseMeansPaid => ClosedParts'
<1>0. UNCHANGED clientVars
  BY DEF HubReceives, HubTimers, TimePasses
<1>1. CASE HubReceives
  <2>1. PICK m \in net : \/ ProcessTransaction(m)
                         \/ ProcessTransactionHoldApply(m)
                         \/ ProcessTransactionInitialized(m)
                         \/ ProcessTransactionCreated(m)
                         \/ ProcessTransactionSigned(m)
                         \/ ProcessTransactionCommited(m)
                         \/ ProcessTransactionConfirmed(m)
                         \/ ProcessTransactionCancelAtHub(m)
    BY <1>1 DEF HubReceives, HubReceive, Deliverable, RevertInv, SwapInv, TypeOK, PacketsTypeOK
  <2>2. ASSUME ProcessTransactionCancelAtHub(m)
        PROVE  RevertParts' /\ (OnceParts => OnceParts') /\ (ClosedParts => ClosedParts')
    BY <1>0, <2>2, HubQuietReverts DEF ProcessTransactionCancelAtHub
  <2> QED
    BY <1>0, <2>1, <2>2, ProcessTransactionReverts, HoldApplyReverts, InitializedReverts,
       CreatedReverts, SignedReverts, CommitedReverts, ConfirmedReverts
<1>2. CASE HubTimers
  BY <1>0, <1>2, TimersReverts, HubQuietReverts DEF HubTimers, HubTimer
<1>3. CASE TimePasses
  BY <1>0, <1>3, HubQuietReverts DEF TimePasses
<1> QED
  BY <1>1, <1>2, <1>3

-----------------------------------------------------------------------------
(***************************************************************************)
(* Clients.                                                                *)
(***************************************************************************)
\* What a client's step leaves alone: records, and everything heard and told.
LEMMA ClientSwapFrame ==
    ASSUME RevertInv, UNCHANGED hubVars, built \subseteq built',
           NEW ms, net' = net \cup ms, \A n \in seen : n \in seen' \/ n \in ms,
           \A n \in ms : n.type \in {"Transaction", "HoldApply", "Initialized", "Created",
                                     "Signed", "Commited", "Confirmed", "Cancel"}
    PROVE  /\ /\ \A n \in ms : SidesOf(n)'
              /\ \A a \in Apps, id \in TxIds :
                   \/ swaps'[a][id].revTx \in {swaps[a][id].revTx, NoRevTx}
                   \/ /\ RevOf(swaps[a][id].revTx, id, a, AppOf(id[1]), AppOf(id[2]))'
                      /\ swaps'[a][id].revTx.signed =>
                           \E m \in net : m.type = "Commit" /\ m.tx = id /\ Owner[m.to] = a
              => RevertParts'
           /\ /\ OnceParts /\ OnePaymentEach' /\ PayerCanRevert'
              /\ \A n \in ms : ReadyOf(n)'
              /\ \A n \in ms : n.type \in {"HoldApply", "Created"} => n \notin seen
              => OnceParts'
           /\ ClosedParts => ClosedParts'
<1>0. book' = book /\ transactions' = transactions
  BY DEF hubVars
<1>1. /\ \A h, id, type : Told(h, id, type) => Told(h, id, type)'
      /\ \A h, id : BothApplied(h, id) => BothApplied(h, id)'
      /\ \A h, o, id : Applied(h, o, id) => Applied(h, o, id)'
      /\ \A rev, o, id : SideRev(rev, o, id) => SideRev(rev, o, id)'
      /\ \A rev, id, addr, one, two :
           RevOf(rev, id, addr, one, two) => RevOf(rev, id, addr, one, two)'
  BY Stable
<1>2. \A h, id : \A type \in {"Init", "Create", "Sign", "Commit"} :
        Told(h, id, type)' <=> Told(h, id, type)
  BY DEF Told
<1>3. \A m : (SidesOf(m) => SidesOf(m)') /\ (ReadyOf(m) => ReadyOf(m)')
  BY <1>1 DEF SidesOf, ReadyOf
<1>4. ASSUME \A n \in ms : SidesOf(n)',
             \A a \in Apps, id \in TxIds :
               \/ swaps'[a][id].revTx \in {swaps[a][id].revTx, NoRevTx}
               \/ /\ RevOf(swaps[a][id].revTx, id, a, AppOf(id[1]), AppOf(id[2]))'
                  /\ swaps'[a][id].revTx.signed =>
                       \E m \in net : m.type = "Commit" /\ m.tx = id /\ Owner[m.to] = a
      PROVE  RevertParts'
  <2>1. BookFiled'
    BY <1>0, BookKept
  <2>2. OnlyTwoParties'
    BY <1>0 DEF OnlyTwoParties, RevertInv, RevertParts, TwoParty, AppOf
  <2>3. AppliedFirst'
    <3>1. \A n \in net' : n.type \in {"Commit", "Rollback"} => BothApplied(n.hub, n.tx)'
      BY <1>1 DEF RevertInv, RevertParts, AppliedFirst
    <3>2. \A h \in Hubs, id \in TxIds : AppliedAt(h, id)'
      BY <1>0, <1>1, PartsAt DEF RevertInv, RevertParts, AppliedAt
    <3> QED
      BY <3>1, <3>2 DEF AppliedFirst, AppliedAt
  <2>4. RollbacksAddressed'
    BY DEF RollbacksAddressed, RevertInv, RevertParts
  <2>5. RevertsOwnSide'
    <3>1. \A h \in Hubs, id \in TxIds : SidesAt(h, id)'
      BY <1>0, <1>1, PartsAt DEF RevertInv, RevertParts, SidesAt
    <3>2. \A n \in net' : SidesOf(n)'
      BY <1>3, <1>4, PartsAt DEF RevertInv, RevertParts
    <3>3. ASSUME NEW a \in Apps, NEW id \in TxIds
          PROVE  RevOf(swaps[a][id].revTx, id, a, AppOf(id[1]), AppOf(id[2]))'
      <4>1. RevOf(NoRevTx, id, a, AppOf(id[1]), AppOf(id[2]))'
        BY DEF RevOf, SideRev, NoRevTx
      <4>2. RevOf(swaps[a][id].revTx, id, a, AppOf(id[1]), AppOf(id[2]))
        BY DEF RevertInv, RevertParts, RevertsOwnSide
      <4>3. \A rev : RevOf(rev, id, a, AppOf(id[1]), AppOf(id[2])) =>
                     RevOf(rev, id, a, AppOf(id[1]), AppOf(id[2]))'
        BY <1>1 DEF AppOf
      <4>4. CASE swaps'[a][id].revTx = swaps[a][id].revTx
        BY <4>2, <4>3, <4>4
      <4>5. CASE swaps'[a][id].revTx = NoRevTx
        BY <4>1, <4>5
      <4> QED
        BY <1>4, <4>4, <4>5
    <3> QED
      BY <3>1, <3>2, <3>3 DEF RevertsOwnSide, SidesAt, SidesOf
  <2>6. SignedMeansTold'
    <3> SUFFICES ASSUME NEW a \in Apps, NEW id \in TxIds, swaps'[a][id].revTx.signed
                 PROVE  \E m \in net : m.type = "Commit" /\ m.tx = id /\ Owner[m.to] = a
      BY DEF SignedMeansTold
    <3>1. ~NoRevTx.signed
      BY DEF NoRevTx
    <3> QED
      BY <1>4, <3>1 DEF RevertInv, RevertParts, SignedMeansTold
  <2> QED
    BY <2>1, <2>2, <2>3, <2>4, <2>5, <2>6 DEF RevertParts
<1>5. ASSUME OnceParts, OnePaymentEach', PayerCanRevert', \A n \in ms : ReadyOf(n)',
             \A n \in ms : n.type \in {"HoldApply", "Created"} => n \notin seen
      PROVE  OnceParts'
  <2>1. \A h, addr, id : \A type \in {"HoldApply", "Created"} :
          Heard(h, addr, id, type) => Heard(h, addr, id, type)'
    BY <1>5 DEF Heard
  <2>2. \A h \in Hubs, id \in TxIds : RunsOnceAt(h, id)'
    BY <1>0, <1>2, <1>5, <2>1, PartsAt DEF OnceParts, RunsOnceAt
  <2>3. RunsOnce'
    BY <2>2 DEF RunsOnce, RunsOnceAt
  <2>4. \A h \in Hubs, id \in TxIds : ReadyAt(h, id)'
    BY <1>0, <1>5, <2>1, PartsAt DEF OnceParts, ReadyAt
  <2>5. \A n \in net' : ReadyOf(n)'
    BY <1>3, <1>5, PartsAt DEF OnceParts
  <2>6. RevertsReady'
    BY <2>4, <2>5 DEF RevertsReady, ReadyAt, ReadyOf
  <2> QED
    BY <1>5, <2>3, <2>6 DEF OnceParts
<1>6. ClosedParts => ClosedParts'
  <2>1. \A h \in Hubs, id \in TxIds : transactions'[h][id].state \in Running =>
          transactions[h][id].state \in Running
    BY <1>0
  <2> QED
    BY <2>1, EndsFrame
<1> QED
  BY <1>4, <1>5, <1>6

\* Steps that build, sign and pay nothing.
LEMMA QuietClientReverts ==
    ASSUME RevertInv, UNCHANGED <<hubVars, built, paid>>,
           NEW ms, net' = net \cup ms, \A n \in seen : n \in seen' \/ n \in ms,
           \A n \in ms : n.type \in {"Transaction", "Initialized", "Confirmed", "Cancel"},
           \A a \in Apps, id \in TxIds :
               \/ /\ swaps'[a][id].payTx = swaps[a][id].payTx
                  /\ swaps'[a][id].revTx = swaps[a][id].revTx
               \/ /\ swaps'[a][id].payTx = NoPayment
                  /\ swaps'[a][id].revTx = NoRevTx
    PROVE  /\ RevertParts'
           /\ OnceParts => OnceParts'
           /\ ClosedParts => ClosedParts'
<1>1. \A n \in ms : SidesOf(n)' /\ ReadyOf(n)'
  BY DEF SidesOf, ReadyOf
<1>2. ASSUME OnceParts
      PROVE  OnePaymentEach' /\ PayerCanRevert'
  <2>1. NoPayment \notin paid
    BY NoPaymentBuilt DEF RevertInv, SwapInv
  <2>2. PayerCanRevert'
    BY <1>2, <2>1 DEF OnceParts, PayerCanRevert
  <2>3. \A n \in seen : n.type = "Create" => n \in seen'
    OBVIOUS
  <2>4. \A a, h, id : Create(a, h, id) \in seen => Create(a, h, id) \in seen'
    BY <2>3 DEF Create
  <2>5. OnePaymentEach'
    BY <1>2, <2>4 DEF OnceParts, OnePaymentEach
  <2> QED
    BY <2>2, <2>5
<1>3. RevertParts' /\ (ClosedParts => ClosedParts')
  BY <1>1, ClientSwapFrame
<1>4. OnceParts => OnceParts'
  BY <1>1, <1>2, ClientSwapFrame
<1> QED
  BY <1>3, <1>4

LEMMA HoldReverts ==
    ASSUME RevertInv, UNCHANGED hubVars, NEW m \in net, NEW a \in Apps,
           ProcessTransactionHold(a, m)
    PROVE  /\ RevertParts'
           /\ OnceParts => OnceParts'
           /\ ClosedParts => ClosedParts'
<1>0. /\ m.type = "Hold" /\ m.order \in Orders /\ m.tx \in TxIds
      /\ m.to = Source[m.order] /\ m.order \in {m.tx[1], m.tx[2]}
      /\ swaps \in [Apps -> [TxIds -> Descr]]
      /\ UNCHANGED <<built, paid>> /\ TwoParty(m.tx) /\ seen \subseteq net
  BY PacketFields DEF ProcessTransactionHold, RevertInv, RevertParts, OnlyTwoParties, SwapInv,
                      HoldsAddressed, TypeOK, PacketsTypeOK, ClientTypeOK
<1>1. CASE /\ m.order \in pending
           /\ swaps' = [swaps EXCEPT ![a][m.tx] =
                           [NewDescr EXCEPT !.state = "trHold", !.id = m.order]]
           /\ Deliver(m, {HoldApply(m.hub, m.to, m.tx)})
  <2> DEFINE d == [NewDescr EXCEPT !.state = "trHold", !.id = m.order]
             new == HoldApply(m.hub, m.to, m.tx)
             ms == {new}
  <2>1. d.payTx = NoPayment /\ d.revTx = NoRevTx
    BY DEF NewDescr
  <2>2. swaps' = [swaps EXCEPT ![a][m.tx] = d]
    BY <1>1
  <2>3. new.type = "HoldApply" /\ new.from = Source[m.order] /\ new.tx = m.tx
    BY <1>0 DEF HoldApply
  <2>4. net' = net \cup ms /\ \A n \in seen : n \in seen' \/ n \in ms
    BY <1>1 DEF Deliver
  <2>5. \A n \in ms : n = new
    OBVIOUS
  <2> HIDE DEF d, new, ms
  <2>6. \A b \in Apps, id \in TxIds :
          \/ swaps'[b][id].payTx = swaps[b][id].payTx /\ swaps'[b][id].revTx = swaps[b][id].revTx
          \/ swaps'[b][id].payTx = NoPayment /\ swaps'[b][id].revTx = NoRevTx
    BY <1>0, <2>1, <2>2
  <2>7. new \notin net
    BY <1>0, <1>1, <2>3 DEF RevertInv, SwapInv, AppliedMeansNotPending, AcceptedFor
  <2>8. \A n \in ms : SidesOf(n)' /\ ReadyOf(n)' /\ n \notin seen
    BY <1>0, <2>3, <2>5, <2>7 DEF SidesOf, ReadyOf
  <2>9. ASSUME OnceParts
        PROVE  OnePaymentEach' /\ PayerCanRevert'
    <3>1. NoPayment \notin paid
      BY NoPaymentBuilt DEF RevertInv, SwapInv
    <3>2. PayerCanRevert'
      BY <1>0, <2>6, <2>9, <3>1 DEF OnceParts, PayerCanRevert
    <3>3. \A n \in seen : n.type = "Create" => n \in seen'
      BY <2>3, <2>4, <2>5
    <3>4. \A b, h, id : Create(b, h, id) \in seen => Create(b, h, id) \in seen'
      BY <3>3 DEF Create
    <3>5. OnePaymentEach'
      BY <1>0, <2>6, <2>9, <3>4 DEF OnceParts, OnePaymentEach
    <3> QED
      BY <3>2, <3>5
  <2>10. RevertParts' /\ (ClosedParts => ClosedParts')
    BY <1>0, <2>3, <2>4, <2>5, <2>6, <2>8, ClientSwapFrame
  <2>11. OnceParts => OnceParts'
    BY <1>0, <2>3, <2>4, <2>5, <2>8, <2>9, ClientSwapFrame
  <2> QED
    BY <2>10, <2>11
<1>2. CASE Deliver(m, {}) /\ UNCHANGED swaps
  <2> DEFINE ms == {}
  <2>1. /\ net' = net \cup ms /\ (\A n \in ms : FALSE)
        /\ \A n \in seen : n \in seen' \/ n \in ms
    BY <1>2 DEF Deliver
  <2> HIDE DEF ms
  <2> QED
    BY <1>0, <1>2, <2>1, QuietClientReverts
<1> QED
  BY <1>1, <1>2 DEF ProcessTransactionHold

\* Two hubs do not ask for payments of one swap, and neither asks twice.
LEMMA CreateOnce ==
    ASSUME RevertInv, OnceParts, MaxDuplicates = 0, NEW m \in Deliverable, m.type = "Create",
           NEW p \in built
    PROVE  ~(p[1] = m.to /\ p[2] = m.tx)
<1> SUFFICES ASSUME p[1] = m.to, p[2] = m.tx PROVE FALSE
  OBVIOUS
<1>1. PICK h \in Hubs : Create(m.to, h, m.tx) \in seen
  BY DEF OnceParts, OnePaymentEach
<1> DEFINE n == Create(m.to, h, m.tx)
<1>2. n.type = "Create" /\ n.to = m.to /\ n.hub = h /\ n.tx = m.tx
  BY DEF Create
<1>3. n \in seen
  BY <1>1
<1> HIDE DEF n
<1>4. /\ TypeOK /\ m \in net /\ n \in net /\ m \in Packet /\ n \in Packet /\ m \notin seen
  BY <1>3, HeardOnce DEF RevertInv, SwapInv, TypeOK, PacketsTypeOK, Deliverable
<1>5. m.hub \in Hubs /\ m.tx \in TxIds /\ TwoParty(m.tx)
  BY <1>4, PacketFields DEF RevertInv, RevertParts, OnlyTwoParties
<1>6. Heard(m.hub, Source[m.tx[1]], m.tx, "HoldApply") /\ Heard(h, Source[m.tx[1]], m.tx, "HoldApply")
  <2>1. Told(m.hub, m.tx, "Create") /\ Told(h, m.tx, "Create")
    BY <1>2, <1>4 DEF Told
  <2>2. RunsOnceAt(m.hub, m.tx) /\ RunsOnceAt(h, m.tx)
    BY <1>5, PartsAt DEF OnceParts
  <2> QED
    BY <2>1, <2>2 DEF RunsOnceAt
<1>7. m.hub = h
  <2>1. PICK x \in net, y \in net :
           /\ x.type = "HoldApply" /\ x.to = m.hub /\ x.from = Source[m.tx[1]] /\ x.tx = m.tx
           /\ y.type = "HoldApply" /\ y.to = h /\ y.from = Source[m.tx[1]] /\ y.tx = m.tx
    BY <1>4, <1>6 DEF Heard, TypeOK, PacketsTypeOK
  <2>2. m.tx[1] \in Orders /\ AcceptedFor(x, m.tx[1]) /\ AcceptedFor(y, m.tx[1])
    BY <1>5, <2>1, TwoPartyIds DEF AcceptedFor
  <2> QED
    BY <2>1, <2>2 DEF RevertInv, SwapInv, OneSwapPerOrder
<1>8. m = n
  BY <1>2, <1>4, <1>7, SamePacket
<1> QED
  BY <1>3, <1>4, <1>8

\* A new payment is the only one of its side, and is not sent yet.
LEMMA NewPayment ==
    ASSUME RevertInv, OnceParts, MaxDuplicates = 0, NEW m \in Deliverable, m.type = "Create",
           NEW a \in Apps, NEW pay, BuildPayment(a, m, pay), paid' = paid,
           NEW ms, seen' = (seen \cup {m}) \ ms, \A n \in ms : n.type \in {"Created", "Cancel"},
           NEW d, d.payTx = pay, swaps' = [swaps EXCEPT ![a][m.tx] = d]
    PROVE  OnePaymentEach' /\ PayerCanRevert'
<1>1. /\ pay \notin built /\ pay[1] = m.to /\ pay[2] = m.tx /\ built' = built \cup {pay}
      /\ paid \subseteq built /\ pay \notin paid
      /\ swaps \in [Apps -> [TxIds -> Descr]]
  BY DEF BuildPayment, OnceParts, OnePaymentEach, RevertInv, SwapInv, TypeOK, ClientTypeOK
<1>2. \A p \in built : ~(p[1] = m.to /\ p[2] = m.tx)
  BY CreateOnce
<1>3. \A b \in Apps, id \in TxIds :
        swaps'[b][id] = swaps[b][id] \/ swaps'[b][id].payTx = pay
  BY <1>1
<1>4. PayerCanRevert'
  BY <1>1, <1>3 DEF OnceParts, PayerCanRevert
<1>5. m.hub \in Hubs /\ Create(m.to, m.hub, m.tx) \in seen'
  <2> DEFINE n == Create(m.to, m.hub, m.tx)
  <2>1. m \in Packet
    BY DEF Deliverable, RevertInv, SwapInv, TypeOK, PacketsTypeOK
  <2>2. m.to \in Addrs /\ m.hub \in Hubs /\ m.tx \in TxIds
    BY <2>1, PacketFields
  <2>3. n.type = "Create" /\ n.to = m.to /\ n.hub = m.hub /\ n.tx = m.tx
    BY DEF Create
  <2>4. n \in Packet
    BY <2>2, <2>3 DEF Create, Packet
  <2> HIDE DEF n
  <2>5. n = m
    BY <2>1, <2>3, <2>4, SamePacket
  <2>6. m \in seen'
    OBVIOUS
  <2> QED
    BY <2>2, <2>5, <2>6 DEF n
<1>6. \A b, h, id : Create(b, h, id) \in seen => Create(b, h, id) \in seen'
  <2>1. \A n \in seen : n.type = "Create" => n \in seen'
    OBVIOUS
  <2> QED
    BY <2>1 DEF Create
<1>7. OnePaymentEach'
  <2>1. \A p, q \in built' : p[1] = q[1] /\ p[2] = q[2] => p = q
    BY <1>1, <1>2 DEF OnceParts, OnePaymentEach
  <2>2. \A p \in built' : \E h \in Hubs : Create(p[1], h, p[2]) \in seen'
    BY <1>1, <1>5, <1>6 DEF OnceParts, OnePaymentEach
  <2>3. paid' \subseteq built'
    BY <1>1
  <2>4. \A b \in Apps, id \in TxIds : swaps'[b][id].payTx \in built' \cup {NoPayment}
    BY <1>1, <1>3 DEF OnceParts, OnePaymentEach
  <2> QED
    BY <2>1, <2>2, <2>3, <2>4 DEF OnePaymentEach
<1> QED
  BY <1>4, <1>7

LEMMA CreateReverts ==
    ASSUME RevertInv, UNCHANGED hubVars, NEW m \in Deliverable, NEW a \in Apps, a = Receiver(m),
           ProcessTransactionCreate(a, m)
    PROVE  /\ RevertParts'
           /\ OnceParts /\ MaxDuplicates = 0 => OnceParts'
           /\ ClosedParts => ClosedParts'
<1>0. /\ m \in net /\ m.type = "Create" /\ m.tx \in TxIds /\ m.to \in Addrs
      /\ m.to \in {Source[m.tx[1]], Source[m.tx[2]]}
      /\ swaps \in [Apps -> [TxIds -> Descr]] /\ swaps[a][m.tx] \in Descr
      /\ UNCHANGED paid /\ TwoParty(m.tx) /\ seen \subseteq net
  BY PacketFields DEF ProcessTransactionCreate, RevertInv, RevertParts, OnlyTwoParties, SwapInv,
                      CoinOrdersAddressed, TypeOK, PacketsTypeOK, ClientTypeOK, Deliverable
<1>1. a = Owner[m.to]
  BY <1>0, NodeAssumption DEF Receiver
<1>2. /\ a = AppOf(m.tx[1]) => m.to = Source[m.tx[1]]
      /\ a = AppOf(m.tx[2]) => m.to = Source[m.tx[2]]
  BY <1>0, <1>1 DEF TwoParty, AppOf
<1>3. \A n \in CancelAll(m.tx) : n.type = "Cancel"
  BY DEF CancelAll, Cancel
<1>4. ASSUME NEW pay \in Payments, BuildPayment(a, m, pay),
             swaps' = [swaps EXCEPT ![a][m.tx] =
                [swaps[a][m.tx] EXCEPT !.state = "trCreated", !.payTxId = pay, !.payTx = pay,
                                       !.revTx = [spends |-> pay, signed |-> FALSE]]],
             Deliver(m, {Created(m.hub, m.to, m.tx, [spends |-> pay, signed |-> FALSE])})
      PROVE  /\ RevertParts'
             /\ OnceParts /\ MaxDuplicates = 0 => OnceParts'
             /\ ClosedParts => ClosedParts'
  <2> DEFINE rev == [spends |-> pay, signed |-> FALSE]
             new == Created(m.hub, m.to, m.tx, rev)
             ms == {new}
             d == [swaps[a][m.tx] EXCEPT !.state = "trCreated", !.payTxId = pay,
                                         !.payTx = pay, !.revTx = rev]
  <2>1. pay \notin built /\ pay[1] = m.to /\ pay[2] = m.tx /\ built' = built \cup {pay}
    BY <1>4 DEF BuildPayment
  <2>2. rev.spends = pay /\ ~rev.signed
    OBVIOUS
  <2>3. d.payTx = pay /\ d.revTx = rev
    BY <1>0 DEF Descr
  <2>4. new.type = "Created" /\ new.from = m.to /\ new.tx = m.tx /\ new.rev = rev
    BY DEF Created
  <2>5. net' = net \cup ms /\ seen' = (seen \cup {m}) \ ms
    BY <1>4 DEF Deliver
  <2>6. swaps' = [swaps EXCEPT ![a][m.tx] = d]
    BY <1>4
  <2>7. \A n \in ms : n = new
    OBVIOUS
  <2> HIDE DEF rev, new, ms, d
  <2>8. /\ m.to = Source[m.tx[1]] => SideRev(rev, m.tx[1], m.tx)'
        /\ m.to = Source[m.tx[2]] => SideRev(rev, m.tx[2], m.tx)'
    BY <2>1, <2>2 DEF SideRev
  <2>9. \A n \in ms : SidesOf(n)' /\ ReadyOf(n)'
    BY <2>1, <2>2, <2>4, <2>7, <2>8 DEF SidesOf, ReadyOf, RevOf
  <2>10. ASSUME NEW b \in Apps, NEW id \in TxIds
         PROVE  \/ swaps'[b][id].revTx = swaps[b][id].revTx
                \/ /\ RevOf(swaps[b][id].revTx, id, b, AppOf(id[1]), AppOf(id[2]))'
                   /\ ~swaps'[b][id].revTx.signed
    <3>1. CASE b = a /\ id = m.tx
      <4>1. swaps'[b][id].revTx = rev
        BY <1>0, <2>3, <2>6, <3>1
      <4>2. RevOf(rev, id, b, AppOf(id[1]), AppOf(id[2]))'
        BY <1>2, <2>8, <3>1 DEF RevOf, AppOf
      <4> QED
        BY <2>2, <4>1, <4>2 DEF AppOf
    <3>2. CASE ~(b = a /\ id = m.tx)
      BY <1>0, <2>6, <3>2
    <3> QED
      BY <3>1, <3>2
  <2>11. RevertParts' /\ (ClosedParts => ClosedParts')
    BY <2>1, <2>4, <2>5, <2>7, <2>9, <2>10, ClientSwapFrame
  <2>12. ASSUME OnceParts, MaxDuplicates = 0
         PROVE  OnceParts'
    <3>0. /\ BuildPayment(a, m, pay) /\ paid' = paid /\ d.payTx = pay /\ m.type = "Create"
          /\ seen' = (seen \cup {m}) \ ms
          /\ \A n \in ms : n.type \in {"Created", "Cancel"}
      BY <1>0, <1>4, <2>3, <2>4, <2>5, <2>7
    <3>1. OnePaymentEach' /\ PayerCanRevert'
      BY <2>6, <2>12, <3>0, NewPayment
    <3>2. new \notin net
      <4>1. new \in net => ReadyOf(new)
        BY <2>12, PartsAt DEF OnceParts
      <4> QED
        BY <2>1, <2>2, <2>4, <4>1 DEF ReadyOf
    <3> QED
      BY <1>0, <2>1, <2>4, <2>5, <2>7, <2>9, <2>12, <3>1, <3>2, ClientSwapFrame
  <2> QED
    BY <2>11, <2>12
<1>5. ASSUME NEW pay \in Payments, BuildPayment(a, m, pay),
             swaps' = [swaps EXCEPT ![a][m.tx] =
                          [swaps[a][m.tx] EXCEPT !.payTxId = pay, !.payTx = pay]],
             Deliver(m, CancelAll(m.tx))
      PROVE  /\ RevertParts'
             /\ OnceParts /\ MaxDuplicates = 0 => OnceParts'
             /\ ClosedParts => ClosedParts'
  <2> DEFINE ms == CancelAll(m.tx)
             d == [swaps[a][m.tx] EXCEPT !.payTxId = pay, !.payTx = pay]
  <2>1. built \subseteq built'
    BY <1>5 DEF BuildPayment
  <2>2. d.payTx = pay /\ d.revTx = swaps[a][m.tx].revTx
    BY <1>0 DEF Descr
  <2>3. net' = net \cup ms /\ seen' = (seen \cup {m}) \ ms
    BY <1>5 DEF Deliver
  <2>4. swaps' = [swaps EXCEPT ![a][m.tx] = d]
    BY <1>5
  <2>5. \A n \in ms : n.type = "Cancel"
    BY <1>3
  <2> HIDE DEF ms, d
  <2>6. \A n \in ms : SidesOf(n)' /\ ReadyOf(n)'
    BY <2>5 DEF SidesOf, ReadyOf
  <2>7. \A b \in Apps, id \in TxIds : swaps'[b][id].revTx = swaps[b][id].revTx
    BY <1>0, <2>2, <2>4
  <2>8. RevertParts' /\ (ClosedParts => ClosedParts')
    BY <2>1, <2>3, <2>5, <2>6, <2>7, ClientSwapFrame
  <2>9. ASSUME OnceParts, MaxDuplicates = 0
        PROVE  OnceParts'
    <3>0. /\ BuildPayment(a, m, pay) /\ paid' = paid /\ d.payTx = pay /\ m.type = "Create"
          /\ seen' = (seen \cup {m}) \ ms
          /\ \A n \in ms : n.type \in {"Created", "Cancel"}
      BY <1>0, <1>5, <2>2, <2>3, <2>5
    <3>1. OnePaymentEach' /\ PayerCanRevert'
      BY <2>4, <2>9, <3>0, NewPayment
    <3> QED
      BY <2>1, <2>3, <2>5, <2>6, <2>9, <3>1, ClientSwapFrame
  <2> QED
    BY <2>8, <2>9
<1>6. CASE Deliver(m, CancelAll(m.tx)) /\ UNCHANGED <<swaps, built>>
  <2> DEFINE ms == CancelAll(m.tx)
  <2>1. net' = net \cup ms /\ (\A n \in seen : n \in seen' \/ n \in ms)
    BY <1>6 DEF Deliver
  <2>2. \A n \in ms : n.type = "Cancel"
    BY <1>3
  <2> HIDE DEF ms
  <2> QED
    BY <1>0, <1>6, <2>1, <2>2, QuietClientReverts
<1> QED
  BY <1>4, <1>5, <1>6 DEF ProcessTransactionCreate

LEMMA SetStateKeepsReverts ==
    ASSUME TypeOK, NEW a \in Apps, NEW id \in TxIds, NEW state, SetState(a, id, state)
    PROVE  \A b \in Apps, i \in TxIds : /\ swaps'[b][i].payTx = swaps[b][i].payTx
                                        /\ swaps'[b][i].revTx = swaps[b][i].revTx
<1> DEFINE d == [swaps[a][id] EXCEPT !.state = state]
<1>1. d.payTx = swaps[a][id].payTx /\ d.revTx = swaps[a][id].revTx
  BY DEF TypeOK, ClientTypeOK, Descr
<1>2. swaps' = [swaps EXCEPT ![a][id] = d]
  BY DEF SetState
<1> HIDE DEF d
<1> QED
  BY <1>1, <1>2 DEF TypeOK, ClientTypeOK

LEMMA SignReverts ==
    ASSUME RevertInv, UNCHANGED hubVars, NEW m \in net, NEW a \in Apps,
           ProcessTransactionSign(a, m)
    PROVE  /\ RevertParts'
           /\ OnceParts => OnceParts'
           /\ ClosedParts => ClosedParts'
<1>0. /\ TypeOK /\ m.type = "Sign" /\ m.tx \in TxIds /\ m.rev \in RawRevTx
      /\ UNCHANGED <<built, paid>>
  BY PacketFields DEF ProcessTransactionSign, RevertInv, SwapInv, TypeOK, PacketsTypeOK
<1>1. CASE /\ SetState(a, m.tx, "trSigned")
           /\ Deliver(m, {Signed(m.hub, m.to, m.tx, [m.rev EXCEPT !.signed = TRUE])})
  <2> DEFINE rev == [m.rev EXCEPT !.signed = TRUE]
             new == Signed(m.hub, m.to, m.tx, rev)
             ms == {new}
  <2>1. rev.spends = m.rev.spends /\ rev.signed
    BY <1>0 DEF RawRevTx
  <2>2. new.type = "Signed" /\ new.from = m.to /\ new.tx = m.tx /\ new.rev = rev
    BY DEF Signed
  <2>3. net' = net \cup ms /\ \A n \in seen : n \in seen' \/ n \in ms
    BY <1>1 DEF Deliver
  <2>4. \A n \in ms : n = new
    OBVIOUS
  <2> HIDE DEF rev, new, ms
  <2>5. \A b \in Apps, i \in TxIds : /\ swaps'[b][i].payTx = swaps[b][i].payTx
                                     /\ swaps'[b][i].revTx = swaps[b][i].revTx
    BY <1>0, <1>1, SetStateKeepsReverts
  <2>6. SidesOf(new)'
    <3>1. SidesOf(m)
      BY PartsAt DEF RevertInv, RevertParts
    <3>2. \A o, id : SideRev(m.rev, o, id) => SideRev(rev, o, id)'
      BY <1>0, <2>1 DEF SideRev
    <3> QED
      BY <1>0, <2>2, <3>1, <3>2 DEF SidesOf, RevOf
  <2>7. ASSUME OnceParts
        PROVE  ReadyOf(new)' /\ OnePaymentEach' /\ PayerCanRevert'
    <3>1. ReadyOf(m)
      BY <2>7, PartsAt DEF OnceParts
    <3>2. ReadyOf(new)'
      BY <1>0, <2>1, <2>2, <3>1 DEF ReadyOf
    <3>3. PayerCanRevert'
      BY <1>0, <2>5, <2>7 DEF OnceParts, PayerCanRevert
    <3>4. \A n \in seen : n.type = "Create" => n \in seen'
      BY <2>2, <2>3, <2>4
    <3>5. \A b, h, id : Create(b, h, id) \in seen => Create(b, h, id) \in seen'
      BY <3>4 DEF Create
    <3>6. OnePaymentEach'
      BY <1>0, <2>5, <2>7, <3>5 DEF OnceParts, OnePaymentEach
    <3> QED
      BY <3>2, <3>3, <3>6
  <2>8. RevertParts' /\ (ClosedParts => ClosedParts')
    BY <1>0, <2>2, <2>3, <2>4, <2>5, <2>6, ClientSwapFrame
  <2>9. OnceParts => OnceParts'
    BY <1>0, <2>2, <2>3, <2>4, <2>7, ClientSwapFrame
  <2> QED
    BY <2>8, <2>9
<1>2. CASE Deliver(m, CancelAll(m.tx)) /\ UNCHANGED swaps
  <2> DEFINE ms == CancelAll(m.tx)
  <2>1. net' = net \cup ms /\ (\A n \in seen : n \in seen' \/ n \in ms)
    BY <1>2 DEF Deliver
  <2>2. \A n \in ms : n.type = "Cancel"
    BY DEF CancelAll, Cancel
  <2> HIDE DEF ms
  <2> QED
    BY <1>0, <1>2, <2>1, <2>2, QuietClientReverts
<1> QED
  BY <1>1, <1>2 DEF ProcessTransactionSign

\* What comes with the order to pay takes back the payment it orders.
LEMMA CommitReverts ==
    ASSUME RevertInv, UNCHANGED hubVars, NEW m \in net, NEW a \in Apps, a = Receiver(m),
           ProcessTransactionCommit(a, m)
    PROVE  /\ RevertParts'
           /\ OnceParts => OnceParts'
           /\ ClosedParts => ClosedParts'
<1> DEFINE id == m.tx
           pay == swaps[a][id].payTx
<1>0. /\ m.type = "Commit" /\ id \in TxIds /\ m.to \in Addrs /\ m.rev \in RawRevTx
      /\ m.to \in {Source[id[1]], Source[id[2]]}
      /\ swaps \in [Apps -> [TxIds -> Descr]] /\ swaps[a][id] \in Descr
      /\ UNCHANGED built /\ TwoParty(id)
  BY PacketFields DEF ProcessTransactionCommit, RevertInv, RevertParts, OnlyTwoParties, SwapInv,
                      CoinOrdersAddressed, TypeOK, PacketsTypeOK, ClientTypeOK
<1>1. a = Owner[m.to]
  BY <1>0, NodeAssumption DEF Receiver
<1>2. /\ a = AppOf(id[1]) => m.to = Source[id[1]]
      /\ a = AppOf(id[2]) => m.to = Source[id[2]]
  BY <1>0, <1>1 DEF TwoParty, AppOf
<1>3. \E ms, d :
         /\ net' = net \cup ms /\ seen' = (seen \cup {m}) \ ms
         /\ \A n \in ms : n.type = "Commited"
         /\ d.payTx = pay /\ d.revTx = m.rev
         /\ swaps' = [swaps EXCEPT ![a][id] = d]
         /\ paid' = paid \/ (paid' = paid \cup {pay} /\ pay # NoPayment)
  <2> DEFINE c == [swaps[a][id] EXCEPT !.revTx = m.rev]
             e == [c EXCEPT !.state = "trCommited"]
             new == Commited(m.hub, m.to, id, c.payTxId)
  <2>1. c.payTx = pay /\ c.revTx = m.rev /\ e.payTx = pay /\ e.revTx = m.rev
    BY <1>0 DEF Descr
  <2>2. CASE /\ c.payTx # NoPayment
             /\ paid' = paid \cup {c.payTx}
             /\ swaps' = [swaps EXCEPT ![a][id] = e]
             /\ Deliver(m, {new})
    <3> DEFINE ms == {new}
    <3>1. \A n \in ms : n.type = "Commited"
      BY DEF Commited
    <3>2. net' = net \cup ms /\ seen' = (seen \cup {m}) \ ms
      BY <2>2 DEF Deliver
    <3> HIDE DEF c, e, ms
    <3> QED
      BY <2>1, <2>2, <3>1, <3>2
  <2>3. CASE /\ swaps' = [swaps EXCEPT ![a][id] = c]
             /\ Deliver(m, {})
             /\ UNCHANGED paid
    <3> DEFINE ms == {}
    <3>1. (\A n \in ms : n.type = "Commited") /\ net' = net \cup ms /\ seen' = (seen \cup {m}) \ ms
      BY <2>3 DEF Deliver
    <3> HIDE DEF c, e, ms
    <3> QED
      BY <2>1, <2>3, <3>1
  <2> QED
    BY <2>2, <2>3 DEF ProcessTransactionCommit
<1>4. PICK ms, d :
         /\ net' = net \cup ms /\ seen' = (seen \cup {m}) \ ms
         /\ \A n \in ms : n.type = "Commited"
         /\ d.payTx = pay /\ d.revTx = m.rev
         /\ swaps' = [swaps EXCEPT ![a][id] = d]
         /\ paid' = paid \/ (paid' = paid \cup {pay} /\ pay # NoPayment)
  BY <1>3
<1>5. \A b \in Apps, i \in TxIds :
        /\ swaps'[b][i].payTx = swaps[b][i].payTx
        /\ ~(b = a /\ i = id) => swaps'[b][i].revTx = swaps[b][i].revTx
        /\ b = a /\ i = id => swaps'[b][i].revTx = m.rev
  BY <1>0, <1>4
<1>6. \A n \in ms : SidesOf(n)' /\ ReadyOf(n)'
  BY <1>4 DEF SidesOf, ReadyOf
<1>7. RevOf(m.rev, id, m.to, Source[id[1]], Source[id[2]])
  BY <1>0, PartsAt DEF RevertInv, RevertParts, SidesOf
<1>8. RevOf(m.rev, id, a, AppOf(id[1]), AppOf(id[2]))'
  BY <1>0, <1>2, <1>7 DEF RevOf, SideRev, AppOf
<1>9. RevertParts' /\ (ClosedParts => ClosedParts')
  <2>1. \A b \in Apps, i \in TxIds :
          \/ swaps'[b][i].revTx \in {swaps[b][i].revTx, NoRevTx}
          \/ /\ RevOf(swaps[b][i].revTx, i, b, AppOf(i[1]), AppOf(i[2]))'
             /\ swaps'[b][i].revTx.signed =>
                  \E n \in net : n.type = "Commit" /\ n.tx = i /\ Owner[n.to] = b
    BY <1>0, <1>1, <1>5, <1>8 DEF AppOf
  <2>2. /\ \A n \in seen : n \in seen' \/ n \in ms
        /\ \A n \in ms : SidesOf(n)'
        /\ \A n \in ms : n.type \in {"Transaction", "HoldApply", "Initialized", "Created",
                                     "Signed", "Commited", "Confirmed", "Cancel"}
        /\ built \subseteq built' /\ net' = net \cup ms
    BY <1>0, <1>4, <1>6
  <2> QED
    BY <2>1, <2>2, ClientSwapFrame
<1>10. ASSUME OnceParts
       PROVE  OnceParts'
  <2>0. NoPayment \notin paid
    BY NoPaymentBuilt DEF RevertInv, SwapInv
  <2>1. m.rev.spends # NoPayment /\ m.rev.signed
    BY <1>0, <1>10, PartsAt DEF OnceParts, ReadyOf
  <2>2. m.rev.spends \in built /\ m.rev.spends[1] = m.to /\ m.rev.spends[2] = id
    BY <1>0, <1>7, <2>1 DEF RevOf, SideRev
  <2>3. ASSUME pay # NoPayment
        PROVE  m.rev = [spends |-> pay, signed |-> TRUE]
    <3>1. pay \in built
      BY <1>0, <1>10, <2>3 DEF OnceParts, OnePaymentEach
    <3>2. pay[2] = id /\ Owner[pay[1]] = a /\ pay[1] \in {Source[id[1]], Source[id[2]]}
      BY <1>0, <2>3 DEF RevertInv, SwapInv, OwnPayments
    <3>3. pay[1] = m.to
      BY <1>2, <3>2 DEF AppOf
    <3>4. m.rev.spends = pay
      BY <1>10, <2>2, <3>1, <3>2, <3>3 DEF OnceParts, OnePaymentEach
    <3> QED
      BY <1>0, <2>1, <3>4 DEF RawRevTx
  <2>4. PayerCanRevert'
    <3> SUFFICES ASSUME NEW b \in Apps, NEW i \in TxIds, swaps'[b][i].payTx \in paid'
                 PROVE  swaps'[b][i].revTx = [spends |-> swaps'[b][i].payTx, signed |-> TRUE]
      BY DEF PayerCanRevert
    <3>1. swaps[b][i].payTx # NoPayment
      BY <1>4, <1>5, <2>0
    <3>2. CASE b = a /\ i = id
      BY <1>5, <2>3, <3>1, <3>2
    <3>3. CASE ~(b = a /\ i = id)
      <4>1. swaps[b][i].payTx # pay \/ pay = NoPayment
        BY <1>0, <3>1, <3>3 DEF RevertInv, SwapInv, OwnPayments
      <4>2. swaps[b][i].payTx \in paid
        BY <1>4, <1>5, <4>1
      <4> QED
        BY <1>5, <1>10, <3>3, <4>2 DEF OnceParts, PayerCanRevert
    <3> QED
      BY <3>2, <3>3
  <2>5. OnePaymentEach'
    <3>1. \A n \in seen : n.type = "Create" => n \in seen'
      BY <1>4
    <3>2. \A b, h, i : Create(b, h, i) \in seen => Create(b, h, i) \in seen'
      BY <3>1 DEF Create
    <3>3. paid' \subseteq built
      BY <1>0, <1>4, <1>10 DEF OnceParts, OnePaymentEach
    <3> QED
      BY <1>0, <1>5, <1>10, <3>2, <3>3 DEF OnceParts, OnePaymentEach
  <2> QED
    BY <1>0, <1>4, <1>6, <1>10, <2>4, <2>5, ClientSwapFrame
<1> QED
  BY <1>9, <1>10

LEMMA ClientReverts ==
    ASSUME RevertInv, ClientReceives \/ ClientTimers
    PROVE  /\ RevertParts'
           /\ OnceParts /\ MaxDuplicates = 0 => OnceParts'
           /\ ClosedParts => ClosedParts'
<1> DEFINE Kept == /\ RevertParts'
                   /\ OnceParts /\ MaxDuplicates = 0 => OnceParts'
                   /\ ClosedParts => ClosedParts'
<1>0. UNCHANGED hubVars /\ TypeOK /\ swaps \in [Apps -> [TxIds -> Descr]]
  BY DEF ClientReceives, ClientTimers, RevertInv, SwapInv, TypeOK, ClientTypeOK
<1>1. ASSUME ClientReceives
      PROVE  Kept
  <2>1. PICK m \in ToClient :
          LET a == Receiver(m) IN
          \/ ProcessNothing(a, m)
          \/ ProcessTransactionHold(a, m)
          \/ ProcessTransactionInit(a, m)
          \/ ProcessTransactionCreate(a, m)
          \/ ProcessTransactionSign(a, m)
          \/ ProcessTransactionCommit(a, m)
          \/ ProcessTransactionConfirm(a, m)
          \/ ProcessTransactionCancel(a, m)
          \/ ProcessTransactionFinished(a, m)
          \/ ProcessTransactionRollback(a, m)
    BY <1>1 DEF ClientReceives, ClientReceive
  <2> DEFINE a == Receiver(m)
  <2>2. m \in Deliverable /\ m \in net /\ m \in Packet /\ a \in Apps
    BY <1>0, NodeAssumption DEF TypeOK, PacketsTypeOK, ToClient, Deliverable, Receiver
  <2> HIDE DEF a
  <2>3. ASSUME NEW ms, Deliver(m, ms), UNCHANGED <<built, paid>>,
               \A n \in ms : n.type \in {"Transaction", "Initialized", "Confirmed", "Cancel"},
               \A b \in Apps, id \in TxIds :
                   \/ /\ swaps'[b][id].payTx = swaps[b][id].payTx
                      /\ swaps'[b][id].revTx = swaps[b][id].revTx
                   \/ /\ swaps'[b][id].payTx = NoPayment
                      /\ swaps'[b][id].revTx = NoRevTx
        PROVE  Kept
    <3>1. net' = net \cup ms /\ \A n \in seen : n \in seen' \/ n \in ms
      BY <2>3 DEF Deliver
    <3> QED
      BY <1>0, <2>3, <3>1, QuietClientReverts
  <2> DEFINE none == {}
  <2>4. \A n \in none : n.type \in {"Cancel"}
    OBVIOUS
  <2> HIDE DEF none
  <2>5. CASE ProcessNothing(a, m)
    BY <2>3, <2>4, <2>5 DEF ProcessNothing, clientVars, none
  <2>6. CASE ProcessTransactionInit(a, m)
    <3>1. m.tx \in TxIds /\ NewDescr.payTx = NoPayment /\ NewDescr.revTx = NoRevTx
      BY <2>2, <2>6, PacketFields DEF ProcessTransactionInit, NewDescr
    <3>2. \A b \in Apps, id \in TxIds :
            \/ /\ swaps'[b][id].payTx = swaps[b][id].payTx
               /\ swaps'[b][id].revTx = swaps[b][id].revTx
            \/ /\ swaps'[b][id].payTx = NoPayment
               /\ swaps'[b][id].revTx = NoRevTx
      BY <1>0, <2>2, <2>6, <3>1 DEF ProcessTransactionInit
    <3> DEFINE ms == {Initialized(m.hub, m.to, m.tx)}
    <3>3. \A n \in ms : n.type = "Initialized"
      BY DEF Initialized
    <3>4. Deliver(m, ms) /\ UNCHANGED <<built, paid>>
      BY <2>6 DEF ProcessTransactionInit
    <3> HIDE DEF ms
    <3> QED
      BY <2>3, <3>2, <3>3, <3>4
  <2>7. CASE ProcessTransactionConfirm(a, m)
    <3>1. m.tx \in TxIds
      BY <2>2, <2>7, PacketFields DEF ProcessTransactionConfirm
    <3> DEFINE d == [swaps[a][m.tx] EXCEPT !.payTxId = m.hash]
    <3>2. swaps' = [swaps EXCEPT ![a][m.tx] = d]
      BY <2>7 DEF ProcessTransactionConfirm
    <3>3. d.payTx = swaps[a][m.tx].payTx /\ d.revTx = swaps[a][m.tx].revTx
      BY <1>0, <2>2, <3>1 DEF Descr
    <3> HIDE DEF d
    <3>4. \A b \in Apps, id \in TxIds : /\ swaps'[b][id].payTx = swaps[b][id].payTx
                                        /\ swaps'[b][id].revTx = swaps[b][id].revTx
      BY <1>0, <2>2, <3>1, <3>2, <3>3
    <3>5. Deliver(m, none) /\ UNCHANGED <<built, paid>>
      BY <2>7 DEF ProcessTransactionConfirm, none
    <3> QED
      BY <2>3, <2>4, <3>4, <3>5
  <2>8. ASSUME NEW id \in TxIds, NEW state, SetState(a, id, state) \/ UNCHANGED swaps,
               Deliver(m, none), UNCHANGED <<built, paid>>
        PROVE  Kept
    <3>1. \A b \in Apps, i \in TxIds : /\ swaps'[b][i].payTx = swaps[b][i].payTx
                                       /\ swaps'[b][i].revTx = swaps[b][i].revTx
      BY <1>0, <2>2, <2>8, SetStateKeepsReverts
    <3> QED
      BY <2>3, <2>4, <2>8, <3>1
  <2>9. CASE ProcessTransactionCancel(a, m)
    <3>1. CASE m.id \in TxIds /\ Known(a, m.id)
      BY <2>8, <2>9, <3>1 DEF ProcessTransactionCancel, none
    <3>2. CASE ~(m.id \in TxIds /\ Known(a, m.id))
      BY <2>3, <2>4, <2>9, <3>2 DEF ProcessTransactionCancel, none
    <3> QED
      BY <3>1, <3>2
  <2>10. CASE ProcessTransactionFinished(a, m)
    BY <2>2, <2>8, <2>10, PacketFields DEF ProcessTransactionFinished, none
  <2>11. CASE ProcessTransactionRollback(a, m)
    BY <2>2, <2>8, <2>11, PacketFields DEF ProcessTransactionRollback, none
  <2> QED
    BY <1>0, <2>1, <2>2, <2>5, <2>6, <2>7, <2>9, <2>10, <2>11, HoldReverts, CreateReverts,
       SignReverts, CommitReverts DEF a
<1>2. ASSUME NEW ms, Send(ms), UNCHANGED <<swaps, built, paid>>,
             \A n \in ms : n.type \in {"Transaction", "Confirmed"}
      PROVE  Kept
  <2>1. net' = net \cup ms /\ \A n \in seen : n \in seen' \/ n \in ms
    BY <1>2 DEF Send
  <2> QED
    BY <1>0, <1>2, <2>1, QuietClientReverts
<1>3. ASSUME NEW a \in Apps, NEW id \in TxIds, RequestUnconfirmedTx(a, id)
      PROVE  Kept
  <2> DEFINE ms == {Confirmed(h, me, id) : h \in unconfirmed[a][id].hubs,
                                           me \in unconfirmed[a][id].me}
  <2>1. Send(ms) /\ UNCHANGED <<swaps, built, paid>>
    BY <1>3 DEF RequestUnconfirmedTx
  <2>2. \A n \in ms : n.type = "Confirmed"
    BY DEF Confirmed
  <2> HIDE DEF ms
  <2> QED
    BY <1>2, <2>1, <2>2
<1>4. ASSUME NEW a \in Apps, SendListOfTransactions(a)
      PROVE  Kept
  <2> DEFINE ms == UNION {Offer(o) : o \in {p \in pending : AppOf(p) = a}}
  <2>1. Send(ms) /\ UNCHANGED <<swaps, built, paid>>
    BY <1>4 DEF SendListOfTransactions, clientVars
  <2>2. \A n \in ms : n.type = "Transaction"
    BY DEF Offer, Transaction
  <2> HIDE DEF ms
  <2> QED
    BY <1>2, <2>1, <2>2
<1> QED
  BY <1>1, <1>3, <1>4 DEF ClientTimers, ClientTimer

LEMMA EnvironmentReverts ==
    ASSUME RevertInv, Environment
    PROVE  /\ RevertParts'
           /\ OnceParts => OnceParts'
           /\ ClosedParts /\ ~HubWalletReports => ClosedParts'
<1> DEFINE Kept == /\ RevertParts'
                   /\ OnceParts => OnceParts'
                   /\ ClosedParts => ClosedParts'
<1>0. TypeOK /\ swaps \in [Apps -> [TxIds -> Descr]]
  BY DEF RevertInv, SwapInv, TypeOK, ClientTypeOK
<1> DEFINE Same == \A b \in Apps, id \in TxIds : /\ swaps'[b][id].payTx = swaps[b][id].payTx
                                                /\ swaps'[b][id].revTx = swaps[b][id].revTx
<1>1. ASSUME NEW ms, net' = net \cup ms, seen' = seen \ ms, UNCHANGED <<hubVars, built, paid>>,
             \A n \in ms : n.type \in {"Transaction", "Cancel"},
             \A b \in Apps, id \in TxIds :
                 \/ /\ swaps'[b][id].payTx = swaps[b][id].payTx
                    /\ swaps'[b][id].revTx = swaps[b][id].revTx
                 \/ /\ swaps'[b][id].payTx = NoPayment
                    /\ swaps'[b][id].revTx = NoRevTx
      PROVE  Kept
  BY <1>1, QuietClientReverts
<1>2. \A o \in Orders : \A n \in Offer(o) : n.type = "Transaction"
  BY DEF Offer, Transaction
<1>3. \A i : \A n \in CancelAll(i) : n.type = "Cancel"
  BY DEF CancelAll, Cancel
<1>4. ASSUME ClientUser, UNCHANGED hubVars
      PROVE  Kept
  <2>1. ASSUME NEW o \in Orders, SendXBridgeTransaction(o)
        PROVE  Kept
    BY <1>1, <1>2, <1>4, <2>1 DEF SendXBridgeTransaction, Send
  <2>2. ASSUME NEW o \in Orders, CancelPending(o)
        PROVE  Kept
    BY <1>1, <1>3, <1>4, <2>2 DEF CancelPending, Send
  <2>3. ASSUME NEW a \in Apps, NEW id \in TxIds, CancelSwap(a, id)
        PROVE  Kept
    <3>1. Same
      BY <1>0, <2>3, SetStateKeepsReverts DEF CancelSwap
    <3> QED
      BY <1>1, <1>3, <1>4, <2>3, <3>1 DEF CancelSwap, Send
  <2> QED
    BY <1>4, <2>1, <2>2, <2>3 DEF ClientUser
<1> DEFINE none == {}
<1>5. \A n \in none : n.type \in {"Cancel"}
  OBVIOUS
<1>6. UNCHANGED netVars => net' = net \cup none /\ seen' = seen \ none
  BY DEF netVars
<1> HIDE DEF none
<1>7. ASSUME NEW a \in Apps, ClientRestart(a), UNCHANGED hubVars
      PROVE  Kept
  <2>1. UNCHANGED <<built, paid>> /\ net' = net \cup none /\ seen' = seen \ none
    BY <1>6, <1>7 DEF ClientRestart
  <2>2. \A b \in Apps, i \in TxIds :
          \/ /\ swaps'[b][i].payTx = swaps[b][i].payTx
             /\ swaps'[b][i].revTx = swaps[b][i].revTx
          \/ /\ swaps'[b][i].payTx = NoPayment
             /\ swaps'[b][i].revTx = NoRevTx
    BY <1>0, <1>7 DEF ClientRestart, Absent, NewDescr
  <2> QED
    BY <1>1, <1>5, <1>7, <2>1, <2>2
<1>8. ASSUME NEW a \in Apps, NEW id \in TxIds, ProcessTransactionDropped(a, id),
             UNCHANGED hubVars
      PROVE  Kept
  <2>1. UNCHANGED <<built, paid>> /\ net' = net \cup none /\ seen' = seen \ none
    BY <1>6, <1>8 DEF ProcessTransactionDropped
  <2>2. Same
    BY <1>0, <1>8, SetStateKeepsReverts DEF ProcessTransactionDropped
  <2> QED
    BY <1>1, <1>5, <1>8, <2>1, <2>2
<1>9. ASSUME NEW h \in Hubs, HubRestart(h), UNCHANGED clientVars
      PROVE  Kept
  BY <1>9, HubQuietReverts
<1>10. ASSUME NEW h \in Hubs, NEW hash \in paid, UpdateTransaction(h, hash), UNCHANGED clientVars
       PROVE  RevertParts' /\ (OnceParts => OnceParts') /\ HubWalletReports
  BY <1>10, ReportReverts
<1> QED
  BY <1>4, <1>7, <1>8, <1>9, <1>10 DEF Environment

-----------------------------------------------------------------------------
LEMMA InitReverts == Init => ClosedInv
<1> SUFFICES ASSUME Init PROVE ClosedInv
  OBVIOUS
<1>1. PaymentInv /\ SwapInv
  BY InitInv DEF PaymentInv
<1>2. net = {} /\ seen = {} /\ built = {} /\ paid = {}
  BY DEF Init, PacketsInit, ClientInit
<1>3. \A h \in Hubs, id \in TxIds :
        /\ transactions[h][id] = Invalid /\ Invalid.state = "trInvalid"
        /\ Invalid.rawrevtx1 = NoRevTx /\ Invalid.rawrevtx2 = NoRevTx
  BY DEF Init, HubInit, Invalid
<1>4. \A a \in Apps, id \in TxIds :
        swaps[a][id].payTx = NoPayment /\ swaps[a][id].revTx = NoRevTx
  BY DEF Init, ClientInit, Absent, NewDescr
<1>5. NoRevTx.spends = NoPayment /\ ~NoRevTx.signed
  BY DEF NoRevTx
<1>6. \A h, id, type : ~Told(h, id, type)
  BY <1>2 DEF Told
<1>7. \A h \in Hubs, k \in Key : book[h][k].orders = {}
  BY DEF Init, HubInit, NoOffer
<1>8. RevertParts
  <2>1. BookFiled
    BY <1>7 DEF BookFiled
  <2>2. OnlyTwoParties
    BY <1>2, <1>3 DEF OnlyTwoParties
  <2>3. AppliedFirst
    BY <1>2, <1>3 DEF AppliedFirst, Running
  <2>4. RollbacksAddressed
    BY <1>2 DEF RollbacksAddressed
  <2>5. RevertsOwnSide
    BY <1>2, <1>3, <1>4, <1>5 DEF RevertsOwnSide, RevOf, SideRev
  <2>6. SignedMeansTold
    BY <1>4, <1>5 DEF SignedMeansTold
  <2> QED
    BY <2>1, <2>2, <2>3, <2>4, <2>5, <2>6 DEF RevertParts
<1>9. OnceParts
  <2>1. RunsOnce
    BY <1>3, <1>6 DEF RunsOnce, Running
  <2>2. OnePaymentEach
    BY <1>2, <1>4 DEF OnePaymentEach
  <2>3. RevertsReady
    BY <1>2, <1>3 DEF RevertsReady
  <2>4. PayerCanRevert
    BY <1>2 DEF PayerCanRevert
  <2> QED
    BY <2>1, <2>2, <2>3, <2>4 DEF OnceParts
<1>10. EndsOnce /\ NeverFinishedAndRolledBack
  BY <1>2 DEF EndsOnce, NeverFinishedAndRolledBack, Announced, RolledBack
<1> QED
  BY <1>1, <1>8, <1>9, <1>10 DEF ClosedInv, OnceInv, RevertInv

LEMMA NextReverts ==
    ASSUME NoSelfTrade, RevertInv, [Next]_vars
    PROVE  /\ RevertInv'
           /\ OnceParts /\ MaxDuplicates = 0 => OnceParts'
           /\ OnceParts /\ ClosedParts /\ PaymentInv /\ MaxDuplicates = 0 /\ ~HubWalletReports =>
                ClosedParts' /\ PaymentInv'
<1>1. SwapInv' /\ (PaymentInv /\ ~HubWalletReports => PaymentInv')
  BY NextInv DEF RevertInv
<1>2. CASE UNCHANGED vars
  <2>1. UNCHANGED <<clientVars, book>> /\ net' = net /\ seen \subseteq seen'
    BY <1>2 DEF vars, hubVars, netVars
  <2>2. \A h \in Hubs, id \in TxIds : transactions'[h][id] = transactions[h][id]
    BY <1>2 DEF vars, hubVars
  <2>3. /\ RevertParts'
        /\ OnceParts => OnceParts'
        /\ ClosedParts => ClosedParts'
    BY <2>1, <2>2, BookKept, RecordUnchanged, CalmSilentStep
  <2> QED
    BY <1>1, <2>3 DEF RevertInv
<1>3. CASE Next
  <2>1. /\ RevertParts'
        /\ OnceParts /\ MaxDuplicates = 0 => OnceParts'
        /\ OnceParts /\ ClosedParts /\ MaxDuplicates = 0 /\ PhaseMeansPaid /\ ~HubWalletReports =>
             ClosedParts'
    BY <1>3, HubReverts, ClientReverts, EnvironmentReverts DEF Next
  <2> QED
    BY <1>1, <2>1 DEF RevertInv, PaymentInv
<1> QED
  BY <1>2, <1>3

(***************************************************************************)
(* As long as a client remembers the payment it made, it holds a signed    *)
(* revert transaction of that very payment (processTransactionCommit keeps *)
(* what the hub sends, processTransactionSigned of the hub what the other  *)
(* client sends): whatever is lost, reordered, cancelled, expired or       *)
(* restarted, with wallets that fail, while no packet is processed more    *)
(* often than it was sent and nobody's orders mirror each other.           *)
(***************************************************************************)
THEOREM PayersCanRevert ==
    ASSUME NoSelfTrade, MaxDuplicates = 0
    PROVE  Spec => []PayerCanRevert
<1>1. Init => OnceInv
  BY InitReverts DEF ClosedInv
<1>2. OnceInv /\ [Next]_vars => OnceInv'
  BY NextReverts DEF OnceInv
<1>3. OnceInv => PayerCanRevert
  BY DEF OnceInv, OnceParts
<1> QED
  BY <1>1, <1>2, <1>3, PTL DEF Spec

(***************************************************************************)
(* The revert transaction that comes with the order to pay is signed       *)
(* (processTransactionSigned), under the same assumptions.                 *)
(***************************************************************************)
THEOREM CommitsCarrySignedReverts ==
    ASSUME NoSelfTrade, MaxDuplicates = 0
    PROVE  Spec => []CommitCarriesSignedRevert
<1>1. Init => OnceInv
  BY InitReverts DEF ClosedInv
<1>2. OnceInv /\ [Next]_vars => OnceInv'
  BY NextReverts DEF OnceInv
<1>3. OnceInv => CommitCarriesSignedRevert
  BY DEF OnceInv, OnceParts, RevertsReady, CommitCarriesSignedRevert
<1> QED
  BY <1>1, <1>2, <1>3, PTL DEF Spec

(***************************************************************************)
(* Every phase of the hub and every packet says how far both clients have  *)
(* got (increaseStateCounter(), moved by the packets of each side), under  *)
(* the assumptions above and when no hub wallet reports payments.          *)
(***************************************************************************)
THEOREM SwapsRunOnce ==
    ASSUME NoSelfTrade, MaxDuplicates = 0, ~HubWalletReports
    PROVE  Spec => []ClosedInv
<1>1. ClosedInv /\ [Next]_vars => ClosedInv'
  BY NextReverts DEF ClosedInv, OnceInv, ClosedParts
<1> QED
  BY InitReverts, <1>1, PTL DEF Spec

(***************************************************************************)
(* A hub does not announce a swap finished and tell its clients to revert  *)
(* (finishTransaction, rollbackTransaction, processTransactionConfirmed).  *)
(***************************************************************************)
THEOREM NeverBothEnds ==
    ASSUME NoSelfTrade, MaxDuplicates = 0, ~HubWalletReports
    PROVE  Spec => []NeverFinishedAndRolledBack
<1>1. Spec => []ClosedInv
  BY SwapsRunOnce
<1>2. ClosedInv => NeverFinishedAndRolledBack
  BY DEF ClosedInv
<1> QED
  BY <1>1, <1>2, PTL

-----------------------------------------------------------------------------
(***************************************************************************)
(* Payments are taken back in one handler only.                            *)
(***************************************************************************)
LEMMA NetGrows == [Next]_vars => net \subseteq net'
<1> SUFFICES ASSUME [Next]_vars PROVE net \subseteq net'
  OBVIOUS
<1>1. CASE HubReceives
  BY <1>1, ZenonT(60) DEF HubReceives, HubReceive, ProcessTransaction, ProcessTransactionHoldApply,
              ProcessTransactionInitialized, ProcessTransactionCreated,
              ProcessTransactionSigned, ProcessTransactionCommited,
              ProcessTransactionConfirmed, ProcessTransactionCancelAtHub, Acknowledge, Deliver
<1>2. CASE HubTimers
  BY <1>2 DEF HubTimers, HubTimer, CheckFinishedTransaction, FinishTransaction,
              DeleteTransaction, RollbackTransaction, EraseExpiredPendingTransaction,
              Send, netVars
<1>3. CASE ClientReceives
  BY <1>3, ZenonT(60) DEF ClientReceives, ClientReceive, ProcessNothing, ProcessTransactionHold,
              ProcessTransactionInit, ProcessTransactionCreate, ProcessTransactionSign,
              ProcessTransactionCommit, ProcessTransactionConfirm, ProcessTransactionCancel,
              ProcessTransactionFinished, ProcessTransactionRollback, Deliver
<1>4. CASE ClientTimers
  BY <1>4 DEF ClientTimers, ClientTimer, RequestUnconfirmedTx, SendListOfTransactions,
              Send, netVars
<1>5. CASE TimePasses
  BY <1>5 DEF TimePasses, Expire, ExpireOffer, netVars
<1>6. CASE Environment
  BY <1>6 DEF Environment, ClientUser, SendXBridgeTransaction, CancelPending, CancelSwap,
              ClientRestart, ProcessTransactionDropped, HubRestart, UpdateTransaction,
              Send, netVars
<1>7. CASE UNCHANGED vars
  BY <1>7 DEF vars, netVars
<1> QED
  BY <1>1, <1>2, <1>3, <1>4, <1>5, <1>6, <1>7 DEF Next

LEMMA WhoReverts ==
    ASSUME [Next]_vars
    PROVE  \/ reverted' = reverted
           \/ \E m \in ToClient : ProcessTransactionRollback(Receiver(m), m)
<1>1. CASE UNCHANGED clientVars
  BY <1>1 DEF clientVars
<1>2. CASE ClientReceives
  BY <1>2, ZenonT(60) DEF ClientReceives, ClientReceive, ProcessNothing, ProcessTransactionHold,
              ProcessTransactionInit, ProcessTransactionCreate, ProcessTransactionSign,
              ProcessTransactionCommit, ProcessTransactionConfirm, ProcessTransactionCancel,
              ProcessTransactionFinished, clientVars
<1>3. CASE ClientTimers
  <2>1. \A b, id : RequestUnconfirmedTx(b, id) => reverted' = reverted
    BY DEF RequestUnconfirmedTx
  <2>2. \A b : SendListOfTransactions(b) => reverted' = reverted
    BY Zenon DEF SendListOfTransactions, clientVars
  <2> QED
    BY <1>3, <2>1, <2>2 DEF ClientTimers, ClientTimer
<1>4. CASE Environment
  <2>1. CASE ClientUser
    BY <2>1 DEF ClientUser, SendXBridgeTransaction, CancelPending, CancelSwap, clientVars
  <2>2. CASE \E a \in Apps : ClientRestart(a)
    BY <2>2 DEF ClientRestart
  <2>3. CASE \E a \in Apps, id \in TxIds : ProcessTransactionDropped(a, id)
    BY <2>3 DEF ProcessTransactionDropped
  <2> QED
    BY <1>1, <1>4, <2>1, <2>2, <2>3 DEF Environment
<1> QED
  BY <1>1, <1>2, <1>3, <1>4 DEF Next, HubReceives, HubTimers, TimePasses, vars

\* With one order each, a client that holds a signed revert transaction of one
\* swap and is told to roll back a swap is told to roll back that one: it applied
\* for both with its only order, and an order is applied for once.
LEMMA SignedIsRolledBack ==
    ASSUME OneOrderEach, RevertInv, NEW m \in net, m.type = "Rollback",
           NEW a \in Apps, a = Owner[m.to],
           NEW id \in TxIds, swaps[a][id].revTx.signed, swaps[a][id].revTx.spends # NoPayment
    PROVE  m.tx = id /\ swaps[a][id].revTx.spends[2] = id
<1>1. /\ m.tx \in TxIds /\ m.hub \in Hubs /\ m.to \in Addrs
      /\ m.to \in {Source[m.tx[1]], Source[m.tx[2]]}
      /\ TwoParty(m.tx) /\ BothApplied(m.hub, m.tx)
  BY PacketFields DEF RevertInv, RevertParts, RollbacksAddressed, OnlyTwoParties,
                      AppliedFirst, SwapInv, TypeOK, PacketsTypeOK
<1>2. PICK n \in net : n.type = "Commit" /\ n.tx = id /\ Owner[n.to] = a
  BY DEF RevertInv, RevertParts, SignedMeansTold
<1>3. /\ n.to \in {Source[id[1]], Source[id[2]]} /\ n.hub \in Hubs
      /\ TwoParty(id) /\ BothApplied(n.hub, id)
  BY <1>2, PacketFields DEF RevertInv, RevertParts, OnlyTwoParties, AppliedFirst, SwapInv,
                            CoinOrdersAddressed, TypeOK, PacketsTypeOK
<1>4. PICK o \in {m.tx[1], m.tx[2]} : AppOf(o) = a /\ o \in Orders
  BY <1>1, TwoPartyIds DEF AppOf, TxIds
<1>5. PICK p \in {id[1], id[2]} : AppOf(p) = a /\ p \in Orders
  BY <1>2, <1>3, TwoPartyIds DEF AppOf, TxIds
<1>6. o = p
  BY <1>4, <1>5 DEF OneOrderEach
<1>7. PICK x \in net : x.type = "HoldApply" /\ x.to = m.hub /\ x.from = Source[o] /\ x.tx = m.tx
  BY <1>1, <1>4 DEF BothApplied, Applied
<1>8. PICK y \in net : y.type = "HoldApply" /\ y.to = n.hub /\ y.from = Source[p] /\ y.tx = id
  BY <1>3, <1>5 DEF BothApplied, Applied
<1>9. m.tx = id
  BY <1>1, <1>3, <1>4, <1>5, <1>6, <1>7, <1>8 DEF RevertInv, SwapInv, OneSwapPerOrder, AcceptedFor
<1>10. RevOf(swaps[a][id].revTx, id, a, AppOf(id[1]), AppOf(id[2]))
  BY DEF RevertInv, RevertParts, RevertsOwnSide
<1> QED
  BY <1>5, <1>9, <1>10 DEF RevOf, SideRev

(***************************************************************************)
(* A payment is taken back only when a hub rolled back the swap it was     *)
(* made for (processTransactionRollback, revertXBridgeTransaction), when   *)
(* every client has one order: whatever is lost, repeated, expired,        *)
(* restarted or cancelled.  A client with more orders may look up another  *)
(* swap's revert transaction, because an Init makes a descriptor without   *)
(* the order's own id.                                                     *)
(***************************************************************************)
THEOREM RevertsAreOrdered ==
    ASSUME OneOrderEach
    PROVE  Spec => []RevertedOnlyIfRolledBack
<1>0. NoSelfTrade
  BY OrderAssumption DEF OneOrderEach, NoSelfTrade, Hash1, Hash2
<1> DEFINE Inv == RevertInv /\ RevertedOnlyIfRolledBack
<1>1. Init => Inv
  BY InitReverts DEF ClosedInv, OnceInv, RevertedOnlyIfRolledBack, Init, ClientInit
<1>2. ASSUME Inv, [Next]_vars PROVE Inv'
  <2>1. RevertInv' /\ net \subseteq net'
    BY <1>0, <1>2, NextReverts, NetGrows
  <2>2. \A h, id : RolledBack(h, id) => RolledBack(h, id)'
    BY <2>1 DEF RolledBack
  <2>3. CASE reverted' = reverted
    BY <1>2, <2>1, <2>2, <2>3 DEF RevertedOnlyIfRolledBack
  <2>4. ASSUME NEW m \in ToClient, ProcessTransactionRollback(Receiver(m), m)
        PROVE  RevertedOnlyIfRolledBack'
    <3> DEFINE a == Receiver(m)
    <3>1. m \in net /\ m.type = "Rollback"
      BY <2>4 DEF ProcessTransactionRollback, ToClient, Deliverable
    <3>2. m.to \in Addrs /\ m.tx \in TxIds /\ m.hub \in Hubs
      BY <1>2, <3>1, PacketFields DEF RevertInv, SwapInv, TypeOK, PacketsTypeOK
    <3>3. a = Owner[m.to] /\ a \in Apps
      BY <3>2, NodeAssumption DEF Receiver
    <3>4. RolledBack(m.hub, m.tx)
      BY <3>1 DEF RolledBack
    <3> HIDE DEF a
    <3>5. ASSUME NEW p \in reverted' PROVE \E h \in Hubs : RolledBack(h, p[2])
      <4>1. CASE p \in reverted
        BY <1>2, <4>1 DEF RevertedOnlyIfRolledBack
      <4>2. CASE p \notin reverted
        <5>1. PICK id \in TxIds : /\ swaps[a][id].revTx.signed
                                  /\ swaps[a][id].revTx.spends \in paid
                                  /\ p = swaps[a][id].revTx.spends
          BY <2>4, <4>2 DEF ProcessTransactionRollback, RevertXBridgeTransaction, a
        <5>2. p # NoPayment
          BY <1>2, <5>1, NoPaymentBuilt DEF RevertInv, SwapInv
        <5>3. m.tx = id /\ p[2] = id
          BY <1>2, <3>1, <3>3, <5>1, <5>2, SignedIsRolledBack
        <5> QED
          BY <3>2, <3>4, <5>3
      <4> QED
        BY <4>1, <4>2
    <3> QED
      BY <2>2, <3>5 DEF RevertedOnlyIfRolledBack
  <2> QED
    BY <1>2, <2>1, <2>3, <2>4, WhoReverts
<1>3. Inv => RevertedOnlyIfRolledBack
  OBVIOUS
<1> HIDE DEF Inv
<1>4. Inv /\ [Next]_vars => Inv'
  BY <1>2
<1> QED
  BY <1>1, <1>3, <1>4, PTL DEF Spec

-----------------------------------------------------------------------------
(***************************************************************************)
(* No paid swap is dropped: a swap is joined once, when its second offer   *)
(* is heard, and offers are neither repeated nor sent again.               *)
(***************************************************************************)
\* What becomes of a record and its orders to pay unless it is joined.
Carries(h, id) ==
    LET old == transactions[h][id].state
        new == transactions'[h][id].state
    IN  /\ ToldToPay(h, id)' => ToldToPay(h, id) \/ (old # "trInvalid" /\ new = "trSigned")
        /\ new # "trInvalid" => old # "trInvalid"
        /\ old \in {"trSigned", "trCommited"} =>
             new \in {"trSigned", "trCommited"} \/ Announced(h, id)' \/ RolledBack(h, id)'

LEMMA SameCarries ==
    ASSUME NEW ms, net' = net \cup ms, NEW h, NEW id,
           \A n \in ms : ~(n.type = "Commit" /\ n.hub = h /\ n.tx = id),
           transactions'[h][id].state = transactions[h][id].state
    PROVE  Carries(h, id)
BY DEF Carries, ToldToPay

LEMMA AckCarries ==
    ASSUME TypeOK, NEW m, NEW tr, NEW state \in Acknowledged, NEW sent,
           Acknowledges(m, tr, state, sent),
           \A n \in sent : n.type # "Transaction",
           \A n \in sent : n.type = "Commit" => n.hub = m.to /\ n.tx = m.tx,
           state # "trCreated" => \A n \in sent : n.type # "Commit",
           state = "trCommited" =>
               \E n \in sent : n.type = "Finished" /\ n.hub = m.to /\ n.tx = m.tx
    PROVE  /\ \A h \in Hubs, id \in TxIds : Carries(h, id)
           /\ \E ms : /\ net' = net \cup ms /\ seen' = (seen \cup {m}) \ ms
                      /\ \A n \in ms : n.type # "Transaction"
<1> DEFINE old == transactions[m.to][m.tx]
           new == transactions'[m.to][m.tx]
<1>1. AckRecord(m, tr, new) /\ \E ms : AckOutcome(m, state, sent, ms)
  BY AckStep
<1>2. PICK ms : AckOutcome(m, state, sent, ms)
  BY <1>1
<1>3. net' = net \cup ms /\ seen' = (seen \cup {m}) \ ms /\ ms \subseteq sent
  BY <1>2 DEF AckOutcome
<1>4. ASSUME NEW h \in Hubs, NEW id \in TxIds, h # m.to \/ id # m.tx
      PROVE  Carries(h, id)
  <2>1. transactions'[h][id].state = transactions[h][id].state
    BY <1>1, <1>4 DEF AckRecord
  <2>2. \A n \in ms : ~(n.type = "Commit" /\ n.hub = h /\ n.tx = id)
    BY <1>3, <1>4
  <2> QED
    BY <1>3, <2>1, <2>2, SameCarries
<1>5. Carries(m.to, m.tx)
  <2>1. CASE ms = {} /\ AckQuiet(m, state)
    <3>1. /\ net' = net \cup ms
          /\ \A n \in ms : ~(n.type = "Commit" /\ n.hub = m.to /\ n.tx = m.tx)
          /\ transactions'[m.to][m.tx].state = transactions[m.to][m.tx].state
      BY <1>3, <2>1 DEF AckQuiet
    <3> QED
      BY <3>1, SameCarries
  <2>2. CASE ms = sent /\ AckOver(m, state)
    <3>1. old.state = state /\ new.state = Successor[state]
      BY <2>2 DEF AckOver
    <3>2. state # "trInvalid" /\ (state = "trCreated" => new.state = "trSigned")
          /\ (state = "trSigned" => new.state = "trCommited")
      BY <3>1 DEF Acknowledged, Successor
    <3>3. state = "trCommited" => Announced(m.to, m.tx)'
      BY <1>3, <2>2 DEF Announced
    <3>4. state # "trCreated" => (ToldToPay(m.to, m.tx)' => ToldToPay(m.to, m.tx))
      BY <1>3 DEF ToldToPay
    <3> QED
      BY <3>1, <3>2, <3>3, <3>4 DEF Carries
  <2> QED
    BY <1>2, <2>1, <2>2 DEF AckOutcome
<1> QED
  BY <1>3, <1>4, <1>5

\* A step keeps every offer heard, and no offer is on its way before its order
\* was placed.
LEMMA OffersFrame ==
    ASSUME TypeOK, OffersOnce, placed' = placed,
           NEW ms, net' = net \cup ms, \A n \in seen : n \in seen' \/ n \in ms,
           \A n \in ms : n.type # "Transaction"
    PROVE  /\ OffersOnce'
           /\ \A h, o : Transaction(h, o) \in seen => Transaction(h, o) \in seen'
<1>1. \A h, o : Transaction(h, o).type = "Transaction"
  BY DEF Transaction
<1>2. \A h, o : Transaction(h, o) \notin ms
  BY <1>1
<1> QED
  BY <1>2 DEF OffersOnce

\* The parts of JoinedOnce and PaidSwapsEnd that speak of one swap.
ClosesAt(h, id) ==
    /\ transactions[h][id].state # "trInvalid" \/ ToldToPay(h, id) =>
         Transaction(h, id[2]) \in seen
    /\ ToldToPay(h, id) =>
         \/ transactions[h][id].state \in {"trSigned", "trCommited"}
         \/ Announced(h, id) \/ RolledBack(h, id)

LEMMA ClosesFrame ==
    ASSUME TypeOK, JoinedOnce, PaidSwapsEnd, net \subseteq net',
           \A h, o : Transaction(h, o) \in seen => Transaction(h, o) \in seen',
           NEW h \in Hubs, NEW id \in TxIds, Carries(h, id)
    PROVE  ClosesAt(h, id)'
<1>1. /\ Announced(h, id) => Announced(h, id)'
      /\ RolledBack(h, id) => RolledBack(h, id)'
  BY DEF Announced, RolledBack
<1> QED
  BY <1>1 DEF Carries, ClosesAt, JoinedOnce, PaidSwapsEnd

ClosesParts == OffersOnce /\ JoinedOnce /\ PaidSwapsEnd

LEMMA CarriesStep ==
    ASSUME TypeOK, ClosesParts, placed' = placed,
           NEW ms, net' = net \cup ms, \A n \in seen : n \in seen' \/ n \in ms,
           \A n \in ms : n.type # "Transaction",
           \A h \in Hubs, id \in TxIds : Carries(h, id)
    PROVE  ClosesParts'
<1>1. /\ OffersOnce'
      /\ \A h, o : Transaction(h, o) \in seen => Transaction(h, o) \in seen'
  BY OffersFrame DEF ClosesParts
<1>2. JoinedOnce' /\ PaidSwapsEnd'
  <2>1. JoinedOnce /\ PaidSwapsEnd /\ net \subseteq net'
    BY DEF ClosesParts
  <2>2. \A h \in Hubs, id \in TxIds : ClosesAt(h, id)'
    BY <1>1, <2>1, ClosesFrame
  <2> QED
    BY <2>2 DEF ClosesAt, JoinedOnce, PaidSwapsEnd
<1> QED
  BY <1>1, <1>2 DEF ClosesParts

LEMMA SomeProgram == \A id \in TxIds : Apps # {}
BY OrderAssumption, NodeAssumption DEF TxIds

LEMMA OfferPacket ==
    ASSUME NEW m \in Packet, m.type = "Transaction"
    PROVE  m.to \in Hubs /\ m.order \in Orders /\ m = Transaction(m.to, m.order)
BY DEF Packet, Transaction

LEMMA SilentCloses ==
    ASSUME TypeOK, ClosesParts, placed' = placed, net' = net, seen \subseteq seen',
           \A h \in Hubs, id \in TxIds :
               /\ transactions'[h][id].state # "trInvalid" =>
                      transactions[h][id].state # "trInvalid"
               /\ transactions[h][id].state \in {"trSigned", "trCommited"} =>
                      transactions'[h][id].state = transactions[h][id].state
    PROVE  ClosesParts'
<1> DEFINE ms == {}
<1>1. /\ net' = net \cup ms /\ (\A n \in seen : n \in seen' \/ n \in ms)
      /\ \A n \in ms : n.type # "Transaction"
  OBVIOUS
<1>2. \A h \in Hubs, id \in TxIds : Carries(h, id)
  BY DEF Carries, ToldToPay
<1> HIDE DEF ms
<1> QED
  BY <1>1, <1>2, CarriesStep

LEMMA HubReceivesCloses ==
    ASSUME TypeOK, ClosesParts, MaxDuplicates = 0, HubReceives
    PROVE  ClosesParts'
<1>0. placed' = placed
  BY DEF HubReceives, clientVars
<1>1. PICK m \in Deliverable : \/ ProcessTransaction(m)
                               \/ ProcessTransactionHoldApply(m)
                               \/ ProcessTransactionInitialized(m)
                               \/ ProcessTransactionCreated(m)
                               \/ ProcessTransactionSigned(m)
                               \/ ProcessTransactionCommited(m)
                               \/ ProcessTransactionConfirmed(m)
                               \/ ProcessTransactionCancelAtHub(m)
  BY DEF HubReceives, HubReceive
<1>2. m \in net /\ m \notin seen
  BY DEF Deliverable, TypeOK, PacketsTypeOK
<1>3. ASSUME NEW tr, NEW state \in Acknowledged, NEW sent,
             Acknowledges(m, tr, state, sent),
             \A n \in sent : n.type # "Transaction",
             \A n \in sent : n.type = "Commit" => n.hub = m.to /\ n.tx = m.tx,
             state # "trCreated" => \A n \in sent : n.type # "Commit",
             state = "trCommited" =>
                 \E n \in sent : n.type = "Finished" /\ n.hub = m.to /\ n.tx = m.tx
      PROVE  ClosesParts'
  <2>1. \A h \in Hubs, id \in TxIds : Carries(h, id)
    BY <1>3, AckCarries
  <2>2. PICK ms : /\ net' = net \cup ms /\ seen' = (seen \cup {m}) \ ms
                  /\ \A n \in ms : n.type # "Transaction"
    BY <1>3, AckCarries
  <2>3. \A n \in seen : n \in seen' \/ n \in ms
    BY <2>2
  <2> QED
    BY <1>0, <2>1, <2>2, <2>3, CarriesStep
<1>4. CASE ProcessTransactionHoldApply(m)
  <2> DEFINE sent == {InitTx(Dest[m.tx[1]], m.to, m.tx), InitTx(Dest[m.tx[2]], m.to, m.tx)}
  <2>1. Acknowledges(m, TransactionOf(m), "trJoined", sent)
    BY <1>2, <1>4, HandlersAcknowledge
  <2>2. \A n \in sent : n.type = "Init"
    BY DEF InitTx
  <2> HIDE DEF sent
  <2> QED
    BY <1>3, <2>1, <2>2 DEF Acknowledged
<1>5. CASE ProcessTransactionInitialized(m)
  <2> DEFINE sent == {Create(Source[m.tx[1]], m.to, m.tx), Create(Source[m.tx[2]], m.to, m.tx)}
  <2>1. Acknowledges(m, TransactionOf(m), "trHold", sent)
    BY <1>2, <1>5, HandlersAcknowledge
  <2>2. \A n \in sent : n.type = "Create"
    BY DEF Create
  <2> HIDE DEF sent
  <2> QED
    BY <1>3, <2>1, <2>2 DEF Acknowledged
<1>6. CASE ProcessTransactionCreated(m)
  <2>1. PICK tr : Acknowledges(m, tr, "trInitialized",
                     {Sign(Dest[m.tx[1]], m.to, m.tx, tr.rawrevtx2),
                      Sign(Dest[m.tx[2]], m.to, m.tx, tr.rawrevtx1)})
    BY <1>2, <1>6, HandlersAcknowledge
  <2> DEFINE sent == {Sign(Dest[m.tx[1]], m.to, m.tx, tr.rawrevtx2),
                      Sign(Dest[m.tx[2]], m.to, m.tx, tr.rawrevtx1)}
  <2>2. (\A n \in sent : n.type = "Sign") /\ Acknowledges(m, tr, "trInitialized", sent)
    BY <2>1 DEF Sign
  <2> HIDE DEF sent
  <2> QED
    BY <1>3, <2>2 DEF Acknowledged
<1>7. CASE ProcessTransactionSigned(m)
  <2>1. PICK tr : Acknowledges(m, tr, "trCreated",
                     {Commit(Source[m.tx[1]], m.to, m.tx, tr.rawrevtx1),
                      Commit(Source[m.tx[2]], m.to, m.tx, tr.rawrevtx2)})
    BY <1>2, <1>7, HandlersAcknowledge
  <2> DEFINE sent == {Commit(Source[m.tx[1]], m.to, m.tx, tr.rawrevtx1),
                      Commit(Source[m.tx[2]], m.to, m.tx, tr.rawrevtx2)}
  <2>2. /\ \A n \in sent : n.type = "Commit" /\ n.hub = m.to /\ n.tx = m.tx
        /\ Acknowledges(m, tr, "trCreated", sent)
    BY <2>1 DEF Commit
  <2> HIDE DEF sent
  <2> QED
    BY <1>3, <2>2 DEF Acknowledged
<1>8. CASE ProcessTransactionCommited(m)
  <2>1. PICK tr : Acknowledges(m, tr, "trSigned",
                     {ConfirmTx(Dest[m.tx[1]], m.to, m.tx, tr.txhash2),
                      ConfirmTx(Dest[m.tx[2]], m.to, m.tx, tr.txhash1)})
    BY <1>2, <1>8, HandlersAcknowledge
  <2> DEFINE sent == {ConfirmTx(Dest[m.tx[1]], m.to, m.tx, tr.txhash2),
                      ConfirmTx(Dest[m.tx[2]], m.to, m.tx, tr.txhash1)}
  <2>2. (\A n \in sent : n.type = "Confirm") /\ Acknowledges(m, tr, "trSigned", sent)
    BY <2>1 DEF ConfirmTx
  <2> HIDE DEF sent
  <2> QED
    BY <1>3, <2>2 DEF Acknowledged
<1>9. CASE ProcessTransactionConfirmed(m)
  <2> DEFINE sent == FinishedAll(m.to, m.tx)
  <2>1. Acknowledges(m, TransactionOf(m), "trCommited", sent)
    BY <1>2, <1>9, HandlersAcknowledge
  <2>2. \A n \in sent : n.type = "Finished" /\ n.hub = m.to /\ n.tx = m.tx
    BY DEF FinishedAll, Finished
  <2>3. sent # {}
    BY <2>1, SomeProgram DEF FinishedAll, Acknowledges
  <2> HIDE DEF sent
  <2> QED
    BY <1>3, <2>1, <2>2, <2>3 DEF Acknowledged
<1>10. CASE ProcessTransaction(m)
  <2>0. /\ m.type = "Transaction" /\ m.to \in Hubs /\ m.order \in Orders
        /\ m = Transaction(m.to, m.order) /\ transactions \in [Hubs -> [TxIds -> Record]]
    BY <1>2, <1>10, OfferPacket DEF ProcessTransaction, TypeOK, PacketsTypeOK, HubTypeOK
  <2>1. CASE transactions' = transactions /\ Deliver(m, {})
    <3>1. net' = net /\ seen \subseteq seen'
      BY <2>1 DEF Deliver
    <3> DEFINE ms == {}
    <3>2. net' = net \cup ms /\ (\A n \in seen : n \in seen' \/ n \in ms)
          /\ (\A n \in ms : n.type # "Transaction" /\ n.type # "Commit")
      BY <3>1
    <3> HIDE DEF ms
    <3>3. \A h \in Hubs, id \in TxIds : Carries(h, id)
      BY <2>1, <3>2, SameCarries
    <3> QED
      BY <1>0, <3>2, <3>3, CarriesStep
  <2>2. ASSUME NEW other \in Orders, Join(m.to, other, m.order),
               Deliver(m, {Hold(Source[other], m.to, other, <<other, m.order>>),
                           Hold(Source[m.order], m.to, m.order, <<other, m.order>>)})
        PROVE  ClosesParts'
    <3> DEFINE ms == {Hold(Source[other], m.to, other, <<other, m.order>>),
                      Hold(Source[m.order], m.to, m.order, <<other, m.order>>)}
               joined == <<other, m.order>>
    <3>1. \A n \in ms : n.type = "Hold"
      BY DEF Hold
    <3>2. net' = net \cup ms /\ seen' = (seen \cup {m}) \ ms
      BY <2>2 DEF Deliver
    <3>3. transactions' = [transactions EXCEPT ![m.to][joined] = Joined]
      BY <2>2 DEF Join
    <3> HIDE DEF ms
    <3>4. /\ \A n \in seen : n \in seen' \/ n \in ms
          /\ \A n \in ms : n.type # "Transaction"
          /\ m \in seen' /\ net \subseteq net'
      BY <2>0, <3>1, <3>2
    <3>5. /\ OffersOnce'
          /\ \A h, o : Transaction(h, o) \in seen => Transaction(h, o) \in seen'
      BY <1>0, <3>2, <3>4, OffersFrame DEF ClosesParts
    <3>6. ASSUME NEW h \in Hubs, NEW id \in TxIds
          PROVE  ClosesAt(h, id)'
      <4>1. CASE h = m.to /\ id = joined
        <5>1. Transaction(h, id[2]) = m
          BY <2>0, <4>1
        <5>2. ~ToldToPay(h, id)
          BY <1>2, <5>1 DEF ClosesParts, JoinedOnce
        <5>3. ~ToldToPay(h, id)'
          BY <3>1, <3>2, <5>2 DEF ToldToPay
        <5> QED
          BY <3>4, <5>1, <5>3 DEF ClosesAt
      <4>2. CASE h # m.to \/ id # joined
        <5>1. transactions'[h][id] = transactions[h][id]
          BY <2>0, <3>3, <4>2
        <5>a. /\ net' = net \cup ms
              /\ \A n \in ms : ~(n.type = "Commit" /\ n.hub = h /\ n.tx = id)
              /\ transactions'[h][id].state = transactions[h][id].state
          BY <3>1, <3>2, <5>1
        <5>2. Carries(h, id)
          BY <5>a DEF Carries, ToldToPay
        <5>3. /\ JoinedOnce /\ PaidSwapsEnd /\ net \subseteq net'
              /\ \A g, o : Transaction(g, o) \in seen => Transaction(g, o) \in seen'
          BY <3>4, <3>5 DEF ClosesParts
        <5> QED
          BY <5>2, <5>3, ClosesFrame
      <4> QED
        BY <4>1, <4>2
    <3> QED
      BY <3>5, <3>6 DEF ClosesAt, ClosesParts, JoinedOnce, PaidSwapsEnd
  <2> QED
    BY <1>10, <2>1, <2>2 DEF ProcessTransaction, EnterBook
<1>11. CASE ProcessTransactionCancelAtHub(m)
  <2>1. transactions' = transactions /\ net' = net /\ seen \subseteq seen'
    BY <1>11 DEF ProcessTransactionCancelAtHub, Deliver
  <2> QED
    BY <1>0, <2>1, SilentCloses
<1> QED
  BY <1>1, <1>4, <1>5, <1>6, <1>7, <1>8, <1>9, <1>10, <1>11

LEMMA HubTimersCloses ==
    ASSUME TypeOK, ClosesParts, HubTimers \/ TimePasses
    PROVE  ClosesParts'
<1>0. placed' = placed
  BY DEF HubTimers, TimePasses, clientVars
<1>1. transactions \in [Hubs -> [TxIds -> Record]]
  BY DEF TypeOK, HubTypeOK
<1>2. ASSUME NEW g \in Hubs, NEW i \in TxIds,
             transactions' = [transactions EXCEPT ![g][i].state = "trFinished"],
             transactions[g][i].state # "trInvalid",
             NEW ms, Send(ms), \A n \in ms : n.type \in {"Cancel", "Finished", "Rollback"},
             transactions[g][i].state \in {"trSigned", "trCommited"} =>
                 \E n \in ms : n.type \in {"Finished", "Rollback"} /\ n.hub = g /\ n.tx = i
      PROVE  ClosesParts'
  <2>1. net' = net \cup ms /\ \A n \in seen : n \in seen' \/ n \in ms
    BY <1>2 DEF Send
  <2>2. ASSUME NEW h \in Hubs, NEW id \in TxIds
        PROVE  Carries(h, id)
    <3>1. ToldToPay(h, id)' => ToldToPay(h, id)
      BY <1>2, <2>1 DEF ToldToPay
    <3>2. CASE h = g /\ id = i
      BY <1>2, <2>1, <3>1, <3>2 DEF Carries, Announced, RolledBack
    <3>3. CASE h # g \/ id # i
      <4>1. transactions'[h][id] = transactions[h][id]
        BY <1>1, <1>2, <3>3
      <4> QED
        BY <3>1, <4>1 DEF Carries
    <3> QED
      BY <3>2, <3>3
  <2> QED
    BY <1>0, <1>2, <2>1, <2>2, CarriesStep
<1>3. ASSUME NEW g \in Hubs, NEW i \in TxIds, CheckFinishedTransaction(g, i)
      PROVE  ClosesParts'
  <2>1. CASE FinishTransaction(g, i)
    <3> DEFINE ms == FinishedAll(g, i)
    <3>1. Send(ms) /\ \A n \in ms : n.type = "Finished"
      BY <2>1 DEF FinishTransaction, FinishedAll, Finished
    <3> HIDE DEF ms
    <3> QED
      BY <1>2, <2>1, <3>1 DEF FinishTransaction
  <2>2. CASE RollbackTransaction(g, i)
    <3> DEFINE told == {Rollback(Source[i[1]], g, i), Rollback(Source[i[2]], g, i)}
               ms == CancelAll(i) \cup
                     IF MayHavePaid(transactions[g][i].state) THEN told ELSE {}
    <3>1. /\ \A n \in told : n.type = "Rollback" /\ n.hub = g /\ n.tx = i
          /\ told # {}
          /\ \A n \in CancelAll(i) : n.type = "Cancel"
      BY DEF Rollback, CancelAll, Cancel
    <3>2. Send(ms)
      BY <2>2 DEF RollbackTransaction
    <3> HIDE DEF told
    <3>3. /\ \A n \in ms : n.type \in {"Cancel", "Rollback"}
          /\ transactions[g][i].state \in {"trSigned", "trCommited"} => told \subseteq ms
      BY <3>1 DEF MayHavePaid
    <3> HIDE DEF ms
    <3>4. transactions[g][i].state # "trInvalid"
      BY <2>2 DEF RollbackTransaction, Acknowledged
    <3> QED
      BY <1>2, <2>2, <3>1, <3>2, <3>3, <3>4, ZenonT(60) DEF RollbackTransaction
  <2>3. CASE DeleteTransaction(g, i)
    BY <1>0, <1>1, <2>3, SilentCloses DEF DeleteTransaction, Invalid, netVars
  <2> QED
    BY <1>3, <2>1, <2>2, <2>3 DEF CheckFinishedTransaction
<1>4. CASE transactions' = transactions /\ UNCHANGED netVars
  BY <1>0, <1>4, SilentCloses DEF netVars
<1>5. ASSUME NEW g \in Hubs, NEW i \in TxIds, Expire(g, i)
      PROVE  ClosesParts'
  <2>1. transactions' = [transactions EXCEPT ![g][i].listed = TRUE] /\ UNCHANGED netVars
    BY <1>5 DEF Expire
  <2>2. \A h \in Hubs, id \in TxIds : transactions'[h][id].state = transactions[h][id].state
    BY <1>1, <2>1 DEF Record
  <2> QED
    BY <1>0, <2>1, <2>2, SilentCloses DEF netVars
<1> QED
  BY <1>3, <1>4, <1>5 DEF HubTimers, HubTimer, EraseExpiredPendingTransaction, TimePasses, ExpireOffer

\* Clients and their users leave the records alone and send no order to pay.
LEMMA ClientsClose ==
    ASSUME TypeOK, ClosesParts, UNCHANGED hubVars,
           NEW ms, net' = net \cup ms, \A n \in seen : n \in seen' \/ n \in ms,
           \A n \in ms : n.type # "Commit",
           \/ placed' = placed /\ \A n \in ms : n.type # "Transaction"
           \/ \E o : o \notin placed /\ placed' = placed \cup {o} /\ ms = Offer(o)
    PROVE  ClosesParts'
<1>1. \A h \in Hubs, id \in TxIds : Carries(h, id)
  BY DEF Carries, ToldToPay, hubVars
<1>2. CASE placed' = placed /\ \A n \in ms : n.type # "Transaction"
  BY <1>1, <1>2, CarriesStep
<1>3. ASSUME NEW o, o \notin placed, placed' = placed \cup {o}, ms = Offer(o)
      PROVE  ClosesParts'
  <2>1. \A n \in ms : n.order = o
    BY <1>3 DEF Offer, Transaction
  <2>2. \A h, p : Transaction(h, p).order = p
    BY DEF Transaction
  <2>3. OffersOnce'
    BY <1>3, <2>1, <2>2 DEF ClosesParts, OffersOnce
  <2>4. \A h \in Hubs, p \in Orders : Transaction(h, p) \in seen => Transaction(h, p) \in seen'
    BY <1>3, <2>1, <2>2 DEF ClosesParts, OffersOnce, TypeOK, PacketsTypeOK
  <2>5. ASSUME NEW h \in Hubs, NEW id \in TxIds
        PROVE  ClosesAt(h, id)'
    <3>1. /\ transactions' = transactions
          /\ ToldToPay(h, id)' => ToldToPay(h, id)
          /\ Announced(h, id) => Announced(h, id)'
          /\ RolledBack(h, id) => RolledBack(h, id)'
      BY DEF hubVars, ToldToPay, Announced, RolledBack
    <3> QED
      BY <2>4, <3>1, TwoPartyIds DEF ClosesParts, JoinedOnce, PaidSwapsEnd, ClosesAt
  <2> QED
    BY <2>3, <2>5 DEF ClosesParts, ClosesAt, JoinedOnce, PaidSwapsEnd
<1> QED
  BY <1>2, <1>3

\* What a client answers is neither an offer nor an order to pay.
LEMMA ClientAnswers ==
    ASSUME NEW m, NEW a, \/ ProcessNothing(a, m)
                         \/ ProcessTransactionHold(a, m)
                         \/ ProcessTransactionInit(a, m)
                         \/ ProcessTransactionCreate(a, m)
                         \/ ProcessTransactionSign(a, m)
                         \/ ProcessTransactionCommit(a, m)
                         \/ ProcessTransactionConfirm(a, m)
                         \/ ProcessTransactionCancel(a, m)
                         \/ ProcessTransactionFinished(a, m)
                         \/ ProcessTransactionRollback(a, m)
    PROVE  /\ placed' = placed
           /\ \E ms : Deliver(m, ms) /\ \A n \in ms : n.type \notin {"Transaction", "Commit"}
<1> DEFINE Answer(ms) == \A n \in ms : n.type \notin {"Transaction", "Commit"}
<1>1. placed' = placed
  BY DEF ProcessNothing, ProcessTransactionHold, ProcessTransactionInit,
         ProcessTransactionCreate, ProcessTransactionSign, ProcessTransactionCommit,
         ProcessTransactionConfirm, ProcessTransactionCancel, ProcessTransactionFinished,
         ProcessTransactionRollback, clientVars
<1>2. /\ Answer({})
      /\ \A id : Answer(CancelAll(id))
      /\ Answer({HoldApply(m.hub, m.to, m.tx)})
      /\ Answer({Initialized(m.hub, m.to, m.tx)})
      /\ \A rev : Answer({Created(m.hub, m.to, m.tx, rev)})
      /\ \A rev : Answer({Signed(m.hub, m.to, m.tx, rev)})
      /\ \A hash : Answer({Commited(m.hub, m.to, m.tx, hash)})
  BY DEF CancelAll, Cancel, HoldApply, Initialized, Created, Signed, Commited
<1> HIDE DEF Answer
<1> DEFINE Answered == \E ms : Deliver(m, ms) /\ Answer(ms)
<1>3. \A ms : Deliver(m, ms) /\ Answer(ms) => Answered
  OBVIOUS
<1> SUFFICES Answered
  BY <1>1 DEF Answer
<1> HIDE DEF Answered
<1>4. CASE \/ ProcessNothing(a, m) \/ ProcessTransactionConfirm(a, m)
           \/ ProcessTransactionCancel(a, m) \/ ProcessTransactionFinished(a, m)
           \/ ProcessTransactionRollback(a, m)
  <2>1. Deliver(m, {})
    BY <1>4 DEF ProcessNothing, ProcessTransactionConfirm, ProcessTransactionCancel,
                ProcessTransactionFinished, ProcessTransactionRollback
  <2> QED
    BY <1>2, <1>3, <2>1
<1>5. CASE ProcessTransactionHold(a, m)
  BY Zenon, <1>2, <1>3, <1>5 DEF ProcessTransactionHold
<1>6. CASE ProcessTransactionInit(a, m)
  BY Zenon, <1>2, <1>3, <1>6 DEF ProcessTransactionInit
<1>7. CASE ProcessTransactionCreate(a, m)
  BY Zenon, <1>2, <1>3, <1>7 DEF ProcessTransactionCreate
<1>8. CASE ProcessTransactionSign(a, m)
  BY Zenon, <1>2, <1>3, <1>8 DEF ProcessTransactionSign
<1>9. CASE ProcessTransactionCommit(a, m)
  BY Zenon, <1>2, <1>3, <1>9 DEF ProcessTransactionCommit
<1> QED
  BY <1>4, <1>5, <1>6, <1>7, <1>8, <1>9

LEMMA ClientsCloseInv ==
    ASSUME TypeOK, ClosesParts, ~Resends,
           \/ ClientReceives \/ ClientTimers
           \/ ClientUser /\ UNCHANGED hubVars
    PROVE  ClosesParts'
<1>1. UNCHANGED hubVars
  BY DEF ClientReceives, ClientTimers
<1>2. CASE ClientReceives
  <2>1. PICK m \in ToClient :
          \/ ProcessNothing(Receiver(m), m)
          \/ ProcessTransactionHold(Receiver(m), m)
          \/ ProcessTransactionInit(Receiver(m), m)
          \/ ProcessTransactionCreate(Receiver(m), m)
          \/ ProcessTransactionSign(Receiver(m), m)
          \/ ProcessTransactionCommit(Receiver(m), m)
          \/ ProcessTransactionConfirm(Receiver(m), m)
          \/ ProcessTransactionCancel(Receiver(m), m)
          \/ ProcessTransactionFinished(Receiver(m), m)
          \/ ProcessTransactionRollback(Receiver(m), m)
    BY <1>2 DEF ClientReceives, ClientReceive
  <2>2. placed' = placed
    BY <2>1, ClientAnswers
  <2>3. PICK ms : Deliver(m, ms) /\ \A n \in ms : n.type \notin {"Transaction", "Commit"}
    BY <2>1, ClientAnswers
  <2>4. /\ net' = net \cup ms
        /\ \A n \in seen : n \in seen' \/ n \in ms
        /\ \A n \in ms : n.type # "Commit"
        /\ \A n \in ms : n.type # "Transaction"
    BY <2>3 DEF Deliver
  <2> QED
    BY <1>1, <2>2, <2>4, ClientsClose
<1>3. ASSUME NEW ms, Send(ms), \A n \in ms : n.type \in {"Confirmed", "Cancel"}, placed' = placed
      PROVE  ClosesParts'
  <2>1. /\ net' = net \cup ms
        /\ \A n \in seen : n \in seen' \/ n \in ms
        /\ \A n \in ms : n.type # "Commit"
        /\ \A n \in ms : n.type # "Transaction"
    BY <1>3 DEF Send
  <2> QED
    BY <1>1, <1>3, <2>1, ClientsClose
<1>4. CASE ClientTimers
  <2>1. PICK b, i : RequestUnconfirmedTx(b, i)
    BY <1>4 DEF ClientTimers, ClientTimer, SendListOfTransactions
  <2> DEFINE ms == {Confirmed(h, me, i) : h \in unconfirmed[b][i].hubs, me \in unconfirmed[b][i].me}
  <2>2. Send(ms) /\ placed' = placed
    BY <2>1 DEF RequestUnconfirmedTx
  <2>3. \A n \in ms : n.type = "Confirmed"
    BY DEF Confirmed
  <2> HIDE DEF ms
  <2> QED
    BY <1>3, <2>2, <2>3
<1>5. CASE ClientUser
  <2>1. \A i : \A n \in CancelAll(i) : n.type = "Cancel"
    BY DEF CancelAll, Cancel
  <2>2. \A o : CancelPending(o) => ClosesParts'
    BY <1>3, <2>1 DEF CancelPending
  <2>3. \A b, i : CancelSwap(b, i) => ClosesParts'
    BY <1>3, <2>1 DEF CancelSwap
  <2>4. ASSUME NEW o, SendXBridgeTransaction(o) PROVE ClosesParts'
    <3> DEFINE ms == Offer(o)
    <3>1. \A n \in ms : n.type # "Commit"
      BY DEF Offer, Transaction
    <3>2. /\ net' = net \cup ms
          /\ \A n \in seen : n \in seen' \/ n \in ms
          /\ o \notin placed /\ placed' = placed \cup {o}
      BY <2>4 DEF SendXBridgeTransaction, Send
    <3> HIDE DEF ms
    <3>3. \E p : p \notin placed /\ placed' = placed \cup {p} /\ ms = Offer(p)
      BY <3>2 DEF ms
    <3> QED
      BY <1>1, <3>1, <3>2, <3>3, ClientsClose
  <2> QED
    BY <1>5, <2>2, <2>3, <2>4 DEF ClientUser
<1> QED
  BY <1>2, <1>4, <1>5

LEMMA NextCloses ==
    ASSUME MaxDuplicates = 0, ~Resends, ~HubRestarts, ~HubWalletReports,
           ClosesInv, [Next]_vars
    PROVE  ClosesInv'
<1>0. TypeOK' /\ TypeOK /\ ClosesParts
  BY NextTypeOK DEF ClosesInv, ClosesParts
<1> SUFFICES ClosesParts'
  BY <1>0 DEF ClosesInv, ClosesParts
<1>1. CASE HubReceives \/ HubTimers \/ TimePasses
  BY <1>0, <1>1, HubReceivesCloses, HubTimersCloses
<1>2. CASE ClientReceives \/ ClientTimers \/ (ClientUser /\ UNCHANGED hubVars)
  BY <1>0, <1>2, ClientsCloseInv
<1>3. ASSUME UNCHANGED <<netVars, hubVars, placed>> PROVE ClosesParts'
  BY <1>0, <1>3, SilentCloses DEF netVars, hubVars
<1>4. ASSUME NEW a \in Apps, ClientRestart(a), UNCHANGED hubVars PROVE ClosesParts'
  BY <1>3, <1>4 DEF ClientRestart
<1>5. ASSUME NEW a \in Apps, NEW id \in TxIds, ProcessTransactionDropped(a, id), UNCHANGED hubVars
      PROVE  ClosesParts'
  BY <1>3, <1>5 DEF ProcessTransactionDropped
<1>6. CASE Environment
  <2>1. ~\E h \in Hubs : HubRestart(h)
    BY DEF HubRestart
  <2>2. ~\E h \in Hubs, hash \in paid : UpdateTransaction(h, hash)
    BY DEF UpdateTransaction
  <2>3. CASE ClientUser /\ UNCHANGED hubVars
    BY <1>2, <2>3
  <2> QED
    BY <1>4, <1>5, <1>6, <2>1, <2>2, <2>3 DEF Environment
<1>7. CASE UNCHANGED vars
  BY <1>3, <1>7 DEF vars, clientVars
<1> QED
  BY <1>1, <1>2, <1>6, <1>7 DEF Next

(***************************************************************************)
(* The hub joins a swap once and then keeps its record until it ends the   *)
(* swap (processTransaction, createTransaction, acceptTransaction): an     *)
(* offer leaves the book when it is joined and is heard once.              *)
(***************************************************************************)
THEOREM SwapsJoinOnce ==
    ASSUME MaxDuplicates = 0, ~Resends, ~HubRestarts, ~HubWalletReports
    PROVE  Spec => []ClosesInv
<1>1. Init => ClosesInv
  <2> SUFFICES ASSUME Init PROVE ClosesInv
    OBVIOUS
  <2>1. net = {} /\ \A h \in Hubs, id \in TxIds : transactions[h][id].state = "trInvalid"
    BY DEF Init, PacketsInit, HubInit, Invalid
  <2> QED
    BY <2>1, InitTypeOK DEF ClosesInv, OffersOnce, JoinedOnce, PaidSwapsEnd, ToldToPay
<1>2. ClosesInv /\ [Next]_vars => ClosesInv'
  BY NextCloses
<1> QED
  BY <1>1, <1>2, PTL DEF Spec

(***************************************************************************)
(* A hub that told its clients to pay does not drop the swap silently      *)
(* (rollbackTransaction, finishTransaction, processTransactionConfirmed):  *)
(* whatever is lost, reordered, cancelled or expired, for clients that     *)
(* restart and wallets that fail, as long as no offer is heard twice and   *)
(* no hub restarts.  A swap joined again over a paid one would be dropped. *)
(***************************************************************************)
THEOREM PaidSwapsAreClosed ==
    ASSUME MaxDuplicates = 0, ~Resends, ~HubRestarts, ~HubWalletReports
    PROVE  Spec => []HubClosesPaidSwaps
<1>1. Spec => []ClosesInv
  BY SwapsJoinOnce
<1>2. ClosesInv => HubClosesPaidSwaps
  BY DEF ClosesInv, PaidSwapsEnd, HubClosesPaidSwaps, Acknowledged
<1> QED
  BY <1>1, <1>2, PTL
===============================================================================

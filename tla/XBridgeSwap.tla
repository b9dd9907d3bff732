----------------------------- MODULE XBridgeSwap -----------------------------
(***************************************************************************)
(* Hubs and clients together: the whole exchange protocol over the lossy   *)
(* overlay, and what it is meant to guarantee.                             *)
(***************************************************************************)
EXTENDS XBridgeHub, XBridgeClient

vars == <<netVars, hubVars, clientVars>>

Init == PacketsInit /\ HubInit /\ ClientInit

HubReceives    == HubReceive /\ UNCHANGED clientVars
HubTimers      == HubTimer /\ UNCHANGED clientVars
ClientReceives == ClientReceive /\ UNCHANGED hubVars
ClientTimers   == ClientTimer /\ UNCHANGED hubVars

\* TTLs running out.
TimePasses ==
    /\ \E h \in Hubs :
          \/ \E id \in TxIds : Expire(h, id)
          \/ \E k \in Key : ExpireOffer(h, k)
    /\ UNCHANGED clientVars

\* What users, restarts and programs outside the repository may do at any time.
Environment ==
    \/ ClientUser /\ UNCHANGED hubVars
    \/ \E a \in Apps : ClientRestart(a) /\ UNCHANGED hubVars
    \/ \E a \in Apps, id \in TxIds :
          ProcessTransactionDropped(a, id) /\ UNCHANGED hubVars
    \/ \E h \in Hubs : HubRestart(h) /\ UNCHANGED clientVars
    \* a hub wallet reports a payment its coin network shows
    \/ \E h \in Hubs, hash \in paid : UpdateTransaction(h, hash) /\ UNCHANGED clientVars

Next ==
    \/ HubReceives \/ HubTimers
    \/ ClientReceives \/ ClientTimers
    \/ TimePasses \/ Environment

Spec == Init /\ [][Next]_vars

TypeOK == PacketsTypeOK /\ HubTypeOK /\ ClientTypeOK

-----------------------------------------------------------------------------
(***************************************************************************)
(* Fairness.  A DHT node keeps running its loop and its 20 s timer, so a   *)
(* handler or a job that stays possible is run; that a packet arrives at   *)
(* all is assumed only in FairNetwork.  Users and restarts are never fair. *)
(***************************************************************************)
FairTimers ==
    /\ \A h \in Hubs, id \in TxIds :
          /\ WF_vars(Expire(h, id) /\ UNCHANGED clientVars)
          /\ WF_vars(CheckFinishedTransaction(h, id) /\ UNCHANGED clientVars)
    /\ \A h \in Hubs, k \in Key :
          /\ WF_vars(ExpireOffer(h, k) /\ UNCHANGED clientVars)
          /\ WF_vars(EraseExpiredPendingTransaction(h, k) /\ UNCHANGED clientVars)
    /\ \A a \in Apps, id \in TxIds :
          WF_vars(RequestUnconfirmedTx(a, id) /\ UNCHANGED hubVars)

FairNetwork == WF_vars(HubReceives) /\ WF_vars(ClientReceives)

TimerSpec == Spec /\ FairTimers
FairSpec  == Spec /\ FairTimers /\ FairNetwork

-----------------------------------------------------------------------------
SignedToHub(h, addr, id) ==
    \E m \in net : m.type = "Signed" /\ m.to = h /\ m.from = addr /\ m.tx = id

Announced(h, id) == \E m \in net : m.type = "Finished" /\ m.hub = h /\ m.tx = id
RolledBack(h, id) == \E m \in net : m.type = "Rollback" /\ m.hub = h /\ m.tx = id
ToldToPay(h, id) == \E m \in net : m.type = "Commit" /\ m.hub = h /\ m.tx = id

PaidFrom(addr, id) == \E p \in paid : p[1] = addr /\ p[2] = id
RevertedFrom(addr, id) == \E p \in reverted : p[1] = addr /\ p[2] = id

TwoParty(id) == AppOf(id[1]) # AppOf(id[2])

\* m applies for a hold of order o.
AcceptedFor(m, o) ==
    m.from = Source[o] /\ o \in {m.tx[1], m.tx[2]} /\ TwoParty(m.tx)

\* Nobody's coins move before both clients have signed the other one's revert
\* transaction for the hub that asks for the payment: processTransactionCommit
\* trusts the hub to have waited, whatever was duplicated, delayed or restarted.
NoPaymentBeforeBothSigned ==
    \A p \in paid : \E h \in Hubs :
        SignedToHub(h, Dest[p[2][1]], p[2]) /\ SignedToHub(h, Dest[p[2][2]], p[2])

\* When a hub announces a swap between two programs finished, both payments of
\* that swap were accepted by their coin networks (processTransactionConfirmed).
FinishedMeansBothPaid ==
    \A m \in net : m.type = "Finished" /\ TwoParty(m.tx) =>
        PaidFrom(Source[m.tx[1]], m.tx) /\ PaidFrom(Source[m.tx[2]], m.tx)

\* An order is accepted into one swap of one hub, although hubs do not know of
\* each other and holds may come twice (processTransactionHold).
OneSwapPerOrder ==
    \A m, n \in net : \A o \in Orders :
        /\ m.type = "HoldApply" /\ n.type = "HoldApply"
        /\ AcceptedFor(m, o) /\ AcceptedFor(n, o)
        => m.to = n.to /\ m.tx = n.tx

\* The revert transaction a client gets back with the order to pay is signed.
CommitCarriesSignedRevert ==
    \A m \in net : m.type = "Commit" => m.rev.signed

\* As long as a client remembers the payment it made, it can take it back: it
\* holds a signed revert transaction that spends that very payment, however late
\* the order to pay came and whatever was cancelled before.
PayerCanRevert ==
    \A a \in Apps, id \in TxIds :
        swaps[a][id].payTx \in paid =>
            swaps[a][id].revTx = [spends |-> swaps[a][id].payTx, signed |-> TRUE]

\* A hub that told its clients to pay does not drop the swap silently: before it
\* forgets the record it has announced the swap finished or told both to revert.
HubClosesPaidSwaps ==
    \A h \in Hubs, id \in TxIds :
        ToldToPay(h, id) /\ transactions[h][id].state \notin Acknowledged =>
            Announced(h, id) \/ RolledBack(h, id)

\* No client hears from one hub both that a swap is done and that it must revert.
NeverFinishedAndRolledBack ==
    \A h \in Hubs, id \in TxIds : ~(Announced(h, id) /\ RolledBack(h, id))

\* A payment is taken back only when a hub rolled back the swap it was made for.
RevertedOnlyIfRolledBack ==
    \A p \in reverted : \E h \in Hubs : RolledBack(h, p[2])

\* Only new orders are joined: a swap under way never starts over.
JoinNeverRestartsASwap ==
    [][\A h \in Hubs, id \in TxIds :
          transactions[h][id].state \in Acknowledged \ {"trJoined"} =>
              transactions'[h][id].state # "trJoined"]_vars

\* One of the two clients accepted another hub's hold for its order.
TakenElsewhere(h, id) ==
    \E m \in net :
        /\ m.type = "HoldApply"
        /\ m.to # h
        /\ \E o \in {id[1], id[2]} : AcceptedFor(m, o)

\* Over a network that loses and repeats nothing, with wallets that work and
\* nobody giving up, joined orders are paid on both sides and both users told,
\* unless another hub joined them too and one client had accepted its hold: each
\* client takes the first hold it hears (processTransactionHold), so two hubs may
\* each be left with one client.
JoinedOrdersSettle ==
    \A h \in Hubs, id \in TxIds :
        transactions[h][id].state = "trJoined" ~>
            \/ \A o \in {id[1], id[2]} :
                  PaidFrom(Source[o], id) /\ swaps[AppOf(o)][id].state = "trFinished"
            \/ TakenElsewhere(h, id)

\* Whatever is lost, a hub does not keep a record or an offer for ever.
HubForgets ==
    /\ \A h \in Hubs, id \in TxIds : []<>(transactions[h][id].state = "trInvalid")
    /\ \A h \in Hubs, k \in Key : []<>(book[h][k].orders = {})

-----------------------------------------------------------------------------
(***************************************************************************)
(* Why NoPaymentBeforeBothSigned, OneSwapPerOrder and, without wallet      *)
(* reports, FinishedMeansBothPaid hold: what the packets and the records   *)
(* stand for at every moment.  The conjunctions are inductive.             *)
(***************************************************************************)
HoldsAddressed ==
    \A m \in net : m.type = "Hold" =>
        m.to = Source[m.order] /\ m.order \in {m.tx[1], m.tx[2]}

CoinOrdersAddressed ==
    \A m \in net : m.type \in {"Create", "Commit"} =>
        m.to \in {Source[m.tx[1]], Source[m.tx[2]]}

\* Whoever is counted in the signing phase has signed, for this hub.
PhaseMeansSigned ==
    \A h \in Hubs, id \in TxIds : transactions[h][id].state = "trCreated" =>
        /\ transactions[h][id].firstStateChanged => SignedToHub(h, Dest[id[1]], id)
        /\ transactions[h][id].secondStateChanged => SignedToHub(h, Dest[id[2]], id)

CommitMeansSigned ==
    \A m \in net : m.type = "Commit" =>
        SignedToHub(m.hub, Dest[m.tx[1]], m.tx) /\ SignedToHub(m.hub, Dest[m.tx[2]], m.tx)

\* A descriptor's payment was built for that swap, by that program, as one side.
OwnPayments ==
    \A a \in Apps, id \in TxIds : LET pay == swaps[a][id].payTx IN
        pay # NoPayment =>
            pay[2] = id /\ Owner[pay[1]] = a /\ pay[1] \in {Source[id[1]], Source[id[2]]}

\* An order applied for has left its client's list for good.
AppliedMeansNotPending ==
    \A m \in net : \A o \in Orders :
        m.type = "HoldApply" /\ AcceptedFor(m, o) => o \in placed \ pending

SwapInv ==
    /\ TypeOK
    /\ HoldsAddressed /\ CoinOrdersAddressed
    /\ PhaseMeansSigned /\ CommitMeansSigned
    /\ OwnPayments /\ NoPaymentBeforeBothSigned
    /\ AppliedMeansNotPending /\ OneSwapPerOrder

CommitedMeansPaid ==
    \A m \in net : m.type = "Commited" /\ TwoParty(m.tx) => PaidFrom(m.from, m.tx)

PhaseMeansPaid ==
    \A h \in Hubs, id \in TxIds : LET tr == transactions[h][id] IN
        TwoParty(id) =>
            /\ tr.state = "trSigned" =>
                 /\ tr.firstStateChanged => PaidFrom(Source[id[1]], id)
                 /\ tr.secondStateChanged => PaidFrom(Source[id[2]], id)
            /\ tr.state = "trCommited" =>
                 PaidFrom(Source[id[1]], id) /\ PaidFrom(Source[id[2]], id)
            /\ tr.state # "trConfirmed"

PaymentInv == SwapInv /\ CommitedMeansPaid /\ PhaseMeansPaid /\ FinishedMeansBothPaid

-----------------------------------------------------------------------------
(***************************************************************************)
(* Why RevertedOnlyIfRolledBack, PayerCanRevert, CommitCarriesSignedRevert *)
(* and NeverFinishedAndRolledBack hold, as far as they do.  RevertInv is   *)
(* inductive when nobody's orders mirror each other, OnceInv when besides  *)
(* no packet is processed more often than it was sent, ClosedInv when      *)
(* besides no hub wallet reports payments.                                 *)
(***************************************************************************)
NoSelfTrade  == \A o, p \in Orders : AppOf(o) = AppOf(p) => Hash1(o) # Hash2(p)
OneOrderEach == \A o, p \in Orders : AppOf(o) = AppOf(p) => o = p

Running == {"trHold", "trInitialized", "trCreated", "trSigned", "trCommited"}

Told(h, id, type) == \E m \in net : m.type = type /\ m.hub = h /\ m.tx = id
Heard(h, addr, id, type) ==
    \E m \in seen : m.type = type /\ m.to = h /\ m.from = addr /\ m.tx = id
Applied(h, o, id) ==
    \E m \in net : m.type = "HoldApply" /\ m.to = h /\ m.from = Source[o] /\ m.tx = id
BothApplied(h, id) == Applied(h, id[1], id) /\ Applied(h, id[2], id)

\* An offer is in the book under what it gives and takes.
BookFiled == \A h \in Hubs, k \in Key : \A o \in book[h][k].orders : k = Hash1(o)

\* Hubs join orders of different programs only, and speak of no other swaps.
OnlyTwoParties ==
    /\ \A h \in Hubs, id \in TxIds : ~TwoParty(id) => transactions[h][id] = Invalid
    /\ \A m \in net :
          m.type \in {"Hold", "Init", "Create", "Sign", "Commit", "Rollback", "Finished"} =>
              TwoParty(m.tx)

\* A swap runs, and is paid or rolled back, only after both clients applied.
AppliedFirst ==
    /\ \A h \in Hubs, id \in TxIds : LET tr == transactions[h][id] IN
          /\ tr.state = "trJoined" =>
               /\ tr.firstStateChanged => Applied(h, id[1], id)
               /\ tr.secondStateChanged => Applied(h, id[2], id)
          /\ tr.state \in Running => BothApplied(h, id)
    /\ \A m \in net : m.type \in {"Commit", "Rollback"} => BothApplied(m.hub, m.tx)

RollbacksAddressed ==
    \A m \in net : m.type = "Rollback" => m.to \in {Source[m.tx[1]], Source[m.tx[2]]}

\* rev takes back nothing but a payment of order o for swap id.
SideRev(rev, o, id) ==
    \/ rev.spends = NoPayment
    \/ rev.spends \in built /\ rev.spends[1] = Source[o] /\ rev.spends[2] = id

\* rev is the one of the side whose address, one or two, is addr.
RevOf(rev, id, addr, one, two) ==
    /\ addr = one => SideRev(rev, id[1], id)
    /\ addr = two => SideRev(rev, id[2], id)

\* Wherever a revert transaction is on its way or kept, it is the one of the
\* side it is taken for.
RevertsOwnSide ==
    /\ \A h \in Hubs, id \in TxIds :
          /\ SideRev(transactions[h][id].rawrevtx1, id[1], id)
          /\ SideRev(transactions[h][id].rawrevtx2, id[2], id)
    /\ \A m \in net :
          /\ m.type = "Created" => RevOf(m.rev, m.tx, m.from, Source[m.tx[1]], Source[m.tx[2]])
          /\ m.type = "Sign"    => RevOf(m.rev, m.tx, m.to, Dest[m.tx[2]], Dest[m.tx[1]])
          /\ m.type = "Signed"  => RevOf(m.rev, m.tx, m.from, Dest[m.tx[2]], Dest[m.tx[1]])
          /\ m.type = "Commit"  => RevOf(m.rev, m.tx, m.to, Source[m.tx[1]], Source[m.tx[2]])
    /\ \A a \in Apps, id \in TxIds :
          RevOf(swaps[a][id].revTx, id, a, AppOf(id[1]), AppOf(id[2]))

\* A client has a signed revert transaction only from an order to pay.
SignedMeansTold ==
    \A a \in Apps, id \in TxIds : swaps[a][id].revTx.signed =>
        \E m \in net : m.type = "Commit" /\ m.tx = id /\ Owner[m.to] = a

RevertParts ==
    /\ BookFiled /\ OnlyTwoParties
    /\ AppliedFirst /\ RollbacksAddressed
    /\ RevertsOwnSide /\ SignedMeansTold

RevertInv == SwapInv /\ RevertParts

\* A hub takes a swap through its phases once: a swap joined again stays where
\* it is, because each client applies once and neither applies again.
RunsOnce ==
    \A h \in Hubs, id \in TxIds : LET tr == transactions[h][id] IN
        /\ tr.state = "trJoined" =>
             /\ tr.firstStateChanged => Heard(h, Source[id[1]], id, "HoldApply")
             /\ tr.secondStateChanged => Heard(h, Source[id[2]], id, "HoldApply")
             /\ ~(tr.firstStateChanged /\ tr.secondStateChanged)
        /\ tr.state \in Running => Told(h, id, "Init")
        /\ Told(h, id, "Init") =>
             /\ Heard(h, Source[id[1]], id, "HoldApply")
             /\ Heard(h, Source[id[2]], id, "HoldApply")
        /\ Told(h, id, "Create") => Told(h, id, "Init") /\ tr.state # "trHold"
        /\ Told(h, id, "Sign") =>
             Told(h, id, "Init") /\ tr.state \notin {"trHold", "trInitialized"}
        /\ Told(h, id, "Commit") =>
             Told(h, id, "Init") /\ tr.state \notin {"trHold", "trInitialized", "trCreated"}

\* A side builds at most one payment for a swap, when a hub asked it to.
OnePaymentEach ==
    /\ \A p, q \in built : p[1] = q[1] /\ p[2] = q[2] => p = q
    /\ \A p \in built : \E h \in Hubs : Create(p[1], h, p[2]) \in seen
    /\ paid \subseteq built
    /\ \A a \in Apps, id \in TxIds : swaps[a][id].payTx \in built \cup {NoPayment}

\* Where the revert transactions are there, and where they are signed.
RevertsReady ==
    /\ \A h \in Hubs, id \in TxIds : LET tr == transactions[h][id] IN
          /\ tr.state = "trInitialized" =>
               /\ tr.firstStateChanged =>
                    tr.rawrevtx1.spends # NoPayment /\ Heard(h, Source[id[1]], id, "Created")
               /\ tr.secondStateChanged =>
                    tr.rawrevtx2.spends # NoPayment /\ Heard(h, Source[id[2]], id, "Created")
          /\ tr.state = "trCreated" =>
               /\ tr.rawrevtx1.spends # NoPayment /\ Heard(h, Source[id[1]], id, "Created")
               /\ tr.rawrevtx2.spends # NoPayment /\ Heard(h, Source[id[2]], id, "Created")
               /\ tr.firstStateChanged => tr.rawrevtx2.signed
               /\ tr.secondStateChanged => tr.rawrevtx1.signed
    /\ \A m \in net :
          /\ m.type = "Created" =>
               /\ m.rev.spends \in built /\ ~m.rev.signed
               /\ m.rev.spends[1] = m.from /\ m.rev.spends[2] = m.tx
          /\ m.type \in {"Sign", "Signed", "Commit"} => m.rev.spends # NoPayment
          /\ m.type \in {"Signed", "Commit"} => m.rev.signed

OnceParts == RunsOnce /\ OnePaymentEach /\ RevertsReady /\ PayerCanRevert

OnceInv == RevertInv /\ OnceParts

\* A swap that is announced finished or rolled back runs no more.
EndsOnce ==
    \A h \in Hubs, id \in TxIds :
        Announced(h, id) \/ RolledBack(h, id) =>
            /\ Told(h, id, "Init")
            /\ transactions[h][id].state \notin Running

\* Every phase of the hub and every message says how far both clients have got:
\* a revert transaction is there before it is needed, signed before the order to
\* pay, and a swap that ended is never run again (increaseStateCounter()).
ClosedInv == OnceInv /\ PaymentInv /\ EndsOnce /\ NeverFinishedAndRolledBack

-----------------------------------------------------------------------------
(***************************************************************************)
(* Why HubClosesPaidSwaps holds as long as no offer is sent twice: a swap  *)
(* is joined once, so what its record became after the orders to pay went  *)
(* out is never overwritten.  ClosesInv is inductive when no packet is     *)
(* processed more often than it was sent, offers are not sent again, hubs  *)
(* do not restart and no hub wallet reports payments.                      *)
(***************************************************************************)
OffersOnce == \A h \in Hubs, o \in Orders : Transaction(h, o) \in net => o \in placed

JoinedOnce ==
    \A h \in Hubs, id \in TxIds :
        transactions[h][id].state # "trInvalid" \/ ToldToPay(h, id) =>
            Transaction(h, id[2]) \in seen

PaidSwapsEnd ==
    \A h \in Hubs, id \in TxIds : ToldToPay(h, id) =>
        \/ transactions[h][id].state \in {"trSigned", "trCommited"}
        \/ Announced(h, id) \/ RolledBack(h, id)

\* A hub's record of a swap it told the clients to pay stays in trSigned or
\* trCommited until it ends the swap: joining never replaces it
\* (processTransaction(), createTransaction()).
ClosesInv == TypeOK /\ OffersOnce /\ JoinedOnce /\ PaidSwapsEnd

-----------------------------------------------------------------------------
\* The refinement: a swap of two programs as its users see it.
ContractSwaps == {id \in TxIds : TwoParty(id)}

SignedSides   == [id \in ContractSwaps |->
                    {s \in {1, 2} : \E h \in Hubs : SignedToHub(h, Dest[id[s]], id)}]
PaidSides     == [id \in ContractSwaps |->
                    {s \in {1, 2} : PaidFrom(Source[id[s]], id)}]
RevertedSides == [id \in ContractSwaps |->
                    {s \in {1, 2} : RevertedFrom(Source[id[s]], id)}]
FinishedSwaps == [id \in ContractSwaps |-> \E h \in Hubs : Announced(h, id)]

Contract == INSTANCE SwapContract WITH
    Swaps    <- ContractSwaps,
    signed   <- SignedSides,
    paid     <- PaidSides,
    reverted <- RevertedSides,
    finished <- FinishedSwaps

\* Every step of hubs, clients and network is a step of the contract or changes
\* nothing the users see.
ImplementsContract == Contract!Spec
=============================================================================

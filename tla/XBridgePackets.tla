--------------------------- MODULE XBridgePackets ---------------------------
(***************************************************************************)
(* The packets of the exchange protocol (xbridgepacket.h) and the overlay  *)
(* that carries them.  Direct packets go to one address, and the program   *)
(* whose wallet announced that address processes them; broadcasts reach    *)
(* every program.                                                          *)
(*                                                                         *)
(* Transport is UDP between DHT nodes.  A packet may be lost, may overtake *)
(* another, and may be processed again: every node that sees a direct      *)
(* packet relays it, a received packet is not recorded as known until it   *)
(* is sent on, and a broadcast is run through the packet handler once on   *)
(* reception and once more for each local wallet session.                  *)
(*                                                                         *)
(* net holds every packet ever sent, seen those processed since they were  *)
(* last sent.  Nothing makes a packet arrive: it may be lost, or late.  A  *)
(* packet already seen may be processed again, MaxDuplicates times in all. *)
(***************************************************************************)
EXTENDS XBridgeTransaction

CONSTANTS
    Hubs,         \* programs with an exchange enabled
    Apps,         \* client programs
    Owner,        \* address -> the client program whose wallet announced it
    MaxDuplicates \* bound: packets processed more often than they were sent

ASSUME NodeAssumption ==
    /\ Owner \in [Addrs -> Apps]
    /\ \A o \in Orders : Owner[Source[o]] = Owner[Dest[o]]
    /\ Apps \cap Addrs = {}
    /\ MaxDuplicates \in Nat

Nodes == Hubs \cup Apps
AppOf(o) == Owner[Source[o]]

VARIABLES net, seen, duplicates
netVars == <<net, seen, duplicates>>

-----------------------------------------------------------------------------
\* Offers, and the packets a hub sends.  Rollback and Finished do not carry the
\* hub's address; it is kept here to say which hub sent them.
Transaction(h, o)    == [type |-> "Transaction", to |-> h, order |-> o]
Hold(to, h, o, id)   == [type |-> "Hold", to |-> to, hub |-> h, order |-> o, tx |-> id]
InitTx(to, h, id)    == [type |-> "Init", to |-> to, hub |-> h, tx |-> id]
Create(to, h, id)    == [type |-> "Create", to |-> to, hub |-> h, tx |-> id]
Sign(to, h, id, rev) == [type |-> "Sign", to |-> to, hub |-> h, tx |-> id, rev |-> rev]
Commit(to, h, id, rev) ==
    [type |-> "Commit", to |-> to, hub |-> h, tx |-> id, rev |-> rev]
ConfirmTx(to, h, id, hash) ==
    [type |-> "Confirm", to |-> to, hub |-> h, tx |-> id, hash |-> hash]
Rollback(to, h, id)  == [type |-> "Rollback", to |-> to, hub |-> h, tx |-> id]
Finished(a, h, id)   == [type |-> "Finished", to |-> a, hub |-> h, tx |-> id]

\* A client's replies to a hub.
HoldApply(h, from, id)    == [type |-> "HoldApply", to |-> h, from |-> from, tx |-> id]
Initialized(h, from, id)  == [type |-> "Initialized", to |-> h, from |-> from, tx |-> id]
Created(h, from, id, rev) ==
    [type |-> "Created", to |-> h, from |-> from, tx |-> id, rev |-> rev]
Signed(h, from, id, rev)  ==
    [type |-> "Signed", to |-> h, from |-> from, tx |-> id, rev |-> rev]
Commited(h, from, id, hash) ==
    [type |-> "Commited", to |-> h, from |-> from, tx |-> id, hash |-> hash]
Confirmed(h, from, id)    == [type |-> "Confirmed", to |-> h, from |-> from, tx |-> id]

\* Sent by anyone, naming an order or a transaction.
Cancel(node, id) == [type |-> "Cancel", to |-> node, id |-> id]

Packet ==
    [type : {"Transaction"}, to : Hubs, order : Orders]
    \cup [type : {"Hold"}, to : Addrs, hub : Hubs, order : Orders, tx : TxIds]
    \cup [type : {"Init", "Create", "Rollback"}, to : Addrs, hub : Hubs, tx : TxIds]
    \cup [type : {"Sign", "Commit"}, to : Addrs, hub : Hubs, tx : TxIds, rev : RawRevTx]
    \cup [type : {"Confirm"}, to : Addrs, hub : Hubs, tx : TxIds, hash : TxHash]
    \cup [type : {"Finished"}, to : Apps, hub : Hubs, tx : TxIds]
    \cup [type : {"HoldApply", "Initialized", "Confirmed"},
          to : Hubs, from : Addrs, tx : TxIds]
    \cup [type : {"Created", "Signed"}, to : Hubs, from : Addrs, tx : TxIds, rev : RawRevTx]
    \cup [type : {"Commited"}, to : Hubs, from : Addrs, tx : TxIds, hash : TxHash]
    \cup [type : {"Cancel"}, to : Nodes, id : Orders \cup TxIds]

Offer(o)         == {Transaction(h, o) : h \in Hubs}
CancelAll(id)    == {Cancel(n, id) : n \in Nodes}
FinishedAll(h, id) == {Finished(a, h, id) : a \in Apps}

-----------------------------------------------------------------------------
PacketsInit == net = {} /\ seen = {} /\ duplicates = 0

Deliverable == IF duplicates < MaxDuplicates THEN net ELSE net \ seen

\* Sending anew makes a packet unseen.
Send(ms) ==
    /\ net' = net \cup ms
    /\ seen' = seen \ ms
    /\ UNCHANGED duplicates

\* A handler takes m and sends ms.
Deliver(m, ms) ==
    /\ m \in Deliverable
    /\ net' = net \cup ms
    /\ seen' = (seen \cup {m}) \ ms
    /\ duplicates' = IF m \in seen THEN duplicates + 1 ELSE duplicates

PacketsTypeOK ==
    /\ net \subseteq Packet
    /\ seen \subseteq net
    /\ duplicates \in 0..MaxDuplicates
=============================================================================

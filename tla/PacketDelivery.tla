--------------------------- MODULE PacketDelivery ---------------------------
(***************************************************************************)
(* What the exchange protocol relies on: a packet is run through the       *)
(* handlers of a program only if some program sent it and it is meant for  *)
(* that program; what a handler sends in return is sent.  Nothing is said  *)
(* about when, how often or whether a packet arrives.                      *)
(***************************************************************************)
CONSTANTS
    Nodes,    \* programs
    Packets,
    Meant,    \* program -> the packets it may handle
    Replies   \* program -> packet -> what its handlers may send in return

VARIABLES sent, handled

Init == sent = {} /\ handled = {}

SendNew(p) == sent' = sent \cup {p} /\ UNCHANGED handled

Handle(n, p) ==
    /\ p \in sent
    /\ p \in Meant[n]
    /\ handled' = handled \cup {<<n, p>>}
    /\ sent' = sent \cup Replies[n][p]

Next == \E p \in Packets : SendNew(p) \/ \E n \in Nodes : Handle(n, p)

Spec == Init /\ [][Next]_<<sent, handled>>
=============================================================================

----------------------------- MODULE MCOverlay -----------------------------
(***************************************************************************)
(* A client and a hub that know each other only through a relay.  The      *)
(* client's order is answered by the hub's Hold, the Hold by an apply; the *)
(* client's timer has a packet for the hub of its own.                     *)
(***************************************************************************)
EXTENDS XBridgeOverlay, TLC

CONSTANTS client, relay, hub, offer, hold, apply, confirmed, wallet, hubId

MCTo     == hold :> wallet @@ apply :> hubId @@ confirmed :> hubId
MCHome   == wallet :> client @@ hubId :> hub
MCPeers  == client :> {relay} @@ relay :> {client, hub} @@ hub :> {relay}
MCSessions == client :> 1 @@ relay :> 0 @@ hub :> 1

MCReply ==
    [n \in Nodes |-> [p \in Packets |->
        CASE n = hub /\ p = offer   -> <<hold>>
          [] n = client /\ p = hold -> <<apply>>
          [] OTHER                  -> <<>>]]

MCCommands == client :> {offer, confirmed} @@ relay :> {} @@ hub :> {}

Died == restarts > 0 \/ \E n \in Nodes : ~node[n].up

\* An order that left the client's queue is answered and the answer reaches the
\* hub through a relay that first has to search for both, unless a program dies
\* of a search that ended.
OrderIsAnswered == offer \in node[client].processed ~> <<hub, apply>> \in handled \/ Died
=============================================================================

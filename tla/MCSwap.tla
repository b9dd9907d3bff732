------------------------------- MODULE MCSwap -------------------------------
(***************************************************************************)
(* Instances of XBridgeSwap for TLC: Ann offers coins Bob wants and Bob    *)
(* offers coins Ann wants, over one hub or two.                            *)
(***************************************************************************)
EXTENDS XBridgeSwap, TLC

CONSTANTS ann, bob, annOrder, bobOrder, annBtc, annLtc, bobBtc, bobLtc, btc, ltc

MCOrders == {annOrder, bobOrder}
MCApps   == {ann, bob}
MCAddrs  == {annBtc, annLtc, bobBtc, bobLtc}
MCAssets == {btc, ltc}
MCSource == annOrder :> annBtc @@ bobOrder :> bobLtc
MCDest   == annOrder :> annLtc @@ bobOrder :> bobBtc
MCGive   == annOrder :> btc @@ bobOrder :> ltc
MCTake   == annOrder :> ltc @@ bobOrder :> btc
MCOwner  == annBtc :> ann @@ annLtc :> ann @@ bobBtc :> bob @@ bobLtc :> bob
MCWallets == [h \in Hubs |-> MCAssets]
=============================================================================

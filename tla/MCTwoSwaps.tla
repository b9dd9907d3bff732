----------------------------- MODULE MCTwoSwaps -----------------------------
(***************************************************************************)
(* Ann trades with Bob and then, for other amounts, with Carol: two swaps  *)
(* in one client.  To keep the instance small she places her second order  *)
(* once the first swap is done, which is one way a user may behave.        *)
(***************************************************************************)
EXTENDS XBridgeSwap, TLC

CONSTANTS ann, bob, carol, first, second, bobOrder, carolOrder,
          annBtc, annLtc, bobBtc, bobLtc, carolBtc, carolLtc,
          btc1, ltc1, btc2, ltc2

MCOrders == {first, second, bobOrder, carolOrder}
MCApps   == {ann, bob, carol}
MCAddrs  == {annBtc, annLtc, bobBtc, bobLtc, carolBtc, carolLtc}
MCAssets == {btc1, ltc1, btc2, ltc2}
MCSource == first :> annBtc @@ second :> annBtc
            @@ bobOrder :> bobLtc @@ carolOrder :> carolLtc
MCDest   == first :> annLtc @@ second :> annLtc
            @@ bobOrder :> bobBtc @@ carolOrder :> carolBtc
MCGive   == first :> btc1 @@ second :> btc2 @@ bobOrder :> ltc1 @@ carolOrder :> ltc2
MCTake   == first :> ltc1 @@ second :> ltc2 @@ bobOrder :> btc1 @@ carolOrder :> btc2
MCOwner  == annBtc :> ann @@ annLtc :> ann @@ bobBtc :> bob @@ bobLtc :> bob
            @@ carolBtc :> carol @@ carolLtc :> carol
MCWallets == [h \in Hubs |-> MCAssets]

FirstDone ==
    \E id \in TxIds : /\ first \in {id[1], id[2]}
                      /\ swaps[ann][id].state = "trFinished"
                      /\ swaps[bob][id].state = "trFinished"

SecondAfterFirst ==
    /\ bobOrder \in placed' => first \in placed'
    /\ second \in placed' => FirstDone
    /\ carolOrder \in placed' => second \in placed'
    /\ TimePasses => second \in placed

StagedSpec == Init /\ [][Next /\ SecondAfterFirst]_vars
=============================================================================

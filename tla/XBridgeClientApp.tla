-------------------------- MODULE XBridgeClientApp --------------------------
(***************************************************************************)
(* The parts of a client that meet the user and the wallets: the list of   *)
(* orders, the payments, the address book.  They share no state but the    *)
(* wallet, whose payments are amounts in one and addresses in the other,   *)
(* so a behaviour runs one of them and leaves the others as they start.    *)
(***************************************************************************)
EXTENDS OrderList, WalletPayments, AddressBook

VARIABLE part    \* the part this behaviour is about

appVars == <<orderVars, walletVars, bookVars, part>>

Parts == {"orders", "payments", "addresses"}

Init == OrderListInit /\ WalletInit /\ BookInit /\ part \in Parts

RunOrders    == part = "orders" /\ OrderListNext /\ UNCHANGED <<walletVars, bookVars, part>>
RunPayments  == part = "payments" /\ WalletNext /\ UNCHANGED <<orderVars, bookVars, part>>
RunAddresses == part = "addresses" /\ BookNext /\ UNCHANGED <<orderVars, walletVars, part>>

Next == RunOrders \/ RunPayments \/ RunAddresses

Spec == Init /\ [][Next]_appVars
FairSpec == Spec /\ OrderListFairness    \* which asks nothing of the other parts

ClientAppTypeOK == OrderListTypeOK /\ WalletTypeOK /\ BookTypeOK

=============================================================================

---------------------------- MODULE MCClientApp -----------------------------
(***************************************************************************)
(* One own order, placed by the user or as the acceptance of another's;    *)
(* two swaps paid from two coins, one swap for less than the fee; a key    *)
(* that two wallets own.  The encodings are checked along with them.       *)
(***************************************************************************)
EXTENDS XBridgeClientApp, MCEncodings, TLC

CONSTANTS one, theirs, swapOne, usual, tiny, big, small, btc, ltc, main, other, key, mine

MCHeldAs == one :> swapOne
MCAmount == usual :> 5 @@ tiny :> 1
MCValue == big :> 14 @@ small :> 4
MCHas == btc :> (main :> {key} @@ other :> {mine}) @@ ltc :> (main :> {key} @@ other :> {})

=============================================================================

----------------------------- MODULE WalletRpc ------------------------------
(***************************************************************************)
(* The wallet RPC client: what a call comes back with, and when each       *)
(* wrapper of bitcoinrpc.cpp takes that for success.  Every wrapper turns  *)
(* exceptions into false, so to its caller a call fails or it does not.    *)
(***************************************************************************)

\* CallRPC(): an exception, or a reply with its "error" set, or a reply with a
\* "result" of some JSON type.
Replies == {"throws", "error", "null", "text", "array", "object"}

ListAccounts(reply)          == reply = "object"
GetAddressesByAccount(reply) == reply = "array"
ListUnspent(reply)           == reply = "array"
GetNewAddress(reply)         == reply = "text"
SignRawTransaction(reply)    == reply = "object"     \* with a text "hex", complete or not
SendRawTransaction(reply)    == reply \notin {"throws", "error"}    \* any result will do

\* What the wallet itself can say: no connection, a refusal, or the call's own type.
Answers(type) == {"throws", "error", type}

=============================================================================

---------------------------- MODULE MCHubThreads ----------------------------
(***************************************************************************)
(* An instance of HubThreads: an offer, the offer that matches it and a    *)
(* repetition of the first, with two runs of the timer job.                *)
(***************************************************************************)
EXTENDS HubThreads, TLC

CONSTANTS ask, bid, askAgain, coins, tokens

MCHash1 == ask :> coins @@ bid :> tokens @@ askAgain :> coins
MCHash2 == ask :> tokens @@ bid :> coins @@ askAgain :> tokens
=============================================================================

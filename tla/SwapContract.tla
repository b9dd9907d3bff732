---------------------------- MODULE SwapContract ----------------------------
(***************************************************************************)
(* What the exchange promises the two users of a swap, without hubs,       *)
(* packets, retries or wallets: who signed, who paid, who took the payment *)
(* back, and whether the swap was announced finished.                      *)
(***************************************************************************)
CONSTANT Swaps

VARIABLES
    signed,     \* swap -> sides that signed the other side's revert transaction
    paid,       \* swap -> sides whose payment is out
    reverted,   \* swap -> sides that took their payment back
    finished    \* swap -> announced finished

contractVars == <<signed, paid, reverted, finished>>

Side == {1, 2}

Init ==
    /\ signed = [id \in Swaps |-> {}]
    /\ paid = [id \in Swaps |-> {}]
    /\ reverted = [id \in Swaps |-> {}]
    /\ finished = [id \in Swaps |-> FALSE]

SignRevert(id, s) ==
    /\ signed' = [signed EXCEPT ![id] = @ \cup {s}]
    /\ UNCHANGED <<paid, reverted, finished>>

\* No side pays before both can get their payment back.
Pay(id, s) ==
    /\ signed[id] = Side
    /\ paid' = [paid EXCEPT ![id] = @ \cup {s}]
    /\ UNCHANGED <<signed, reverted, finished>>

\* Only what was paid is taken back.
Revert(id, s) ==
    /\ s \in paid[id]
    /\ reverted' = [reverted EXCEPT ![id] = @ \cup {s}]
    /\ UNCHANGED <<signed, paid, finished>>

\* A swap is announced finished only when both sides have paid.
Finish(id) ==
    /\ paid[id] = Side
    /\ finished' = [finished EXCEPT ![id] = TRUE]
    /\ UNCHANGED <<signed, paid, reverted>>

Next ==
    \E id \in Swaps :
        \/ \E s \in Side : SignRevert(id, s) \/ Pay(id, s) \/ Revert(id, s)
        \/ Finish(id)

Spec == Init /\ [][Next]_contractVars
=============================================================================

------------------------------- MODULE Escrow -------------------------------
(***************************************************************************)
(* What a wallet promises its owners, with no handlers, no bank and no     *)
(* crashes: a payment takes its amount out of the payer's purse once, in   *)
(* one step that the purse can afford, and from then on either reaches the *)
(* payee or returns to the payer, once, in full and never both.  A purse   *)
(* changes in no other way than by a payment, a refund granted by a        *)
(* merchant, or the bank restating what it holds.                          *)
(***************************************************************************)
EXTENDS Integers

CONSTANTS Users, Payees, Payments, Amounts, Opening

VARIABLES purse, payment
vars == <<purse, payment>>

None == [state |-> "none"]
States == {"held", "settled", "returned"}

Init ==
    /\ purse = [u \in Users |-> Opening]
    /\ payment = [t \in Payments |-> None]

Hold(t, u, to, a) ==
    /\ payment[t].state = "none"
    /\ purse[u] >= a
    /\ purse' = [purse EXCEPT ![u] = @ - a]
    /\ payment' = [payment EXCEPT ![t] = [state |-> "held", from |-> u, to |-> to, amt |-> a]]

Settle(t) ==
    LET m == payment[t] IN
    /\ m.state = "held"
    /\ purse' = IF m.to \in Users THEN [purse EXCEPT ![m.to] = @ + m.amt] ELSE purse
    /\ payment' = [payment EXCEPT ![t].state = "settled"]

GiveBack(t) ==
    LET m == payment[t] IN
    /\ m.state = "held"
    /\ purse' = [purse EXCEPT ![m.from] = @ + m.amt]
    /\ payment' = [payment EXCEPT ![t].state = "returned"]

\* Only a payment that has settled can be refunded.
GrantRefund(t, a) ==
    LET m == payment[t] IN
    /\ m.state = "settled" /\ a <= m.amt
    /\ purse' = [purse EXCEPT ![m.from] = @ + a]
    /\ UNCHANGED payment

Restate(u) ==
    /\ purse'[u] \in Nat
    /\ purse' = [purse EXCEPT ![u] = purse'[u]]
    /\ UNCHANGED payment

Next ==
    \/ \E t \in Payments, u \in Users, to \in Payees, a \in Amounts : Hold(t, u, to, a)
    \/ \E t \in Payments : Settle(t) \/ GiveBack(t)
    \/ \E t \in Payments, a \in Amounts : GrantRefund(t, a)
    \/ \E u \in Users : Restate(u)

Spec == Init /\ [][Next]_vars
=============================================================================

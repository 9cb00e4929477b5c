-------------------------------- MODULE Trip --------------------------------
(***************************************************************************)
(* What rider-service promises of one ride: it is matched once, it ends     *)
(* once, and the customer pays for the way it ended, the fare of a trip     *)
(* that was driven or the fee of one called off late, and pays that once.   *)
(***************************************************************************)
EXTENDS Naturals

VARIABLES
    phase,      \* where the ride is
    due,        \* what its end made the customer owe
    charged     \* how often the wallet was debited, by reason

Reasons == {"fare", "fee"}

Init ==
    /\ phase = "waiting"
    /\ due = "nothing"
    /\ charged = [r \in Reasons |-> 0]

Match ==
    /\ phase = "waiting" /\ phase' = "riding"
    /\ UNCHANGED <<due, charged>>

Finish ==
    /\ phase = "riding" /\ phase' = "done" /\ due' = "fare"
    /\ UNCHANGED charged

\* A fee is owed only by a customer who lets a matched partner down.
CallOff ==
    /\ phase \in {"waiting", "riding"} /\ phase' = "off"
    /\ due' \in IF phase = "riding" THEN {"nothing", "fee"} ELSE {"nothing"}
    /\ UNCHANGED charged

Charge ==
    /\ due \in Reasons /\ charged[due] = 0
    /\ charged' = [charged EXCEPT ![due] = 1]
    /\ UNCHANGED <<phase, due>>

Next == Match \/ Finish \/ CallOff \/ Charge

Spec == Init /\ [][Next]_<<phase, due, charged>>
=============================================================================

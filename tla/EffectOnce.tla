----------------------------- MODULE EffectOnce -----------------------------
(***************************************************************************)
(* What a durable delivery promises: the effect of everything that is owed *)
(* is applied, exactly once, whatever is retried on the way.               *)
(***************************************************************************)
EXTENDS Naturals

CONSTANT Effects

VARIABLES
    owed,       \* what has been promised to take effect
    times       \* how often each effect was applied

Init == owed = {} /\ times = [e \in Effects |-> 0]

Owe(e) == e \notin owed /\ owed' = owed \cup {e} /\ UNCHANGED times
Apply(e) == e \in owed /\ times[e] = 0 /\ times' = [times EXCEPT ![e] = 1] /\ UNCHANGED owed

Next == \E e \in Effects : Owe(e) \/ Apply(e)

Spec == Init /\ [][Next]_<<owed, times>> /\ \A e \in Effects : WF_<<owed, times>>(Apply(e))
=============================================================================

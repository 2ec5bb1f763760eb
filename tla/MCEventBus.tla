----------------------------- MODULE MCEventBus -----------------------------
EXTENDS EventBus, TLC
CONSTANTS p1, p2, s1, s2, t1

\* both subscriptions are of the one type; p1 publishes twice, p2 once
TypeTable == [s \in Subs |-> t1]
Calls     == (p1 :> 2) @@ (p2 :> 1)
=============================================================================

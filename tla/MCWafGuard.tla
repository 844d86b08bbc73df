----------------------------- MODULE MCWafGuard -----------------------------
(* Model values for checking WafGuard: one IP, and the subjects behind it.   *)
EXTENDS WafGuard

CONSTANTS ip, u1, u2

TwoLimits == [k \in Keys |-> IF k \in Ips THEN [burst |-> 2, sustain |-> 3]
                                         ELSE [burst |-> 1, sustain |-> 2]]
TwoSteps == <<2, 3>>
=============================================================================

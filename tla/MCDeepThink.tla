---------------------------- MODULE MCDeepThink ----------------------------
(* Values for checking DeepThink: the code's settings, and inputs at the      *)
(* limits where a pass more or less fits.                                    *)
EXTENDS DeepThink

Ask(tier, timeout, budget) ==
    [tier |-> tier, enabled |-> TRUE, deep |-> TRUE, breaker |-> FALSE, abuse |-> FALSE,
     timeout |-> timeout, budget |-> budget]

\* Too little of everything, two to five passes with shares to raise, the tiers'
\* own settings, and each reason not to start.
LimitInputs ==
    {Ask("MAX", timeout, budget) : timeout \in {-1, 499, 500, 1250}, budget \in {0, 99, 101, 205, 260}}
    \cup {Ask("PRO", -1, -1), Ask("MAX", -1, -1), Ask("FREE", -1, -1)}
    \cup {[Ask("MAX", -1, -1) EXCEPT !.enabled = FALSE], [Ask("PRO", -1, -1) EXCEPT !.deep = FALSE],
          [Ask("PRO", -1, -1) EXCEPT !.breaker = TRUE], [Ask("PRO", -1, -1) EXCEPT !.abuse = TRUE]}

TwoPassInputs == {Ask("PRO", 500, 101)}

Flags == {[breaker |-> b, abuse |-> a] : a, b \in BOOLEAN}

PassesOf == [FREE |-> 0, PRO |-> 3, MAX |-> 5]
TimeoutOf == [FREE |-> 3000, PRO |-> 3000, MAX |-> 6000]
BudgetOf == [FREE |-> 300, PRO |-> 300, MAX |-> 600]
=============================================================================

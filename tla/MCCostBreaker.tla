---------------------------- MODULE MCCostBreaker ----------------------------
(* Model values for checking CostBreaker: interchangeable requests.          *)
EXTENDS CostBreaker, TLC

RequestSymmetry == Permutations(Requests)
=============================================================================

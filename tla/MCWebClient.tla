---------------------------- MODULE MCWebClient ----------------------------
(* The tabs of one browser, for checking WebClient.                           *)
EXTENDS WebClient

TabSymmetry == Permutations(Tabs)

=============================================================================

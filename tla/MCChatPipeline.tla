--------------------------- MODULE MCChatPipeline ---------------------------
(* Model values for checking ChatPipeline: two clients of one subject, or    *)
(* two of one and one of another.                                            *)
EXTENDS ChatPipeline

CONSTANTS r1, r2, r3, s1, s2

TwoSlots == {r1, r2}
OneOwner == [r \in TwoSlots |-> s1]

ThreeSlots == {r1, r2, r3}
TwoOwners == [r \in ThreeSlots |-> IF r = r3 THEN s2 ELSE s1]
=============================================================================

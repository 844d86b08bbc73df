------------------------------ MODULE FactLife ------------------------------
(***************************************************************************)
(* What the memory of backend/app/memory promises about the facts it is     *)
(* told, with no log and no replay: an id is free, holds one fact until a   *)
(* fixed time, or is buried for good, and what it holds does not change     *)
(* while it is held.  MemoryStore implements this.                          *)
(***************************************************************************)
EXTENDS Integers

CONSTANTS FactIds, Facts

VARIABLES
    held,       \* the facts held, each with the instant it is held until
    buried,     \* the ids that expired by decree
    now

Ids(S) == {h.fact.id : h \in S}

Init == held = {} /\ buried = {} /\ now \in Nat

\* One call may tell the memory several facts, release them or bury them.
Tell ==
    \E before \in {held}, after \in {held'}, gone \in {buried}, goneNow \in {buried'} :
        /\ \A h \in after \ before : /\ h.fact \in Facts /\ h.until \in Nat
                                     /\ h.fact.id \notin Ids(before) \cup gone
        /\ gone \subseteq goneNow /\ goneNow \subseteq FactIds
        /\ Ids(after) \cap goneNow = {}
        /\ \A g, h \in after : g.fact.id = h.fact.id => g = h
        /\ UNCHANGED now

Tick == now' > now /\ UNCHANGED <<held, buried>>

Next == Tell \/ Tick

Spec == Init /\ [][Next]_<<held, buried, now>>
=============================================================================

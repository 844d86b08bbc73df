-------------------------- MODULE ExpressionRules --------------------------
(***************************************************************************)
(* The output plan (backend/mci_backend/expression_*.py, output_plan.py):    *)
(* how the action of a control plan is to be expressed.  Every selector ends *)
(* in checks that refuse the plan; here they are the last section.           *)
(***************************************************************************)
EXTENDS OrchestrationRules

OutputAction == {"ANSWER", "ASK_ONE_QUESTION", "REFUSE", "CLOSE"}

OutputPlan ==
    [action : OutputAction,
     posture : {"BASELINE", "GUARDED", "CONSTRAINED"},
     rigor : {RigorOrder[k] : k \in DOMAIN RigorOrder},
     signaling : {"MINIMAL", "GUARDED", "EXPLICIT"},
     disclosure : {"NONE", "IMPLICIT", "EXPLICIT"},
     surfacing : {"NONE", "LIGHT", "REQUIRED"},
     question : {"NONE", "SAFETY_GUARD", "CONSENT", "OTHER_BOUNDARY", "INFORMATIONAL"},
     refusal : RefusalCategory,
     explanation : {"BRIEF_BOUNDARY", "BOUNDED_EXPLANATION", "REDIRECT_TO_SAFE_FRAME"},
     rendering : {"SILENCE", "CONFIRM_CLOSURE", "BRIEF_SUMMARY_AND_STOP"},
     closure : {"OPEN", "CLOSING", "CLOSED", "USER_TERMINATED"}]

Refuses(p) == p.refusal # "NONE"
Ended(p) == p.closure # "OPEN"
Asks(p) == p.action = "ASK_ONE_QUESTION" \/ p.clarification

\* What every "baseline" rule of the selectors asks for.
Benign(d, p) ==
    /\ ~Unknowns(d) /\ Remote(d) /\ ~CriticalMedium(d) /\ ~Irreversible(d)
    /\ d.scope = "SELF_ONLY"
    /\ ~Ended(p) /\ ~Refuses(p) /\ p.friction \in {"NONE", "SOFT_PAUSE"}

-----------------------------------------------------------------------------

PostureConstrained(d, p) ==
    \/ Refuses(p) \/ p.action = "REFUSE" \/ p.friction = "STOP"
    \/ CriticalMedium(d)
    \/ Near(d) /\ (Irreversible(d) \/ OthersInvolved(d) \/ Unknowns(d))
    \/ Asks(p) /\ OthersInvolved(d)

SelectPosture(d, p) ==
    IF PostureConstrained(d, p) THEN "CONSTRAINED"
    ELSE IF Benign(d, p) /\ ~LongHorizon(d) /\ ~Asks(p) /\ p.action # "CLOSE" THEN "BASELINE"
    ELSE "GUARDED"

\* At least the rigor of the plan, and what posture, unknowns and stakes ask for.
SelectRigorDisclosure(d, p, posture) ==
    IF p.rigor = "ENFORCED" THEN "ENFORCED"
    ELSE IF \/ p.rigor = "STRUCTURED"
            \/ Near(d) /\ (Unknowns(d) \/ CriticalMedium(d) \/ Irreversible(d))
         THEN "STRUCTURED"
    ELSE IF \/ p.rigor = "GUARDED" \/ Refuses(p) \/ posture = "CONSTRAINED"
            \/ Elevated(d) /\ Unknowns(d)
         THEN "GUARDED" ELSE "MINIMAL"

SignalingExplicit(d, p, disclosed) ==
    \/ Refuses(p) \/ p.friction = "STOP"
    \/ d.proximity = "IMMINENT" /\ (Unknowns(d) \/ CriticalLow(d))
    \/ Near(d) /\ (Unknowns(d) \/ Irreversible(d) \/ OthersInvolved(d))
    \/ Elevated(d) /\ ("UNKNOWN_OUTCOME_CLASS" \in d.outcomes \/ CriticalMedium(d))
    \/ Unknowns(d) /\ (LongHorizon(d) \/ OthersInvolved(d))
    \/ disclosed = "ENFORCED" \/ p.rigor = "ENFORCED"

SelectSignaling(d, p, posture, disclosed) ==
    IF SignalingExplicit(d, p, disclosed) THEN "EXPLICIT"
    ELSE IF /\ Benign(d, p) /\ posture = "BASELINE" /\ disclosed = "MINIMAL"
            /\ "UNKNOWN_OUTCOME_CLASS" \notin d.outcomes /\ p.rigor = "MINIMAL"
         THEN "MINIMAL" ELSE "GUARDED"

\* Explicit disclosure is asked for, before the action is looked at.
DisclosureWanted(d, p, disclosed, signaling) ==
    \/ p.friction = "STOP"
    \/ /\ Unknowns(d)
       /\ \/ Refuses(p)
          \/ signaling = "EXPLICIT"
          \/ disclosed = "ENFORCED"
          \/ Near(d) /\ p.action # "ASK_ONE_QUESTION" /\ ~Ended(p)
          \/ /\ HighStakes(d) /\ Elevated(d)
             /\ p.action \notin {"ASK_ONE_QUESTION", "CLOSE"} /\ ~Ended(p)

SelectUnknownDisclosure(d, p, posture, disclosed, signaling) ==
    IF /\ DisclosureWanted(d, p, disclosed, signaling)
       /\ p.action = "ASK_ONE_QUESTION" => p.friction = "STOP" \/ (HighStakes(d) /\ Near(d))
       /\ Ended(p) => p.friction = "STOP" \/ (Refuses(p) /\ Unknowns(d))
    THEN "EXPLICIT"
    ELSE IF /\ Benign(d, p) /\ ~LongHorizon(d) /\ posture = "BASELINE" /\ disclosed = "MINIMAL"
            /\ signaling = "MINIMAL" /\ p.action # "REFUSE"
         THEN "NONE" ELSE "IMPLICIT"

\* Assumptions are required, before the action is looked at.
SurfacingWanted(d, p, disclosed, signaling, disclosure) ==
    LET held == p.action = "ASK_ONE_QUESTION" \/ Ended(p)
        insists == p.friction = "STOP" \/ Refuses(p)
    IN \/ p.friction = "STOP"
       \/ Refuses(p) /\ Unknowns(d)
       \/ (signaling = "EXPLICIT" \/ disclosed = "ENFORCED") /\ (Unknowns(d) \/ HighStakes(d))
       \/ disclosure = "EXPLICIT" /\ Unknowns(d) /\ Elevated(d)
       \/ Near(d) /\ (Unknowns(d) \/ OthersInvolved(d)) /\ (held => insists)
       \/ HighStakes(d) /\ Unknowns(d) /\ Elevated(d)

SelectAssumptionSurfacing(d, p, posture, disclosed, signaling, disclosure) ==
    IF /\ SurfacingWanted(d, p, disclosed, signaling, disclosure)
       /\ p.action = "ASK_ONE_QUESTION"
            => p.friction = "STOP" \/ Refuses(p) \/ (HighStakes(d) /\ Near(d))
       /\ Ended(p) => p.friction = "STOP" \/ Refuses(p)
    THEN "REQUIRED"
    ELSE IF /\ Benign(d, p) /\ ~LongHorizon(d) /\ posture = "BASELINE" /\ disclosed = "MINIMAL"
            /\ signaling = "MINIMAL" /\ disclosure # "EXPLICIT" /\ p.action # "REFUSE"
         THEN "NONE" ELSE "LIGHT"

-----------------------------------------------------------------------------
(* How a refusal is explained and a closure rendered.                        *)

ExplanationOrder == <<"BRIEF_BOUNDARY", "BOUNDED_EXPLANATION", "REDIRECT_TO_SAFE_FRAME">>

CategoryBaseline ==
    [CAPABILITY_REFUSAL |-> 1, RISK_REFUSAL |-> 2,
     IRREVERSIBILITY_REFUSAL |-> 3, THIRD_PARTY_REFUSAL |-> 3]

SelectExplanation(d, p, disclosure) ==
    LET strongest == \/ p.friction = "STOP"
                     \/ Unknowns(d) /\ disclosure = "EXPLICIT"
                     \/ HighStakes(d) /\ Elevated(d)
        bounded == Unknowns(d) /\ disclosure # "NONE"
        rank == IF strongest THEN 3
                ELSE IF bounded /\ CategoryBaseline[p.refusal] = 1 THEN 2
                ELSE CategoryBaseline[p.refusal]
    IN IF ~Refuses(p) \/ (Ended(p) /\ p.friction # "STOP") THEN "BRIEF_BOUNDARY"
       ELSE ExplanationOrder[IF Near(d) /\ rank < 3 THEN rank + 1 ELSE rank]

SelectClosureRendering(d, p, posture) ==
    IF p.closure = "USER_TERMINATED" THEN "SILENCE"
    ELSE IF /\ p.closure = "CLOSING" /\ (HighStakes(d) \/ d.proximity = "IMMINENT")
            /\ p.friction # "STOP" /\ posture # "CONSTRAINED"
         THEN "BRIEF_SUMMARY_AND_STOP" ELSE "CONFIRM_CLOSURE"

-----------------------------------------------------------------------------
(* Assembly.                                                                 *)

ResolveAction(p) ==
    IF Ended(p) THEN "CLOSE"
    ELSE IF Refuses(p) THEN "REFUSE"
    ELSE IF p.action = "ASK_ONE_QUESTION" THEN "ASK_ONE_QUESTION" ELSE "ANSWER"

AssembleOutputPlan(d, p) ==
    LET posture == SelectPosture(d, p)
        rigor == SelectRigorDisclosure(d, p, posture)
        signaling == SelectSignaling(d, p, posture, rigor)
        disclosure == SelectUnknownDisclosure(d, p, posture, rigor, signaling)
        action == ResolveAction(p)
    IN [action |-> action, posture |-> posture, rigor |-> rigor, signaling |-> signaling,
        disclosure |-> disclosure,
        surfacing |-> SelectAssumptionSurfacing(d, p, posture, rigor, signaling, disclosure),
        question |-> IF action = "ASK_ONE_QUESTION" THEN p.question ELSE "NONE",
        refusal |-> IF action = "REFUSE" THEN p.refusal ELSE "NONE",
        explanation |-> SelectExplanation(d, p, disclosure),
        rendering |-> SelectClosureRendering(d, p, posture),
        closure |-> p.closure]

\* The levels of rigor an action or a posture has no place for.
RigorRefused(d, p, o) ==
    \/ p.rigor = "ENFORCED" /\ (Asks(p) \/ p.action = "CLOSE" \/ Ended(p) \/ Refuses(p))
    \/ /\ o.posture = "BASELINE"
       /\ RigorAtLeast(p.rigor, "STRUCTURED") \/ RigorAtLeast(o.rigor, "STRUCTURED")

\* The hard constraints at the end of the selectors of signaling, disclosure and surfacing.
SelectorsRefuse(d, p, o) ==
    \/ (o.rigor = "ENFORCED" \/ p.friction = "STOP") /\ o.signaling # "EXPLICIT"
    \/ (Refuses(p) \/ Ended(p)) /\ o.signaling = "MINIMAL"
    \/ p.friction = "STOP" /\ (o.disclosure # "EXPLICIT" \/ o.surfacing # "REQUIRED")
    \/ /\ Refuses(p) \/ o.signaling = "EXPLICIT" \/ o.rigor = "ENFORCED" \/ Unknowns(d)
       /\ o.disclosure = "NONE" \/ o.surfacing = "NONE"
    \/ o.disclosure = "EXPLICIT" /\ o.surfacing = "NONE"

RefusalRefused(p, o) ==
    Refuses(p) /\ p.friction = "STOP" /\ o.explanation # "REDIRECT_TO_SAFE_FRAME"

ClosureRefused(p, o) ==
    /\ Ended(p)
    /\ \/ p.questionBudget = 1 \/ p.clarification
       \/ p.friction = "STOP" /\ o.rendering # "SILENCE"

\* The checks of assemble_output_plan and of validate_output_plan.
ActionRefused(p, o) ==
    \/ o.action = "CLOSE" /\ (p.questionBudget # 0 \/ p.clarification \/ Refuses(p))
    \/ o.action = "CLOSE" /\ o.posture = "BASELINE"
    \/ o.action = "REFUSE" /\ p.questionBudget # 0
    \/ o.action = "REFUSE" /\ (o.posture # "CONSTRAINED" \/ o.signaling = "MINIMAL")
    \/ o.action = "ASK_ONE_QUESTION"
        /\ (p.questionBudget # 1 \/ p.question = "NONE" \/ o.rigor = "ENFORCED")
    \/ o.action = "ANSWER"
        /\ (p.questionBudget # 0 \/ p.friction = "STOP" \/ p.action # "ANSWER_ALLOWED")
    \/ o.rigor = "ENFORCED" /\ o.disclosure = "NONE"

OutputPlanFails(d, p) ==
    LET o == AssembleOutputPlan(d, p)
    IN \/ RigorRefused(d, p, o)
       \/ SelectorsRefuse(d, p, o)
       \/ RefusalRefused(p, o)
       \/ ClosureRefused(p, o)
       \/ ActionRefused(p, o)
=============================================================================

------------------------ MODULE OrchestrationRules -------------------------
(***************************************************************************)
(* The control plan (backend/mci_backend/orchestration_*.py): from a         *)
(* decision state and the end of the message to one action with its rigor,   *)
(* friction, question, initiative, closure and refusal.                      *)
(***************************************************************************)
EXTENDS DecisionRules

ControlAction == {"ANSWER_ALLOWED", "ASK_ONE_QUESTION", "REFUSE", "CLOSE"}
RigorOrder == <<"MINIMAL", "GUARDED", "STRUCTURED", "ENFORCED">>
FrictionOrder == <<"NONE", "SOFT_PAUSE", "HARD_PAUSE", "STOP">>

RefusalCategory ==
    {"NONE", "RISK_REFUSAL", "IRREVERSIBILITY_REFUSAL", "THIRD_PARTY_REFUSAL", "CAPABILITY_REFUSAL"}

ControlPlan ==
    [action : ControlAction,
     rigor : {RigorOrder[k] : k \in DOMAIN RigorOrder},
     friction : {FrictionOrder[k] : k \in DOMAIN FrictionOrder},
     clarification : BOOLEAN,
     reason : {"UNKNOWN", "SAFETY", "SCOPE_CONFIRMATION", "MISSING_CONTEXT"},
     questionBudget : 0..1,
     question : {"NONE", "SAFETY_GUARD", "CONSENT", "OTHER_BOUNDARY", "INFORMATIONAL"},
     initiative : {"NONE", "ONCE", "STRICT_ONCE"},
     warningBudget : 0..1,
     closure : {"OPEN", "CLOSING", "CLOSED", "USER_TERMINATED"},
     refusal : RefusalCategory]

RigorAtLeast(level, bound) == RankIn(RigorOrder, level) >= RankIn(RigorOrder, bound)
FrictionAtLeast(level, bound) == RankIn(FrictionOrder, level) >= RankIn(FrictionOrder, bound)

-----------------------------------------------------------------------------
(* Rigor and friction: each is the highest level one of its rules raises to. *)

RigorEnforced(d) ==
    \/ d.proximity = "IMMINENT" /\ (Irreversible(d) \/ Systemic(d) \/ CriticalMedium(d))
    \/ Near(d) /\ Unknowns(d) /\ CriticalMedium(d)
    \/ d.proximity = "IMMINENT" /\ Unknowns(d)

RigorStructured(d) == Near(d) \/ CriticalMedium(d) \/ Irreversible(d) \/ Systemic(d)

RigorGuarded(d) ==
    \/ d.proximity = "MEDIUM"
    \/ Unknowns(d) /\ Elevated(d)
    \/ CriticalLow(d)
    \/ LongHorizon(d)
    \/ d.scope = "THIRD_PARTY"

SelectRigor(d) ==
    IF RigorEnforced(d) THEN "ENFORCED"
    ELSE IF RigorStructured(d) THEN "STRUCTURED"
    ELSE IF RigorGuarded(d) THEN "GUARDED" ELSE "MINIMAL"

FrictionStop(d) ==
    d.proximity = "IMMINENT" /\ Irreversible(d) /\ CriticalLow(d) /\ Unknowns(d)

FrictionHard(d) ==
    \/ /\ d.proximity = "HIGH"
       /\ Irreversible(d) \/ OthersInvolved(d) \/ CriticalLow(d) \/ Unknowns(d)
    \/ /\ d.proximity = "IMMINENT"
       /\ Irreversible(d) \/ Systemic(d) \/ CriticalMedium(d) \/ Unknowns(d)

FrictionSoft(d, rigor) ==
    \/ /\ d.proximity = "MEDIUM"
       /\ CriticalLow(d) \/ d.scope # "SELF_ONLY" \/ Irreversible(d) \/ Unknowns(d)
    \/ Elevated(d) /\ (LongHorizon(d) \/ RigorAtLeast(rigor, "STRUCTURED"))

SelectFriction(d, rigor) ==
    IF FrictionStop(d) THEN "STOP"
    ELSE IF FrictionHard(d) THEN "HARD_PAUSE"
    ELSE IF FrictionSoft(d, rigor) THEN "SOFT_PAUSE" ELSE "NONE"

-----------------------------------------------------------------------------
(* Clarification and the one question.                                       *)

\* Deviation: far from acting, only a critical domain is worth a question.
ClarificationReasonCriticalOnly(d, rigor, friction) ==
    CASE Remote(d) -> IF CriticalMedium(d) /\ Unknowns(d) THEN "SAFETY" ELSE "UNKNOWN"
      [] OTHER -> "MISSING_CONTEXT"

\* The reason to ask; UNKNOWN when nothing is asked.
ClarificationReason(d, rigor, friction) ==
    CASE Remote(d) ->
            IF (CriticalMedium(d) \/ Irreversible(d)) /\ Unknowns(d) THEN "SAFETY" ELSE "UNKNOWN"
      [] d.proximity = "MEDIUM" ->
            IF CriticalMedium(d) \/ Irreversible(d) THEN "SAFETY"
            ELSE IF OthersInvolved(d) THEN "SCOPE_CONFIRMATION"
            ELSE IF Unknowns(d) /\ (friction # "NONE" \/ RigorAtLeast(rigor, "STRUCTURED"))
                 THEN "MISSING_CONTEXT" ELSE "UNKNOWN"
      [] Near(d) ->
            IF Unknowns(d) THEN "MISSING_CONTEXT"
            ELSE IF Irreversible(d) THEN "SAFETY"
            ELSE IF OthersInvolved(d) THEN "SCOPE_CONFIRMATION"
            ELSE IF CriticalLow(d) \/ FrictionAtLeast(friction, "HARD_PAUSE") THEN "SAFETY"
            ELSE "UNKNOWN"

ClarificationFails(d) == d.proximity = "UNKNOWN"

\* The first rule of the ladder that applies, as <<question_class, priority_reason>>.
SelectQuestion(d, reason, rigor, friction) ==
    IF CriticalMedium(d) /\ (Unknowns(d) \/ reason \in {"SAFETY", "SCOPE_CONFIRMATION"})
    THEN <<"SAFETY_GUARD", "SAFETY_CRITICAL">>
    ELSE IF CriticalMedium(d) /\ OthersInvolved(d) THEN <<"SAFETY_GUARD", "LEGAL_CONTEXT">>
    ELSE IF Irreversible(d) /\ Near(d) /\ Unknowns(d) THEN <<"SAFETY_GUARD", "IRREVERSIBILITY">>
    ELSE IF OthersInvolved(d) /\ Unknowns(d) THEN <<"CONSENT", "SCOPE_CLARIFICATION">>
    ELSE IF /\ Unknowns(d)
            /\ \/ reason = "MISSING_CONTEXT"
               \/ FrictionAtLeast(friction, "HARD_PAUSE")
               \/ RigorAtLeast(rigor, "STRUCTURED")
         THEN <<"OTHER_BOUNDARY", "CONSTRAINT_GAP">>
    ELSE IF reason = "DISAMBIGUATION" THEN <<"INFORMATIONAL", "INTENT_AMBIGUITY">>
    ELSE IF CriticalLow(d) THEN <<"SAFETY_GUARD", "UNKNOWN_CONTEXT">>
    ELSE IF OthersInvolved(d) THEN <<"CONSENT", "SCOPE_CLARIFICATION">>
    ELSE <<"INFORMATIONAL", "UNKNOWN_CONTEXT">>

-----------------------------------------------------------------------------
(* Initiative, closure and refusal.                                          *)

SelectInitiative(d, friction, asks) ==
    IF asks THEN "ONCE"
    ELSE CASE Remote(d) -> IF CriticalLow(d) /\ Unknowns(d) THEN "ONCE" ELSE "NONE"
           [] d.proximity = "MEDIUM" ->
                IF Unknowns(d) \/ OthersInvolved(d) \/ CriticalLow(d) THEN "ONCE" ELSE "NONE"
           [] Near(d) ->
                IF \/ CriticalLow(d) \/ Irreversible(d) \/ OthersInvolved(d)
                   \/ FrictionAtLeast(friction, "HARD_PAUSE") \/ Unknowns(d)
                THEN "STRICT_ONCE" ELSE "ONCE"

SelectWarnings(d, friction, asks) ==
    IF asks \/ SelectInitiative(d, friction, asks) = "NONE" THEN 0 ELSE 1

\* m.ending: the first list of closing markers the text has, weak ones only as the whole text.
DetectClosure(m, d, friction, asks) ==
    CASE m.ending = "strong" -> "USER_TERMINATED"
      [] m.ending = "refusal" ->
            IF \/ CriticalLow(d) \/ Irreversible(d) \/ OthersInvolved(d)
               \/ FrictionAtLeast(friction, "HARD_PAUSE")
            THEN "USER_TERMINATED" ELSE "CLOSED"
      [] m.ending = "weak" ->
            IF /\ Remote(d) /\ ~Irreversible(d) /\ ~CriticalMedium(d)
               /\ d.scope = "SELF_ONLY" /\ ~asks
            THEN "CLOSING" ELSE "OPEN"
      [] m.ending = "none" -> "OPEN"

\* NONE when nothing is refused.
DecideRefusal(d, friction, asks, closure) ==
    IF closure = "USER_TERMINATED" THEN "NONE"
    ELSE IF Near(d) /\ CriticalMedium(d) /\ Unknowns(d) /\ ~asks THEN "RISK_REFUSAL"
    ELSE IF d.proximity = "IMMINENT" /\ Irreversible(d) /\ Unknowns(d) /\ ~asks
         THEN "IRREVERSIBILITY_REFUSAL"
    ELSE IF OthersInvolved(d) /\ Elevated(d) /\ Unknowns(d) /\ ~asks THEN "THIRD_PARTY_REFUSAL"
    ELSE IF friction = "STOP" /\ CriticalLow(d) /\ Unknowns(d) THEN "CAPABILITY_REFUSAL"
    ELSE "NONE"

-----------------------------------------------------------------------------
(* Assembly.                                                                 *)

\* Deviation: the question is dropped, its budget is not.
ApplyOverridesKeepBudget(p) ==
    IF p.closure \in {"CLOSED", "USER_TERMINATED"}
    THEN [p EXCEPT !.clarification = FALSE, !.reason = "UNKNOWN", !.question = "NONE",
                   !.initiative = "NONE", !.warningBudget = 0]
    ELSE p

\* A conversation that ended is not asked anything, nor offered anything.
ApplyOverrides(p) ==
    IF p.closure \in {"CLOSED", "USER_TERMINATED"}
    THEN [p EXCEPT !.clarification = FALSE, !.reason = "UNKNOWN", !.questionBudget = 0,
                   !.question = "NONE", !.initiative = "NONE", !.warningBudget = 0]
    ELSE p

ChooseAction(p) ==
    IF p.closure \in {"CLOSED", "USER_TERMINATED"} THEN "CLOSE"
    ELSE IF p.refusal # "NONE" THEN "REFUSE"
    ELSE IF p.clarification THEN "ASK_ONE_QUESTION" ELSE "ANSWER_ALLOWED"

AssembleControlPlan(m, d) ==
    LET rigor == SelectRigor(d)
        friction == SelectFriction(d, rigor)
        reason == ClarificationReason(d, rigor, friction)
        asks == reason # "UNKNOWN"
        closure == DetectClosure(m, d, friction, asks)
        plan == ApplyOverrides(
            [action |-> "ANSWER_ALLOWED", rigor |-> rigor, friction |-> friction,
             clarification |-> asks, reason |-> reason,
             questionBudget |-> IF asks THEN 1 ELSE 0,
             question |-> IF asks THEN SelectQuestion(d, reason, rigor, friction)[1] ELSE "NONE",
             initiative |-> SelectInitiative(d, friction, asks),
             warningBudget |-> SelectWarnings(d, friction, asks),
             closure |-> closure,
             refusal |-> DecideRefusal(d, friction, asks, closure)])
    IN [plan EXCEPT !.action = ChooseAction(plan)]

\* _enforce_cross_step_invariants and ControlPlan.__post_init__.
ControlPlanValid(p) ==
    /\ p.questionBudget = 1 <=> p.question # "NONE"
    /\ p.friction = "STOP" => p.refusal # "NONE" \/ p.closure # "OPEN" \/ p.clarification
    /\ p.clarification => p.warningBudget = 0
    /\ p.action = "ASK_ONE_QUESTION" => p.questionBudget = 1 /\ p.closure # "CLOSED"
    /\ p.questionBudget = 1 => p.action = "ASK_ONE_QUESTION" \/ p.clarification
    /\ p.action = "ANSWER_ALLOWED" => p.refusal = "NONE"
    /\ p.action = "REFUSE" => p.refusal # "NONE"
    /\ p.action = "CLOSE" => ~p.clarification

ControlPlanFails(m, d) == ClarificationFails(d) \/ ~ControlPlanValid(AssembleControlPlan(m, d))
=============================================================================

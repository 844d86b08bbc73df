--------------------------- MODULE DecisionRules ---------------------------
(***************************************************************************)
(* The decision state (backend/mci_backend/decision_*.py): what the rules   *)
(* read out of one message.  A message is known by the groups of markers    *)
(* its text contains: for each classifier, the set of the values one of     *)
(* whose markers is a substring of the text.                                *)
(***************************************************************************)
EXTENDS Naturals, Sequences

ProximityOrder == <<"VERY_LOW", "LOW", "MEDIUM", "HIGH", "IMMINENT">>
ConfidenceOrder == <<"LOW", "MEDIUM", "HIGH">>

RiskDomain ==
    {"FINANCIAL", "LEGAL_REGULATORY", "MEDICAL_BIOLOGICAL", "PHYSICAL_SAFETY",
     "PSYCHOLOGICAL_EMOTIONAL", "ETHICAL_MORAL", "REPUTATIONAL_SOCIAL", "OPERATIONAL_SYSTEMIC",
     "IRREVERSIBLE_PERSONAL_HARM", "LEGAL_ADJACENT_GRAY_ZONE", "UNKNOWN"}

OutcomeClass ==
    {"FINANCIAL_OUTCOME", "LEGAL_REGULATORY_OUTCOME", "MEDICAL_BIOLOGICAL_OUTCOME",
     "PHYSICAL_SAFETY_OUTCOME", "PSYCHOLOGICAL_EMOTIONAL_OUTCOME", "ETHICAL_MORAL_OUTCOME",
     "REPUTATIONAL_SOCIAL_OUTCOME", "OPERATIONAL_SYSTEM_OUTCOME",
     "IRREVERSIBLE_PERSONAL_HARM_OUTCOME", "UNKNOWN_OUTCOME_CLASS"}

UnknownSource ==
    {"PROXIMITY", "RISK_DOMAINS", "CONFIDENCE", "REVERSIBILITY", "HORIZON",
     "RESPONSIBILITY_SCOPE", "OUTCOME_CLASSES"}

DecisionState ==
    [proximity : {ProximityOrder[k] : k \in DOMAIN ProximityOrder} \cup {"UNKNOWN"},
     uncertain : BOOLEAN,
     risks : SUBSET [domain : RiskDomain, confidence : {"LOW", "MEDIUM", "HIGH"}],
     reversibility : {"EASILY_REVERSIBLE", "COSTLY_REVERSIBLE", "IRREVERSIBLE", "UNKNOWN"},
     horizon : {"SHORT_HORIZON", "MEDIUM_HORIZON", "LONG_HORIZON", "UNKNOWN"},
     scope : {"SELF_ONLY", "SHARED", "THIRD_PARTY", "SYSTEMIC_PUBLIC", "UNKNOWN"},
     outcomes : SUBSET OutcomeClass,
     unknowns : SUBSET UnknownSource]

\* What the marker lists of the classifiers can find in a text.
MarkersFound(m) ==
    /\ m.proximity \subseteq {"LOW", "MEDIUM", "HIGH", "IMMINENT"}
    /\ m.risks \subseteq (RiskDomain \ {"UNKNOWN"}) \X {"MEDIUM", "HIGH"}
    /\ m.reversibility \subseteq {"EASILY_REVERSIBLE", "COSTLY_REVERSIBLE", "IRREVERSIBLE"}
    /\ m.horizon \subseteq {"SHORT_HORIZON", "MEDIUM_HORIZON", "LONG_HORIZON"}
    /\ m.scope \subseteq {"SELF_ONLY", "SHARED", "THIRD_PARTY", "SYSTEMIC_PUBLIC"}
    /\ m.outcomes \subseteq OutcomeClass \ {"UNKNOWN_OUTCOME_CLASS"}

-----------------------------------------------------------------------------

\* The first value of an order that is marked.
FirstOf(order, marks, otherwise) ==
    LET hits == {k \in DOMAIN order : order[k] \in marks}
    IN IF hits = {} THEN otherwise ELSE order[CHOOSE k \in hits : \A j \in hits : k <= j]

RankIn(order, value) == CHOOSE k \in DOMAIN order : order[k] = value

If(condition, value) == IF condition THEN {value} ELSE {}

\* Unknowns a state must declare: the schema asks for them, consolidation adds them.
RequiredUnknowns(d) ==
    If(d.proximity = "UNKNOWN" \/ d.uncertain, "PROXIMITY")
    \cup If(\E r \in d.risks : r.domain = "UNKNOWN", "RISK_DOMAINS")
    \cup If(d.reversibility \in {"UNKNOWN", "IRREVERSIBLE"}, "REVERSIBILITY")
    \cup If(\/ d.horizon \in {"UNKNOWN", "LONG_HORIZON"}
            \/ d.scope = "SYSTEMIC_PUBLIC" /\ d.horizon = "SHORT_HORIZON", "HORIZON")
    \cup If(d.scope = "UNKNOWN", "RESPONSIBILITY_SCOPE")
    \cup If(d.outcomes = {} \/ "UNKNOWN_OUTCOME_CLASS" \in d.outcomes, "OUTCOME_CLASSES")

\* DecisionState.__post_init__, which every replace() runs again.
WellFormed(d) ==
    /\ d.risks # {}
    /\ \A r, s \in d.risks : r.domain = s.domain => r = s
    /\ RequiredUnknowns(d) \subseteq d.unknowns

Baseline ==
    [proximity |-> "UNKNOWN", uncertain |-> TRUE,
     risks |-> {[domain |-> "UNKNOWN", confidence |-> "LOW"]},
     reversibility |-> "UNKNOWN", horizon |-> "UNKNOWN", scope |-> "UNKNOWN",
     outcomes |-> {"UNKNOWN_OUTCOME_CLASS"}, unknowns |-> UnknownSource]

-----------------------------------------------------------------------------
(* The five classifiers.  Each replaces its fields and may add unknowns.     *)

ClassifyProximity(m) == FirstOf(<<"IMMINENT", "HIGH", "MEDIUM", "LOW">>, m.proximity, "VERY_LOW")

ProximityUncertain(p) == p \in {"LOW", "VERY_LOW"}

\* Within a turn proximity does not go down, and IMMINENT declares an unknown.
ProximityAllowed(d, p) ==
    /\ d.proximity # "UNKNOWN" => RankIn(ProximityOrder, p) >= RankIn(ProximityOrder, d.proximity)
    /\ p = "IMMINENT" => d.unknowns \cup If(ProximityUncertain(p), "PROXIMITY") # {}

ApplyProximity(d, m) ==
    LET p == ClassifyProximity(m)
    IN [d EXCEPT !.proximity = p, !.uncertain = ProximityUncertain(p),
                 !.unknowns = @ \cup If(ProximityUncertain(p), "PROXIMITY")]

\* A domain counts with the stronger of its marker lists.
ClassifyDomains(m) ==
    {[domain |-> mark[1], confidence |-> mark[2]] :
        mark \in {k \in m.risks : k[2] = "HIGH" \/ <<k[1], "HIGH">> \notin m.risks}}

\* No marked domain: the UNKNOWN domain, at LOW confidence.
ApplyRisks(d, m) ==
    LET found == ClassifyDomains(m)
    IN IF found = {}
       THEN [d EXCEPT !.risks = {[domain |-> "UNKNOWN", confidence |-> "LOW"]},
                      !.unknowns = @ \cup {"RISK_DOMAINS", "CONFIDENCE"}]
       ELSE [d EXCEPT !.risks = found,
                      !.unknowns = @ \cup If(d.proximity = "IMMINENT" /\ @ = {}, "RISK_DOMAINS")]

ClassifyReversibility(m) ==
    FirstOf(<<"IRREVERSIBLE", "COSTLY_REVERSIBLE", "EASILY_REVERSIBLE">>, m.reversibility, "UNKNOWN")

ClassifyHorizon(m) ==
    FirstOf(<<"LONG_HORIZON", "MEDIUM_HORIZON", "SHORT_HORIZON">>, m.horizon, "UNKNOWN")

ApplyIrreversibility(d, m) ==
    LET reversibility == ClassifyReversibility(m)
        horizon == ClassifyHorizon(m)
    IN [d EXCEPT !.reversibility = reversibility, !.horizon = horizon,
                 !.unknowns = @ \cup If(reversibility # "COSTLY_REVERSIBLE", "REVERSIBILITY")
                                \cup If(horizon # "MEDIUM_HORIZON", "HORIZON")]

ClassifyScope(m) ==
    FirstOf(<<"SYSTEMIC_PUBLIC", "THIRD_PARTY", "SHARED", "SELF_ONLY">>, m.scope, "UNKNOWN")

ApplyScope(d, m) ==
    LET scope == ClassifyScope(m)
    IN [d EXCEPT !.scope = scope,
                 !.unknowns = @ \cup If(scope \in {"SELF_ONLY", "UNKNOWN"}, "RESPONSIBILITY_SCOPE")
                                \cup If(scope = "SYSTEMIC_PUBLIC" /\ d.horizon = "SHORT_HORIZON",
                                        "HORIZON")]

OutcomeOf ==
    [FINANCIAL |-> "FINANCIAL_OUTCOME", LEGAL_REGULATORY |-> "LEGAL_REGULATORY_OUTCOME",
     MEDICAL_BIOLOGICAL |-> "MEDICAL_BIOLOGICAL_OUTCOME",
     PHYSICAL_SAFETY |-> "PHYSICAL_SAFETY_OUTCOME",
     PSYCHOLOGICAL_EMOTIONAL |-> "PSYCHOLOGICAL_EMOTIONAL_OUTCOME",
     ETHICAL_MORAL |-> "ETHICAL_MORAL_OUTCOME",
     REPUTATIONAL_SOCIAL |-> "REPUTATIONAL_SOCIAL_OUTCOME",
     OPERATIONAL_SYSTEMIC |-> "OPERATIONAL_SYSTEM_OUTCOME",
     IRREVERSIBLE_PERSONAL_HARM |-> "IRREVERSIBLE_PERSONAL_HARM_OUTCOME",
     LEGAL_ADJACENT_GRAY_ZONE |-> "LEGAL_REGULATORY_OUTCOME",
     UNKNOWN |-> "UNKNOWN_OUTCOME_CLASS"]

OutcomesOfState(d) ==
    {OutcomeOf[r.domain] : r \in d.risks}
    \cup (CASE d.scope = "SYSTEMIC_PUBLIC" ->
                    {"REPUTATIONAL_SOCIAL_OUTCOME", "OPERATIONAL_SYSTEM_OUTCOME"}
            [] d.scope \in {"THIRD_PARTY", "SHARED"} -> {"ETHICAL_MORAL_OUTCOME"}
            [] OTHER -> {})
    \cup If(d.horizon = "LONG_HORIZON" \/ d.reversibility = "IRREVERSIBLE",
            "IRREVERSIBLE_PERSONAL_HARM_OUTCOME")

ApplyOutcomes(d, m) ==
    LET found == m.outcomes \cup OutcomesOfState(d)
        outcomes == IF found = {} THEN {"UNKNOWN_OUTCOME_CLASS"} ELSE found
    IN [d EXCEPT !.outcomes = outcomes,
                 !.unknowns = @ \cup If("UNKNOWN_OUTCOME_CLASS" \in outcomes, "OUTCOME_CLASSES")]

ConsolidateUnknowns(d) == [d EXCEPT !.unknowns = @ \cup RequiredUnknowns(d)]

\* Cross-field checks: legal and medical risks come with their outcome or a declared unknown.
Coherent(d) ==
    /\ RequiredUnknowns(d) \subseteq d.unknowns
    /\ \A r \in d.risks :
        r.domain \in {"LEGAL_REGULATORY", "LEGAL_ADJACENT_GRAY_ZONE", "MEDICAL_BIOLOGICAL"}
            => OutcomeOf[r.domain] \in d.outcomes \/ "OUTCOME_CLASSES" \in d.unknowns

-----------------------------------------------------------------------------
(* Assembly: the steps in their order, each of which must leave a state the  *)
(* schema accepts.                                                           *)

AssemblySteps(m) ==
    LET s1 == ApplyProximity(Baseline, m)
        s2 == ApplyRisks(s1, m)
        s3 == ApplyIrreversibility(s2, m)
        s4 == ApplyScope(s3, m)
        s5 == ApplyOutcomes(s4, m)
    IN <<s1, s2, s3, s4, s5, ConsolidateUnknowns(s5)>>

AssembleDecisionState(m) == AssemblySteps(m)[6]

DecisionFails(m) ==
    \/ ~ProximityAllowed(Baseline, ClassifyProximity(m))
    \/ \E k \in 1..6 : ~WellFormed(AssemblySteps(m)[k])
    \/ ~Coherent(AssembleDecisionState(m))

-----------------------------------------------------------------------------
(* What the later rules ask of a decision state.                             *)

CriticalDomains == {"LEGAL_REGULATORY", "MEDICAL_BIOLOGICAL", "PHYSICAL_SAFETY"}

HasCriticalDomain(d, least) ==
    \E r \in d.risks : /\ r.domain \in CriticalDomains
                       /\ RankIn(ConfidenceOrder, r.confidence) >= RankIn(ConfidenceOrder, least)

CriticalLow(d) == HasCriticalDomain(d, "LOW")
CriticalMedium(d) == HasCriticalDomain(d, "MEDIUM")
Unknowns(d) == d.unknowns # {}
Irreversible(d) == d.reversibility = "IRREVERSIBLE"
LongHorizon(d) == d.horizon = "LONG_HORIZON"
OthersInvolved(d) == d.scope \in {"THIRD_PARTY", "SYSTEMIC_PUBLIC"}
Systemic(d) == d.scope = "SYSTEMIC_PUBLIC"
Remote(d) == d.proximity \in {"VERY_LOW", "LOW"}
Near(d) == d.proximity \in {"HIGH", "IMMINENT"}
Elevated(d) == d.proximity \in {"MEDIUM", "HIGH", "IMMINENT"}
HighStakes(d) == CriticalMedium(d) \/ Irreversible(d) \/ LongHorizon(d) \/ OthersInvolved(d)
=============================================================================

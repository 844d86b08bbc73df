--------------------------- MODULE ModelPipeline ---------------------------
(***************************************************************************)
(* render_governed_response: one message through the three assemblies, the  *)
(* expression model behind app/llm_client.py, the verifier and the fallback  *)
(* (backend/mci_backend).  The call is synchronous: each action is a stage.  *)
(*                                                                         *)
(* A reply of the provider is what came back over HTTP, the form of its      *)
(* text, whether that text passes the schema of the planned action, and the  *)
(* marks the checks look for in it:                                          *)
(*   blank, long     no text at all; more than 6000 characters               *)
(*   claims          a guard pattern or a strong-modality word, anywhere     *)
(*   phrase          a forbidden phrase in the part that is shown            *)
(*   discloses       a word that discloses an unknown in that part           *)
(*   asks, several   a question mark; phrasing of several questions          *)
(*   other           a refusal category that is not the plan's               *)
(*   empty           nothing is left of that part when it is sanitised       *)
(***************************************************************************)
EXTENDS ExpressionRules

CONSTANTS Messages, Replies, Nothing

Marks == {"blank", "long", "claims", "phrase", "discloses", "asks", "several", "other", "empty"}

\* A message also may hold a term reserved to the prompt, or be too long for the adapter.
ASSUME PipelineInputs ==
    /\ \A m \in Messages : MarkersFound(m) /\ m.reserved \in BOOLEAN /\ m.long \in BOOLEAN
    /\ \A m \in Messages : m.ending \in {"strong", "refusal", "weak", "none"}
    /\ \A r \in Replies : /\ r.http \in {"answered", "timeout", "error", "malformed"}
                          /\ r.form \in {"plain", "array", "object"}
                          /\ r.fits \in BOOLEAN /\ r.marks \subseteq Marks

ASSUME NothingIsNone ==
    Nothing \notin Messages \cup Replies \cup DecisionState \cup ControlPlan \cup OutputPlan

VARIABLES
    configured,     \* an endpoint and a key are set
    stage,
    message, decision, control, output,
    reply,          \* what the provider sent
    result          \* the ModelInvocationResult, as far as it is made

callVars == <<configured, stage, message, decision, control, output, reply, result>>

FailureCode ==
    {"NONE", "TIMEOUT", "PROVIDER_ERROR", "NON_JSON", "SCHEMA_MISMATCH",
     "CONTRACT_VIOLATION", "FORBIDDEN_CONTENT", "DECISION_ASSEMBLY_FAILED",
     "CONTROL_PLAN_ASSEMBLY_FAILED", "OUTPUT_PLAN_ASSEMBLY_FAILED", "REQUEST_BUILD_FAILED"}

Failed(code) == [ok |-> FALSE, kind |-> "none", source |-> "none", code |-> code]
Delivered(kind, source) == [ok |-> TRUE, kind |-> kind, source |-> source, code |-> "NONE"]

ModelInvocationResult ==
    [ok : BOOLEAN, kind : {"none", "text", "empty_text", "json"},
     source : {"none", "model", "fallback"}, code : FailureCode]

Stage == {"idle", "received", "decided", "controlled", "planned", "asked", "replied",
          "refused", "done", "raised"}

CallTypeOK ==
    /\ configured \in BOOLEAN
    /\ stage \in Stage
    /\ message \in Messages \cup {Nothing}
    /\ decision \in DecisionState \cup {Nothing}
    /\ control \in ControlPlan \cup {Nothing}
    /\ output \in OutputPlan \cup {Nothing}
    /\ reply \in Replies \cup {Nothing}
    /\ result \in ModelInvocationResult \cup {Nothing}

Idle(s) ==
    /\ stage = s
    /\ message = Nothing /\ decision = Nothing /\ control = Nothing /\ output = Nothing
    /\ reply = Nothing /\ result = Nothing

CallInit == configured \in BOOLEAN /\ Idle("idle")

Finish(code) == stage' = "done" /\ result' = Failed(code)

-----------------------------------------------------------------------------
(* The stages before the model.                                              *)

Receive(m) ==
    /\ stage = "idle"
    /\ stage' = "received" /\ message' = m
    /\ UNCHANGED <<configured, decision, control, output, reply, result>>

\* The assemblies are functions of the message: Nothing where one raises.
DecisionOf ==
    [m \in Messages |-> IF DecisionFails(m) THEN Nothing ELSE AssembleDecisionState(m)]

ControlOf ==
    [m \in Messages |->
        LET d == DecisionOf[m]
        IN IF d = Nothing \/ ControlPlanFails(m, d) THEN Nothing ELSE AssembleControlPlan(m, d)]

OutputOf ==
    [m \in Messages |->
        LET d == DecisionOf[m]
            p == ControlOf[m]
        IN IF p = Nothing \/ OutputPlanFails(d, p) THEN Nothing ELSE AssembleOutputPlan(d, p)]

\* Go on with what an assembly made, or end with its failure.
Proceed(made, next, code) ==
    IF made # Nothing THEN stage' = next /\ UNCHANGED result ELSE Finish(code)

AssembleDecision ==
    /\ stage = "received"
    /\ decision' = DecisionOf[message]
    /\ Proceed(decision', "decided", "DECISION_ASSEMBLY_FAILED")
    /\ UNCHANGED <<configured, message, control, output, reply>>

AssembleControl ==
    /\ stage = "decided"
    /\ control' = ControlOf[message]
    /\ Proceed(control', "controlled", "CONTROL_PLAN_ASSEMBLY_FAILED")
    /\ UNCHANGED <<configured, message, decision, output, reply>>

AssembleOutput ==
    /\ stage = "controlled"
    /\ output' = OutputOf[message]
    /\ Proceed(output', "planned", "OUTPUT_PLAN_ASSEMBLY_FAILED")
    /\ UNCHANGED <<configured, message, decision, control, reply>>

\* The envelope holds the user's text: a reserved term in it refuses the request.  The
\* client is made outside the try of invoke_model, and its RuntimeError is not caught.
BuildRequest ==
    /\ stage = "planned"
    /\ UNCHANGED <<configured, message, decision, control, output, reply>>
    /\ IF message.reserved THEN Finish("REQUEST_BUILD_FAILED")
       ELSE /\ stage' = IF configured THEN "asked" ELSE "raised"
            /\ UNCHANGED result

-----------------------------------------------------------------------------
(* The model, through call_expression_model.                                 *)

OutputFormat(o) == IF o.action = "ASK_ONE_QUESTION" THEN "json" ELSE "text"

\* Deviation: a failed dependency keeps the name of its violation class.
ExpressionFailureUnmapped(m, r) ==
    IF r.http = "error" THEN "EXTERNAL_DEPENDENCY_FAILURE" ELSE "NONE"

\* validate_expression_output, as invoke_model maps what it raises.
TextFailure(r) ==
    IF r.marks \cap {"blank", "long"} # {} THEN "SCHEMA_MISMATCH"
    ELSE IF "claims" \in r.marks THEN "CONTRACT_VIOLATION" ELSE "NONE"

\* enforce_pre_call refuses a long message before _post sends anything.
ExpressionFailure(m, r) ==
    CASE m.long -> "CONTRACT_VIOLATION"
      [] ~m.long /\ r.http = "timeout" -> "TIMEOUT"
      [] ~m.long /\ r.http = "error" -> "PROVIDER_ERROR"
      [] ~m.long /\ r.http = "malformed" -> "SCHEMA_MISMATCH"
      [] OTHER -> TextFailure(r)

InvocationFailure(m, o, r) ==
    IF ExpressionFailure(m, r) # "NONE" THEN ExpressionFailure(m, r)
    ELSE IF OutputFormat(o) = "text" \/ r.form = "object" THEN "NONE"
    ELSE IF r.form = "plain" THEN "NON_JSON" ELSE "SCHEMA_MISMATCH"

InvokeModel(r) ==
    /\ stage = "asked"
    /\ reply' = r
    /\ LET code == InvocationFailure(message, output, r)
       IN IF code = "NONE" THEN stage' = "replied" /\ UNCHANGED result
          ELSE stage' = "refused" /\ result' = Failed(code)
    /\ UNCHANGED <<configured, message, decision, control, output>>

-----------------------------------------------------------------------------
(* The verifier.  A text that is not a JSON object is taken as it is.        *)

Discloses(o, r) == o.disclosure # "NONE" => "discloses" \in r.marks

PlainFailure(o, r) ==
    IF "empty" \in r.marks THEN "SCHEMA_MISMATCH"
    ELSE IF "phrase" \in r.marks THEN "FORBIDDEN_CONTENT"
    ELSE IF \/ o.action = "ANSWER" /\ ~Discloses(o, r)
            \/ o.action = "CLOSE" /\ "asks" \in r.marks
         THEN "CONTRACT_VIOLATION" ELSE "NONE"

\* Deviation: an answer in JSON may disclose in its list of unknowns instead.
ActionFailureListed(d, o, r) ==
    o.action = "CLOSE" /\ "asks" \in r.marks

ActionFailure(d, o, r) ==
    CASE o.action = "ANSWER" -> ~Discloses(o, r) \/ (o.disclosure = "NONE" /\ Unknowns(d))
      [] o.action = "ASK_ONE_QUESTION" -> "several" \in r.marks
      [] o.action = "REFUSE" -> "other" \in r.marks
      [] o.action = "CLOSE" -> "asks" \in r.marks

ObjectFailure(d, o, r) ==
    IF ~r.fits THEN "SCHEMA_MISMATCH"
    ELSE IF "phrase" \in r.marks THEN "FORBIDDEN_CONTENT"
    ELSE IF ActionFailure(d, o, r) THEN "CONTRACT_VIOLATION" ELSE "NONE"

VerifyFailure(d, o, r) ==
    IF r.form = "object" THEN ObjectFailure(d, o, r) ELSE PlainFailure(o, r)

VerifyOutput ==
    /\ stage = "replied"
    /\ LET code == VerifyFailure(decision, output, reply)
       IN IF code = "NONE"
          THEN /\ stage' = "done"
               /\ result' = Delivered(IF OutputFormat(output) = "json" THEN "json"
                                      ELSE IF "empty" \in reply.marks THEN "empty_text"
                                      ELSE "text", "model")
          ELSE stage' = "refused" /\ result' = Failed(code)
    /\ UNCHANGED <<configured, message, decision, control, output, reply>>

-----------------------------------------------------------------------------
(* The fallback, and the end of the call.                                    *)

\* The question of a plan that has none, and a category without a template, cannot be met.
FallbackKind(o) ==
    IF o.action = "ASK_ONE_QUESTION" THEN "json"
    ELSE IF o.action = "CLOSE" /\ o.rendering = "SILENCE" THEN "empty_text" ELSE "text"

Fallback ==
    /\ stage = "refused"
    /\ stage' = "done"
    /\ result' = Delivered(FallbackKind(output), "fallback")
    /\ UNCHANGED <<configured, message, decision, control, output, reply>>

Return ==
    /\ stage \in {"done", "raised"}
    /\ stage' = "idle"
    /\ message' = Nothing /\ decision' = Nothing /\ control' = Nothing /\ output' = Nothing
    /\ reply' = Nothing /\ result' = Nothing
    /\ UNCHANGED configured

CallStep ==
    \/ \E m \in Messages : Receive(m)
    \/ AssembleDecision \/ AssembleControl \/ AssembleOutput \/ BuildRequest
    \/ \E r \in Replies : InvokeModel(r)
    \/ VerifyOutput \/ Fallback \/ Return

CallSpec == CallInit /\ [][CallStep]_callVars

-----------------------------------------------------------------------------
(* Properties.                                                               *)

Answered == stage = "done" /\ result.ok
MarkedRisks(m) == {r[1] : r \in m.risks}

\* The rules of three layers together: a message that gets an answer is one whose text
\* names nothing near, irreversible or critical and ends nothing, whatever any of the
\* selectors did on the way.
AnswersOnlyLowStakes ==
    (Answered /\ output.action = "ANSWER") =>
        /\ message.proximity \cap {"MEDIUM", "HIGH", "IMMINENT"} = {}
        /\ MarkedRisks(message) \cap CriticalDomains = {}
        /\ "IRREVERSIBLE" \notin message.reversibility
        /\ message.ending \in {"none", "weak"}

\* No message breaks the first two assemblies: what the rules choose agrees with the many
\* invariants that are checked of it.  The third refuses the plans of ENFORCED rigor, and
\* only those: the selectors of the expression layer never contradict one another.
FailsOnlyWhenEnforced ==
    /\ stage = "done" =>
        result.code \notin {"DECISION_ASSEMBLY_FAILED", "CONTROL_PLAN_ASSEMBLY_FAILED"}
    /\ stage = "done" /\ result.code = "OUTPUT_PLAN_ASSEMBLY_FAILED" => control.rigor = "ENFORCED"
    /\ output # Nothing => control.rigor # "ENFORCED"

\* Whatever form the model's text came in, what is delivered of it made no claim, holds no
\* forbidden phrase and, when the decision state has unknowns, an answer says so.
VerifiedDiscloses ==
    (Answered /\ result.source = "model") =>
        /\ reply.marks \cap {"claims", "phrase", "blank", "long"} = {}
        /\ output.action = "ANSWER" /\ Unknowns(decision) => "discloses" \in reply.marks
        /\ output.action = "ANSWER" /\ Unknowns(decision) => output.disclosure # "NONE"

\* docs/PHASE11_STEP8_ASSEMBLY_VALIDATION.md:24: a plan that requires a refusal becomes the
\* action REFUSE.  Whoever required one gets a refusal, or the closure they asked for.
RefusalDelivered ==
    (stage = "done" /\ control # Nothing /\ control.refusal # "NONE" /\ control.closure = "OPEN")
        => output # Nothing /\ output.action = "REFUSE"

=============================================================================

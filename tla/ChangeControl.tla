--------------------------- MODULE ChangeControl ----------------------------
(* governance/change_control.py: a change of a policy pack, of a tenant's      *)
(* caps and so on is checked for its version bump and its actor's role, then   *)
(* audited, then allowed.  The decision is the answer: nothing else is stored. *)
EXTENDS AuditLog

CONSTANTS
    Requests,    \* the change requests a client can make, and their tenants
    OtherCores,  \* the contents other callers of record_audit_event record
    Versions,    \* parsed versions, triples of naturals
    NoDecision   \* no change has been decided since the last other event

ChangeTypes == {"POLICY_PACK", "TENANT_CAPS", "RETENTION_POLICY", "EXPORT_POLICY",
                "GOVERNANCE_CONTRACT"}

\* A string _parse_version gives up on.
NoVersion == <<>>

\* tenant: whether the tenant's configuration can be read at all (one that does
\* not validate still authorises, with minimal caps); shaped: whether tenant_id
\* and diff_hash are strings.
RequestType == [clock : Clocks \cup {"missing"}, type : ChangeTypes \cup {"unknown"},
                from : Versions \cup {NoVersion}, to : Versions \cup {NoVersion},
                role : {"OWNER", "ADMIN", "AUDITOR", "DEVELOPER", "BILLING", "unknown"},
                tenant : BOOLEAN, shaped : BOOLEAN]

ASSUME VersionsAreTriples == Versions \subseteq Nat \X Nat \X Nat
ASSUME RequestsAreTyped == Requests \subseteq RequestType
ASSUME CoresAreTyped == ChangeTypes \subseteq Metas /\ OtherCores \subseteq Core

VARIABLE last    \* the last decision, with what it answers

vars == <<log, recorded, last>>

Reasons == {"OK", "INVALID_REQUEST", "VERSION_NOT_BUMPED", "ROLE_NOT_ALLOWED",
            "INTERNAL_INCONSISTENCY"}

\* store: what became of the audit log; a refusal has not touched it.
ChangeDecision == [req : Requests, store : Stores, reason : Reasons, receipt : Signatures]

ASSUME NoDecisionIsNone == NoDecision \notin ChangeDecision

-----------------------------------------------------------------------------
(* Versions: 3, 2 and 1 are a major, a minor and a patch bump, 0 is none. *)

Less(v, w) ==
    \/ v[1] < w[1]
    \/ v[1] = w[1] /\ v[2] < w[2]
    \/ v[1] = w[1] /\ v[2] = w[2] /\ v[3] < w[3]

\* Deviation: the components are compared without asking first whether the
\* version as a whole has grown.
BumpByParts(from, to) ==
    IF from = NoVersion \/ to = NoVersion THEN 0
    ELSE IF to[1] > from[1] THEN 3
    ELSE IF to[2] > from[2] THEN 2
    ELSE IF to[3] > from[3] THEN 1 ELSE 0

Bump(from, to) ==
    IF from = NoVersion \/ to = NoVersion \/ ~Less(from, to) THEN 0
    ELSE IF to[1] > from[1] THEN 3
    ELSE IF to[2] > from[2] THEN 2 ELSE 1

MinBump(type) == IF type \in {"POLICY_PACK", "EXPORT_POLICY"} THEN 2 ELSE 1

Bumped(req) == Bump(req.from, req.to) >= MinBump(req.type)

-----------------------------------------------------------------------------
(* Roles *)

OperationFor(type) ==
    CASE type = "TENANT_CAPS" -> "CHANGE_TENANT_CONFIG"
      [] type = "RETENTION_POLICY" -> "CHANGE_RETENTION"
      [] OTHER -> "CHANGE_POLICY_PACK"

Permissions(role) ==
    CASE role = "OWNER" ->
            {"ENABLE_TOOL", "DISABLE_TOOL", "CHANGE_RETENTION", "REQUEST_EXPORT",
             "VIEW_AUDIT_SUMMARY", "CHANGE_TENANT_CONFIG", "CHANGE_POLICY_PACK"}
      [] role = "ADMIN" ->
            {"ENABLE_TOOL", "DISABLE_TOOL", "CHANGE_RETENTION", "REQUEST_EXPORT",
             "VIEW_AUDIT_SUMMARY"}
      [] role = "AUDITOR" -> {"VIEW_AUDIT_SUMMARY", "REQUEST_EXPORT"}
      [] role = "DEVELOPER" -> {"VIEW_AUDIT_SUMMARY"}
      [] role = "BILLING" -> {"REQUEST_EXPORT"}
      [] OTHER -> {}

\* The role, then the tenant's configuration: whatever fails reads as a role
\* that is not allowed.
Authorized(req) == OperationFor(req.type) \in Permissions(req.role) /\ req.tenant

-----------------------------------------------------------------------------
\* The checks of apply_change_control before the audit, in its order.
Verdict(req) ==
    IF req.clock = "missing" \/ req.type = "unknown" THEN "INVALID_REQUEST"
    ELSE IF ~Bumped(req) THEN "VERSION_NOT_BUMPED"
    ELSE IF ~Authorized(req) THEN "ROLE_NOT_ALLOWED"
    ELSE IF ~req.shaped THEN "INTERNAL_INCONSISTENCY"
    ELSE "OK"

\* Deviation: the event carries the reason where the decision belongs.
ChangeCoreByReason(req) == [decision |-> Verdict(req), meta |-> req.type]

\* What is recorded of an allowed change.  The event names the type of the
\* change; the dots of its versions make the audit redact them.
ChangeCore(req) == [decision |-> "ALLOW", meta |-> req.type]

-----------------------------------------------------------------------------
Init ==
    /\ log = <<>>
    /\ recorded = <<>>
    /\ last = NoDecision

Refuse(req) ==
    /\ Verdict(req) # "OK"
    /\ last' = [req |-> req, store |-> "up", reason |-> Verdict(req), receipt |-> <<>>]
    /\ UNCHANGED auditVars

\* record_audit_event raises nothing, so no outcome of the audit refuses a change.
Allow(req, store) ==
    /\ Verdict(req) = "OK"
    /\ Len(log) < MaxEvents
    /\ Recorded(ChangeCore(req), req.clock, store)
    /\ last' = [req |-> req, store |-> store, reason |-> "OK",
                receipt |-> Receipt(ChangeCore(req), req.clock, store)]

OtherEvent ==
    /\ \E core \in OtherCores, clock \in Clocks, store \in Stores : Record(core, clock, store)
    /\ last' = NoDecision

AlteredEvent ==
    /\ \E i \in DOMAIN log, meta \in Edits : Alter(i, meta)
    /\ last' = NoDecision

Next ==
    \/ \E req \in Requests : Refuse(req) \/ \E store \in Stores : Allow(req, store)
    \/ OtherEvent
    \/ AlteredEvent

Spec == Init /\ [][Next]_vars

-----------------------------------------------------------------------------
(* Properties *)

\* The type invariant.
TypeOK ==
    /\ log \in Seq(Events)
    /\ recorded \in Seq(Core)
    /\ last \in ChangeDecision \cup {NoDecision}

\* verify_chain (audit.py:401) names the first event whose content is not what
\* was appended, whatever was appended after the change and in every order of
\* recording, failed recording and change; it finds the chain intact when none is.
VerifyFindsFirstEdit ==
    VerifyChain = FirstIndex({i \in DOMAIN log : log[i].core # recorded[i]})

\* The signature an allowed change is answered with names one event of a working
\* log, the last: two changes that look alike to the audit have distinct receipts.
ReceiptNamesItsEvent ==
    last # NoDecision /\ last.reason = "OK" /\ last.store = "up" =>
        {i \in DOMAIN log : log[i].sig = last.receipt} = {Len(log)}

\* What a bump of at least the required level means: the components down to that
\* level, read as one number, have grown; those below do not count.
GrownAtLevel(type, v, w) ==
    \/ v[1] < w[1]
    \/ v[1] = w[1] /\ v[2] < w[2]
    \/ MinBump(type) = 1 /\ v[1] = w[1] /\ v[2] = w[2] /\ v[3] < w[3]

\* A change is allowed only from a lower version, lower already at the level its
\* type must bump (change_control.py:162-205), and refused for its versions only
\* when it is not, so a downgrade never passes as a bump of a lower component.
BumpIsEnough ==
    last # NoDecision =>
        LET grown == /\ last.req.from # NoVersion
                     /\ last.req.to # NoVersion
                     /\ GrownAtLevel(last.req.type, last.req.from, last.req.to)
        IN  /\ last.reason = "OK" => grown
            /\ last.reason = "VERSION_NOT_BUMPED" => ~grown

\* What change_control.py:439 says, that it fails closed if the audit write fails:
\* an allowed change has its event, an ALLOW, in the log.
AllowedIsRecorded ==
    last # NoDecision /\ last.reason = "OK" =>
        \E i \in DOMAIN log :
            log[i].sig = last.receipt /\ log[i].core.decision = "ALLOW"
=============================================================================

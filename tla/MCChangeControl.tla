-------------------------- MODULE MCChangeControl ---------------------------
(* Values for checking ChangeControl: every pair of four versions and of no     *)
(* version for two types of change with different bumps, every type and role    *)
(* with one good bump, and each way of spoiling a good request.                 *)
EXTENDS ChangeControl

FewVersions == {<<1, 0, 0>>, <<1, 0, 1>>, <<1, 1, 0>>, <<0, 2, 1>>}

Good == [clock |-> "good", type |-> "POLICY_PACK", from |-> <<1, 0, 0>>,
         to |-> <<1, 1, 0>>, role |-> "OWNER", tenant |-> TRUE, shaped |-> TRUE]

FewRequests ==
    {[Good EXCEPT !.type = t, !.from = v, !.to = w] :
        t \in {"POLICY_PACK", "RETENTION_POLICY"},
        v \in FewVersions \cup {NoVersion}, w \in FewVersions \cup {NoVersion}}
    \cup {[Good EXCEPT !.type = t, !.role = r] :
        t \in ChangeTypes, r \in {"OWNER", "ADMIN"}}
    \cup {[Good EXCEPT !.clock = c] : c \in {"odd", "missing"}}
    \cup {[Good EXCEPT !.type = "unknown"], [Good EXCEPT !.tenant = FALSE],
          [Good EXCEPT !.shaped = FALSE]}
    \cup {[Good EXCEPT !.role = r] : r \in {"AUDITOR", "unknown"}}

FewMetas == ChangeTypes \cup {"tool_call"}
ToolCalls == {[decision |-> "ALLOW", meta |-> "tool_call"]}
=============================================================================

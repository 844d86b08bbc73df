-------------------------- MODULE MCModelPipeline ---------------------------
(* Messages and replies for checking ModelPipeline. *)
EXTENDS ModelPipeline

Message(proximity, risks, reversibility, horizon, scope, ending) ==
    [proximity |-> proximity, risks |-> risks, reversibility |-> reversibility,
     horizon |-> horizon, scope |-> scope, outcomes |-> {}, ending |-> ending,
     reserved |-> FALSE, long |-> FALSE]

Plain == Message({}, {}, {}, {}, {}, "none")

\* Every level of each classifier, and for the sets two marks at once where they compete.
Proximities == {{}, {"LOW"}, {"MEDIUM"}, {"HIGH"}, {"IMMINENT"}, {"LOW", "HIGH"}}
Risks == {{}, {<<"FINANCIAL", "HIGH">>}, {<<"LEGAL_REGULATORY", "MEDIUM">>},
          {<<"PHYSICAL_SAFETY", "HIGH">>, <<"PHYSICAL_SAFETY", "MEDIUM">>}}
Reversals == {{}, {"COSTLY_REVERSIBLE"}, {"IRREVERSIBLE", "EASILY_REVERSIBLE"}}
Horizons == {{"MEDIUM_HORIZON"}, {"LONG_HORIZON"}}
Scopes == {{}, {"SELF_ONLY"}, {"THIRD_PARTY"}, {"SYSTEMIC_PUBLIC", "SELF_ONLY"}}
Endings == {"none", "weak", "refusal", "strong"}

FewMessages ==
    {Message(p, r, v, h, s, e) :
        p \in Proximities, r \in Risks, v \in Reversals, h \in Horizons, s \in Scopes, e \in Endings}
    \cup {[Plain EXCEPT !.reserved = TRUE], [Plain EXCEPT !.long = TRUE]}

Reply(form, fits, marks) == [http |-> "answered", form |-> form, fits |-> fits, marks |-> marks]

FewReplies ==
    {[Reply("plain", FALSE, {}) EXCEPT !.http = h] : h \in {"timeout", "error", "malformed"}}
    \cup {Reply("plain", FALSE, marks) :
            marks \in {{"blank"}, {"discloses", "claims"}, {"discloses", "phrase"}, {},
                       {"discloses"}, {"discloses", "asks"}, {"empty"}}}
    \cup {Reply("object", TRUE, marks) :
            marks \in {{}, {"discloses"}, {"asks"}, {"discloses", "phrase"}, {"asks", "several"}, {"empty"}}}
    \cup {Reply("object", FALSE, {"discloses"}), Reply("array", FALSE, {"discloses"})}
=============================================================================

----------------------------- MODULE MemoryRead -----------------------------
(***************************************************************************)
(* read_memory_bundle (app/memory/read.py): what a caller is shown of the   *)
(* facts the store lists.  The store has cut its list by its own order      *)
(* before; the read selects, drops texts it holds unsafe, and cuts again by *)
(* another order: per category, in number and in characters.                *)
(*                                                                         *)
(* A fact also has a key, its place in the order of reads (_compute_sort_key *)
(* with the hash that ends it), its cost in characters, and whether a        *)
(* pattern of the read forbids its text.                                    *)
(***************************************************************************)
EXTENDS MemoryStore, FiniteSetsExt

CONSTANTS
    Reads,      \* [template, categories, keys, facts, perCategory, chars]
    MAX_FACTS_HARD_LIMIT, MAX_PER_CATEGORY_HARD_LIMIT, MAX_TOTAL_CHARS_HARD_LIMIT

\* A template is the set of categories it stands for; a list that is not there is empty.
\* Where facts are read they have a place, a cost and a text.
ASSUME ReadSettings ==
    /\ \A q \in Reads : {q.facts, q.perCategory, q.chars} \subseteq Nat
    /\ Reads # {} =>
          /\ \A f \in Facts : f.place \in Nat /\ f.chars \in Nat \ {0} /\ f.quoted \in BOOLEAN
          /\ \A f, g \in Facts : f.place = g.place => f = g

IsValid(q) ==
    /\ q.facts \in 1..MAX_FACTS_HARD_LIMIT
    /\ q.perCategory \in 1..MAX_PER_CATEGORY_HARD_LIMIT
    /\ q.chars \in 1..MAX_TOTAL_CHARS_HARD_LIMIT
    /\ q.template \cup q.categories # {}
    /\ q.keys # {} => q.categories # {}

\* _select_candidates_by_request, of a set of facts.
SelectCandidates(facts, q) ==
    {f \in facts : /\ f.category \in q.template \cup q.categories
                   /\ q.keys # {} => f.key \in q.keys}

Before(facts, f) == {g \in facts : g.place < f.place}

FirstFacts(facts, n) == {f \in facts : Cardinality(Before(facts, f)) < n}

OfCategory(facts, c) == {f \in facts : f.category = c}

TotalChars(facts) == MapThenSumSet(LAMBDA f : f.chars, facts)

\* Deviation: a fact that does not fit is passed over, and those after it are tried.
SkipsTheLong(facts, chars) ==
    LET fit == {f \in facts : TotalChars(Before(facts, f) \cup {f}) <= chars}
    IN  {f \in facts : TotalChars((Before(facts, f) \cap fit) \cup {f}) <= chars}

\* The list is cut before the first fact that does not fit.
WithinChars(facts, chars) == {f \in facts : TotalChars(Before(facts, f) \cup {f}) <= chars}

\* _apply_caps_and_select.
ApplyCaps(facts, q) ==
    LET limited == {f \in facts : f \in FirstFacts(OfCategory(facts, f.category), q.perCategory)}
    IN WithinChars(FirstFacts(limited, q.facts), q.chars)

MemoryBundle(facts, reason) == [facts |-> facts, reason |-> reason]

\* The answer to q, of the facts the store lists.
read_memory_bundle(listed, q) ==
    LET candidates == SelectCandidates(listed, q)
        safe == {f \in candidates : ~f.quoted}
        selected == ApplyCaps(safe, q)
    IN  IF ~IsValid(q) THEN MemoryBundle({}, "REQUEST_INVALID")
        ELSE IF candidates = {} THEN MemoryBundle({}, "NO_MATCH")
        ELSE IF safe = {} THEN MemoryBundle({}, "ALL_SKIPPED_UNSAFE")
        ELSE MemoryBundle(selected, IF selected = safe THEN "OK" ELSE "CAPPED")

-----------------------------------------------------------------------------
\* Whatever the two orders make of the facts in force, a reader gets the best of what
\* it may see: a better one that it asked for, and that is safe to show, is left out
\* for a worse one only where the store's caps dropped it, or its category is full of
\* better ones; a bundle that says OK leaves nothing of the view out.
ReadersKeepTheBest ==
    LET v == Replay(log)
        active == Active(v, now)
        unseen == Dropped(log, now)
        factsOf(ids) == {v.facts[id].fact : id \in ids}
        inForce == factsOf(active)
        dropped == factsOf(unseen)
        listed == factsOf(active \ unseen)
    IN
    /\ CapsKeepTheBest
    /\ \A q \in Reads :
          LET bundle == read_memory_bundle(listed, q)
              asked == {f \in SelectCandidates(inForce, q) : ~f.quoted}
          IN  /\ bundle.facts \subseteq asked
              /\ Cardinality(bundle.facts) <= q.facts /\ TotalChars(bundle.facts) <= q.chars
              /\ \A f \in asked \ (bundle.facts \cup dropped), g \in bundle.facts :
                    f.place < g.place =>
                      Cardinality(Before(OfCategory(bundle.facts, f.category), f)) = q.perCategory
              /\ bundle.reason = "OK" => asked \subseteq bundle.facts \cup dropped
=============================================================================

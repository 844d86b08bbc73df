--------------------------- MODULE ResearchRules ---------------------------
(***************************************************************************)
(* From what the tools return to the citations of an answer: the adapter,    *)
(* the sanitiser, the removal of duplicates, the grades and the binder       *)
(* (app/retrieval, app/research).  All of it is functions of its input.       *)
(*                                                                         *)
(* A text is a set of chunks, each with its words and a mark: "removed" for   *)
(* what lies in an injection segment, "imperative" for a chunk with one of    *)
(* the listed verbs, "plain".  A source has a page (its canonical URL), the   *)
(* words its domain name contains, the class of the domain, the age in days   *)
(* of its date (-1 without one), and a rank that stands for its hash.         *)
(***************************************************************************)
EXTENDS Integers, FiniteSets, Sequences, Functions

CONSTANTS MaxResults, MaxClaims, MaxCitations

ASSUME ResearchBounds ==
    MaxResults \in 1..10 /\ MaxClaims \in Nat /\ MaxCitations \in Nat \ {0}

DomainScores ==
    [GOV |-> 40, EDU |-> 35, JOURNAL |-> 35, OFFICIAL |-> 30, MAJOR_MEDIA |-> 25,
     UNKNOWN |-> 10, UGC |-> 0]

IsSource(s) ==
    /\ {"page", "domain", "names", "snippets"} \subseteq DOMAIN s
    /\ s.tool \in {"WEB", "DOCS"} /\ s.class \in DOMAIN DomainScores
    /\ {s.rank, s.keys, s.age + 1} \subseteq Nat /\ {s.author, s.stamped} \subseteq BOOLEAN
    /\ \A i \in DOMAIN s.snippets : \A c \in s.snippets[i] :
         c.mark \in {"removed", "imperative", "plain"}

IsClaim(c) == IsFiniteSet(c.words) /\ {c.required, c.clarifiable} \subseteq BOOLEAN

-----------------------------------------------------------------------------
(* The adapter.                                                              *)

\* A raw result needs a URL and a snippet that is a text.
Normalizes(s) == s.page # "none" /\ s.snippets # <<>>

\* Numbers compared left to right, a smaller first one decides.
Precedes(a, b) ==
    \E i \in DOMAIN a : a[i] < b[i] /\ \A j \in 1..(i - 1) : a[j] = b[j]

\* The n places that come before all others.
First(n, places) == {x \in places : Cardinality({y \in places : Precedes(y, x)}) < n}

\* Every tool is asked in turn and a tool that raises adds nothing.  A place is the turn of
\* the tool and the position of the result in what it answered.
Found(tools, scene) ==
    UNION {{<<i, j>> : j \in {j \in DOMAIN scene[tools[i]] : Normalizes(scene[tools[i]][j])}}
             : i \in DOMAIN tools}

\* The list is cut before it is sorted.
Retrieve(tools, scene) ==
    {scene[tools[x[1]]][x[2]] : x \in First(MaxResults, Found(tools, scene))}

-----------------------------------------------------------------------------
(* The sanitiser.                                                            *)

Safe(text) == {c \in text : c.mark # "removed"}
Calm(text) == {c \in Safe(text) : c.mark = "plain"}

\* Deviation: a text with an injection is flagged and kept whole.
SanitizeFlagsOnly(text) == text

\* What is left of a text: its plain chunks, or all its safe ones when none is plain.
Sanitize(text) == IF Calm(text) # {} THEN Calm(text) ELSE Safe(text)

Injected(text) == \E c \in text : c.mark = "removed"

SanitizeBundles(sources) ==
    {[s EXCEPT !.snippets = [i \in DOMAIN s.snippets |-> Sanitize(s.snippets[i])]] : s \in sources}

HadInjection(sources) == \E s \in sources : \E i \in DOMAIN s.snippets : Injected(s.snippets[i])
AllEmpty(sources) == \A s \in sources : \A i \in DOMAIN s.snippets : s.snippets[i] = {}

-----------------------------------------------------------------------------
(* One source per tool and page.                                             *)

TextLength(s) == FoldFunction(LAMBDA text, n : Cardinality(text) + n, 0, s.snippets)

WinnerScore(s) == <<-s.keys, -Len(s.snippets), -TextLength(s), s.rank>>

DedupBundles(sources) ==
    {s \in sources :
        ~\E t \in sources : /\ t.tool = s.tool /\ t.page = s.page
                            /\ Precedes(WinnerScore(t), WinnerScore(s))}

-----------------------------------------------------------------------------
(* The grades.                                                               *)

Freshness(age) ==
    IF age < 0 THEN "unknown" ELSE IF age <= 7 THEN "week" ELSE IF age <= 30 THEN "month"
    ELSE IF age <= 180 THEN "half_year" ELSE IF age <= 730 THEN "two_years" ELSE "older"

FreshnessScores ==
    [week |-> 15, month |-> 12, half_year |-> 8, two_years |-> 4, older |-> 0, unknown |-> 5]

CorroborationBonus(count) ==
    IF count <= 1 THEN 0 ELSE IF count = 2 THEN 5 ELSE IF count = 3 THEN 8 ELSE 10

Words(text) == UNION {c.words : c \in text}
ClaimKey(s) == UNION {Words(s.snippets[i]) : i \in DOMAIN s.snippets}

\* The distinct domains that say the same; sources without a text left say the same too.
Corroboration(s, sources) ==
    Cardinality({t.domain : t \in {t \in sources : ClaimKey(t) = ClaimKey(s)}})

Clamp100(n) == IF n < 0 THEN 0 ELSE IF n > 100 THEN 100 ELSE n

Score(class, age, author, count) ==
    Clamp100(DomainScores[class] + FreshnessScores[Freshness(age)]
             + (IF author THEN 0 ELSE -5)
             + (IF age >= 0 THEN 0 ELSE -5)
             + CorroborationBonus(count))

Grade(score) ==
    IF score >= 80 THEN "A" ELSE IF score >= 65 THEN "B" ELSE IF score >= 50 THEN "C"
    ELSE IF score >= 35 THEN "D" ELSE "E"

Credibility(s, sources) == Score(s.class, s.age, s.author, Corroboration(s, sources))

-----------------------------------------------------------------------------
(* The binder.  An answer is the sequence of its claims.                      *)

\* The claims that count: the required ones first, and no more than MaxClaims.
ExtractClaims(answer) ==
    {answer[x[2]] : x \in First(MaxClaims,
        {<<IF answer[i].required THEN 0 ELSE 1, i>> : i \in DOMAIN answer})}

Overlap(claim, text) == Cardinality(claim.words \cap Words(text))
Supports(claim, s, i) == Overlap(claim, s.snippets[i]) >= 2 \/ claim.words \cap s.names # {}

Candidates(claim, sources) ==
    {x \in {<<s, i>> : s \in sources, i \in 1..5} :
        x[2] \in DOMAIN x[1].snippets /\ Supports(claim, x[1], x[2])}

CitationOrder(claim, x, sources) ==
    <<-Credibility(x[1], sources), -Overlap(claim, x[1].snippets[x[2]]),
      IF x[1].stamped THEN -1 ELSE 0, x[1].rank, x[2]>>

\* The best few candidates, by credibility before anything else.
Citations(claim, sources) ==
    LET candidates == Candidates(claim, sources)
    IN {x \in candidates :
          Cardinality({y \in candidates : Precedes(CitationOrder(claim, y, sources),
                                                   CitationOrder(claim, x, sources))})
            < MaxCitations}

Uncovered(claims, sources) == {c \in claims : c.required /\ Citations(c, sources) = {}}

BinderMode(answer, sources, citationsRequired) ==
    LET claims == ExtractClaims(answer)
        uncovered == Uncovered(claims, sources)
    IN IF claims = {} THEN "UNKNOWN"
       ELSE IF ~citationsRequired \/ uncovered = {} THEN "OK"
       ELSE IF \E c \in uncovered : c.clarifiable THEN "ASK_CLARIFY" ELSE "UNKNOWN"

=============================================================================

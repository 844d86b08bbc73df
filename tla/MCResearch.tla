----------------------------- MODULE MCResearch -----------------------------
(* Tools, sources and answers for checking Research. *)
EXTENDS Research

Text(words, mark) == [words |-> words, mark |-> mark]
Source(rank, tool, page, class, snippets) ==
    [rank |-> rank, tool |-> tool, page |-> page, domain |-> page, class |-> class,
     age |-> -1, author |-> FALSE, stamped |-> FALSE, keys |-> 0, names |-> {},
     snippets |-> snippets]

Good == Source(1, "DOCS", "p1", "GOV", <<{Text({"a", "b"}, "plain"), Text({"x"}, "imperative")}>>)
Twin == [Good EXCEPT !.rank = 2, !.keys = 2, !.age = 7, !.author = TRUE, !.stamped = TRUE]
Named == [Source(3, "WEB", "p2", "UGC", <<{Text({"a", "c"}, "removed")}, {Text({"c"}, "plain")}>>)
            EXCEPT !.names = {"n"}]
Poisoned == Source(4, "WEB", "p3", "UNKNOWN", <<{Text({"a", "b"}, "removed")}>>)
Half == Source(5, "WEB", "p3", "EDU", <<{Text({"a", "b"}, "removed"), Text({"b", "c"}, "imperative")}>>)
Broken == [Good EXCEPT !.page = "none"]

Scene(docs, web) == [DOCS |-> docs, WEB |-> web]

FewScenes ==
    {Scene(<<>>, <<>>), Scene(<<Broken>>, <<>>), Scene(<<Good>>, <<>>), Scene(<<Good, Twin>>, <<Half>>),
     Scene(<<>>, <<Named>>), Scene(<<>>, <<Poisoned>>), Scene(<<Good>>, <<Poisoned, Named, Half>>)}

Claim(words, required, clarifiable) ==
    [words |-> words, required |-> required, clarifiable |-> clarifiable]

FewAnswers ==
    {<<>>,
     <<Claim({"a", "b"}, TRUE, FALSE)>>,
     <<Claim({"a", "c"}, TRUE, FALSE)>>,
     <<Claim({"n"}, TRUE, TRUE), Claim({"y"}, FALSE, FALSE)>>,
     <<Claim({"y", "z"}, FALSE, FALSE), Claim({"b", "c"}, TRUE, TRUE), Claim({"a", "b"}, TRUE, FALSE),
       Claim({"y", "w"}, TRUE, FALSE)>>}

Policy(allowed, withCache, tools, citations) ==
    [allowed |-> allowed, withCache |-> withCache, tools |-> tools, citationsRequired |-> citations]

FewPolicies ==
    {Policy(FALSE, FALSE, <<"WEB">>, TRUE), Policy(TRUE, TRUE, <<"WEB">>, TRUE),
     Policy(TRUE, FALSE, <<"WEB", "DOCS">>, TRUE), Policy(TRUE, FALSE, <<"DOCS">>, FALSE)}

=============================================================================

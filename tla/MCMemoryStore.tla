---------------------------- MODULE MCMemoryStore ----------------------------
(* Values for checking MemoryStore and MemoryRead: three facts of one category, *)
(* the second in two versions, one of another, and one that is never sound.     *)
EXTENDS MemoryRead

\* The read's order is not the store's: the store looks at the provenance first.
Fact(id, category, rank, place, chars) ==
    [id |-> id, key |-> category, category |-> category, rank |-> rank, sound |-> TRUE,
     place |-> place, chars |-> chars, quoted |-> FALSE]

goal1 == Fact(1, "goals", 2, 3, 1)
goal2 == Fact(2, "goals", 3, 2, 3)
goal2again == [Fact(2, "goals", 1, 5, 1) EXCEPT !.quoted = TRUE]
goal3 == [Fact(3, "goals", 4, 1, 2) EXCEPT !.key = "g3"]
project == Fact(4, "project", 5, 4, 1)
unsound == [Fact(4, "project", 1, 6, 1) EXCEPT !.sound = FALSE]

FewFacts == {goal1, goal2, goal2again, goal3, project, unsound}

Ask(facts, tier, requested) == [facts |-> facts, tier |-> tier, requested |-> requested]

\* Facts with every lifetime, two at a time, the same id twice, a lifetime over the
\* tier's cap, and requests to refuse.
FewRequests ==
    {Ask(<<goal1>>, "max", 2), Ask(<<goal2again>>, "max", 2), Ask(<<goal2, goal2again>>, "max", 0),
     Ask(<<goal2, goal3>>, "max", 2), Ask(<<project>>, "free", 2),
     Ask(<<project, unsound>>, "max", 2), Ask(<<goal1, goal2, goal3>>, "max", 2),
     Ask(<<>>, "max", 2)}

Read(categories, facts, perCategory, chars) ==
    [template |-> {}, categories |-> categories, keys |-> {}, facts |-> facts,
     perCategory |-> perCategory, chars |-> chars]

\* Reads of everything and of one category, in which each of the caps decides, and two
\* that are refused.
FewReads ==
    {Read({"goals"}, 3, 3, 9), Read({"goals", "project"}, 3, 1, 9), Read({"goals"}, 1, 3, 9),
     Read({"goals", "project"}, 3, 3, 4), Read({}, 3, 3, 9),
     [Read({}, 3, 2, 9) EXCEPT !.template = {"project"}],
     [Read({}, 3, 3, 9) EXCEPT !.template = {"goals"}, !.keys = {"g3"}],
     [Read({"goals"}, 3, 3, 9) EXCEPT !.keys = {"g3"}]}

TwoClasses == <<2, 4>>
CapOf == [free |-> 1, max |-> 2]
DefaultOf == [free |-> 1, max |-> 1]
=============================================================================

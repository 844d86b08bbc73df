---------------------------- MODULE MCGovernance ----------------------------
(* Values for checking Governance: plans up and down the scale, a tenant that *)
(* loses features or a region, one that is malformed.                          *)
EXTENDS Governance

Config(p, features, regions) ==
    [plan |-> p, features |-> features, regions |-> regions, valid |-> TRUE]

max == Config("MAX", FeatureFlag, {"eu", "us"})
FewTenants ==
    {Config("FREE", FeatureFlag, {"eu"}),
     Config("PRO", {"MEMORY_ENABLED", "EXPORT_ENABLED"}, {"eu", "us"}),
     max,
     Config("ENTERPRISE", FeatureFlag, {"eu", "us"}),
     [max EXCEPT !.valid = FALSE]}

\* Requests that ask for the most, for less of each kind, from a region that is not
\* everyone's, or with something unsafe in them.
Requested ==
    {[NoRequest EXCEPT !.calls = c, !.facts = c, !.ttl = t, !.region = g, !.safe = s] :
        c \in {0, 3, 20}, t \in {Hour, Day}, g \in {"us", None}, s \in BOOLEAN}
    \cup {NoRequest, [NoRequest EXCEPT !.scopes = {}], [NoRequest EXCEPT !.log = Minimal],
          [NoRequest EXCEPT !.tool = "DOCS"], [NoRequest EXCEPT !.tool = "WEB"],
          [NoRequest EXCEPT !.admin = TRUE]}

FewAsks == [op : OperationType, requested : Requested]

Fact(id, rank) == [id |-> id, category |-> "goals", rank |-> rank, sound |-> TRUE]
FewFacts == {Fact(1, 1), Fact(2, 1)}

\* Each tier writes a fact with its longest lifetime; MAX also writes two at once.
FewRequests ==
    {[facts |-> <<Fact(1, 1)>>, tier |-> r[1], requested |-> r[2]] :
        r \in {<<"FREE", 1>>, <<"PRO", 2>>, <<"MAX", 3>>}}
    \cup {[facts |-> <<Fact(1, 1), Fact(2, 1)>>, tier |-> "MAX", requested |-> 3]}

\* Two in one bucket, and times past the windows of a day, seven days and fourteen.
FewTimes == {0, 30, Day + Hour, 7 * Day + Hour, 14 * Day + 30}
=============================================================================

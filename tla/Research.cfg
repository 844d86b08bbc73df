SPECIFICATION Spec
CONSTANTS
    Nothing = Nothing
    MaxCallsTotal = 3
    MaxCallsPerMinute = 1
    PerCallTimeout = 1
    TotalTimeout = 7
    Minute = 3
    MaxResults = 3
    MaxClaims = 2
    MaxCitations = 1
    Policies <- FewPolicies
    Scenes <- FewScenes
    Answers <- FewAnswers
    Queries = {"q1", "q2"}
    Bucket = 2
    MaxEntries = 2
    MaxNow = 7
    MaxPuts = 5
INVARIANTS
    TypeOK
    CapsHold
    SupportedByWhatIsLeft
    CacheServesLatest

SPECIFICATION Spec
CONSTANTS
    FactIds = {1, 2, 3, 4}
    Facts <- FewFacts
    Requests <- FewRequests
    Tiers = {"free", "max"}
    PlanCap <- CapOf
    PlanDefault <- DefaultOf
    Ttl <- TwoClasses
    Bucket = 2
    MaxFactsPerWrite = 2
    PerCategory = 2
    Total = 3
    MaxEvents = 4
    MaxTime = 2
    Reads <- FewReads
    MAX_FACTS_HARD_LIMIT = 3
    MAX_PER_CATEGORY_HARD_LIMIT = 3
    MAX_TOTAL_CHARS_HARD_LIMIT = 9
INVARIANTS
    TypeOK
    ReplayIsDeclared
    ReadersKeepTheBest
PROPERTIES
    KeepsItsPromise

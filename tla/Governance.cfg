SPECIFICATION Spec
CONSTANTS
    Regions = {"eu", "us"}
    Tenants <- FewTenants
    Asks <- FewAsks
    FactIds = {1, 2}
    Facts <- FewFacts
    Requests <- FewRequests
    MaxEvents = 3
    MaxFactsPerWrite = 8
    MAX_CANDIDATES_PROCESSED = 3
    MAX_OPS_PER_RUN = 2
    OpsAsked = {0, 1, 3}
    Times <- FewTimes
    MaxTime = 20190
INVARIANTS
    TypeOK
    RequestsOnlyClamp
    PruningIsSafe
PROPERTIES
    LoweringOnlyTakes
CHECK_DEADLOCK FALSE

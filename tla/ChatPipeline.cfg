SPECIFICATION Spec
CONSTANTS
    r1 = r1
    r2 = r2
    r3 = r3
    s1 = s1
    s2 = s2
    Slots <- ThreeSlots
    Subjects = {s1, s2}
    Owner <- TwoOwners
    Inputs = {1, 5, 9}
    Outputs = {3}
    FallbackTokens = 1
    MaxInput = 8
    MaxOutput = 2
    RequestLimit = 2
    TokenBudget = 7
    TotalTimeout = 2
    ModelTimeout = 1
    MaxAttempts = 2
    Workers = 1
    MaxTime = 3
    MaxDbFailures = 1
    Threshold = 2
    Window = 1
    Cooldown = 1
    DayLength = 2
    RequestMaxTokens = 6
    RequestMaxOutput = 3
    GlobalCap = 6
    IpWindow = 1
    IpCap = 7
    ActorCap = 5
INVARIANTS
    TypeOK
    LimitsBounded
    SpendIsBilled
PROPERTIES
    BilledAtItsEnd
    EveryRequestEnds

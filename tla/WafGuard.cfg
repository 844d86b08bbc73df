SPECIFICATION Spec
CONSTANTS
    ip = ip
    u1 = u1
    u2 = u2
    Ips = {ip}
    Users = {u1}
    Limit <- TwoLimits
    BurstWindow = 2
    SustainWindow = 4
    Schedule <- TwoSteps
    Cooldown = 2
    DayLength = 8
    MaxTime = 10
    MaxFailures = 1
    MaxOutages = 1
    MaxRestarts = 1
INVARIANTS
    TypeOK
    WindowBounded
PROPERTIES
    LockoutServed
    PatienceIsEnough

SPECIFICATION RunSpec
CONSTANTS
    Inputs <- LimitInputs
    Contexts <- Flags
    TierPasses <- PassesOf
    TierTimeout <- TimeoutOf
    TierBudget <- BudgetOf
    MinTimeout = 250
    MinBudget = 50
    Costs = {20, 101}
    Times = {550, 3000}
INVARIANTS
    RunTypeOK
    PatchedOrBaseline
    OverdrawsOnePass
CHECK_DEADLOCK FALSE

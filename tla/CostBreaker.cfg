SPECIFICATION Spec
CONSTANTS
    Requests = {r1, r2, r3, r4}
    Threshold = 2
    Window = 1
    Cooldown = 2
    MaxTime = 5
SYMMETRY RequestSymmetry
INVARIANTS
    TypeOK
    StateIsDue
    OpenAdmitsNobody
PROPERTIES
    TripIsEarned
CHECK_DEADLOCK FALSE

SPECIFICATION Spec
CONSTANTS
    Tabs = {t1, t2}
    MaxChats = 2
    MaxRequests = 2
    MaxUpsets = 1
    Actions = {"REFUSE"}
    Texts = {"Request failed. Please retry."}
    Nobody = Nobody
SYMMETRY TabSymmetry
INVARIANTS
    TypeOK
    SendingIsAwaited
    LateIsIgnored
    DeletedIsGone
CHECK_DEADLOCK FALSE

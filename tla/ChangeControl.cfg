SPECIFICATION Spec
CONSTANTS
    Metas <- FewMetas
    Edits = {"edited"}
    MaxEvents = 3
    Requests <- FewRequests
    OtherCores <- ToolCalls
    Versions <- FewVersions
    NoDecision = NoDecision
INVARIANTS
    TypeOK
    VerifyFindsFirstEdit
    ReceiptNamesItsEvent
    BumpIsEnough

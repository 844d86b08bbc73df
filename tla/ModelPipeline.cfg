SPECIFICATION CallSpec
CONSTANTS
    Nothing = Nothing
    Messages <- FewMessages
    Replies <- FewReplies
INVARIANTS
    CallTypeOK
    AnswersOnlyLowStakes
    FailsOnlyWhenEnforced
    VerifiedDiscloses

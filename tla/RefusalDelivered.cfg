SPECIFICATION CallSpec
CONSTANTS
    Nothing = Nothing
    Messages <- FewMessages
    Replies <- FewReplies
INVARIANT RefusalDelivered

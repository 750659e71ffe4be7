SPECIFICATION FairSpec
CONSTANTS
    Request = {r1, r2, r3}
    MAXIMUM_WAITING = 1
    TIMEOUT_SEC = 1
    MaxTime = 3
INVARIANTS
    SocketsOwned
    OldestFirst
    OneReplyPerRequest
PROPERTIES
    NoAnswerDiscarded
    GivesUpOldestOnly
    RepliesLeaveQueue
    AnswersConsumed

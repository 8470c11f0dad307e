SPECIFICATION Spec
CONSTANTS
    Requests <- AllRequests
    MsgBlocks = 2
    MaxCalls = 3
INVARIANTS TypeOK AnswersItsCall
PROPERTY ImplementsRemoteCall

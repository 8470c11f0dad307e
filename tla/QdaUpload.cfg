SPECIFICATION Spec
CONSTANTS
    Requests <- AllRequests
    MsgBlocks = 3
    MaxCalls = 2
INVARIANT UploadIsReceived

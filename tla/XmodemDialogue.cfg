SPECIFICATION FairSpec
CONSTANTS
    ReqBlocks = 2
    AnsBlocks = 4
    BufBlocks = 4
    PacketBytes = 4
    MaxCalls = 3
    MaxNoise = 2
    MaxStops = 1
INVARIANTS TypeOK AnswersThisCall WholeAnswer OneRequest
PROPERTIES Recovers EveryCallEnds

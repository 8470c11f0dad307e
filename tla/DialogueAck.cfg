SPECIFICATION FairSpec
CONSTANTS
    ReqBlocks = 1
    AnsBlocks = 1
    BufBlocks = 1
    PacketBytes = 132
    MaxCalls = 2
    MaxNoise = 1
    MaxStops = 1
PROPERTY AckIsForTheRequest

SPECIFICATION Spec
CONSTANTS
    ReqBlocks = 2
    AnsBlocks = 2
    BufBlocks = 2
    PacketBytes = 4
    MaxCalls = 1
    MaxNoise = 1
    MaxStops = 0
INVARIANT SuccessIsDelivery

SPECIFICATION FairSpec
CONSTANTS
    Package = 1
    MaxLate = 4
    Blocks = 3
    BufBlocks = 3
    NoiseKinds <- AnyNoise
    MaxNoise = 2
INVARIANTS TypeOK InOrderDelivery NoEarlyEnd
PROPERTIES TransmitReturns ReceiveReturns

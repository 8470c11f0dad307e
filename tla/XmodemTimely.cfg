SPECIFICATION FairSpec
CONSTANTS
    Package = 1
    MaxLate = 0
    Blocks = 3
    BufBlocks = 3
    NoiseKinds <- AnyNoise
    MaxNoise = 5
INVARIANTS Lockstep Agreement WholePackage NoFalseCancel
PROPERTIES OneDisturbanceTolerated ImplementsDelivery

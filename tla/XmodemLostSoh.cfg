SPECIFICATION Spec
CONSTANTS
    Package = 1
    MaxLate = 0
    Blocks = 4
    BufBlocks = 4
    NoiseKinds <- AnyNoise
    MaxNoise = 1
INVARIANT LostSohIsDiscarded

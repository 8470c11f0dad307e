SPECIFICATION Spec
CONSTANTS
    Images <- SomeImages
    Lengths <- SomeLengths
    Payloads <- SomePayloads
    FileBurst = 3
    PacketBurst = 8
    PairSpan = 132
INVARIANTS TypeOK ChecksumsDivide LineDamageNoticed StoredIsLoaded FileDamageNoticed

SPECIFICATION FairSpec
CONSTANTS
    Size = 5
    Memory = 5
    Reported <- SomeReported
    UserSizes <- SomeSizes
    PacketSizes <- SomePacketSizes
    PageSizes <- SomePages
    LenMod = 4
    MaxPayload = 2
    MaxAnswer = 2
    FirstBlock = 1
    TransMod = 2
    MaxBusy = 1
    MaxStray = 6
INVARIANTS TypeOK DownloadInOrder OnlyWholeIsManifested UploadIsWhole NeverStalled
PROPERTY SessionEnds

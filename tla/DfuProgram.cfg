SPECIFICATION FairSpec
CONSTANTS
    Names <- SomeNames
    MaxOptions = 3
    ChunkSize = 2
    MaxInput = 4
    MaxRuns = 2
INVARIANTS TypeOK SettingsRestored SessionReady FirmwareWhole DetachedToLoad
PROPERTIES ExistingFileKept RunEnds

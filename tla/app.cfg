CONSTANTS
    Keys <- MCKeys
    Worlds <- ThreadedWorlds
    Threaded = TRUE
    Consumers = {c1, c2}
    BatchSize = 2
    Threshold = 1
    Special <- MCSpecial
    Cube <- MCCube
    Main = Main
    Tombstone = Tombstone
    NoKey = NoKey
    NotYet = {Nowhere}
SPECIFICATION FairSpec
INVARIANTS
    TypeOK
    DatabaseIsClosed
    UnlockedReadsAreAlone
    EntriesHaveOneWriter
PROPERTIES
    ProgramEnds
    ResultSpec

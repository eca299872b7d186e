CONSTANTS
    Keys <- MCKeys
    Worlds <- MCWorlds
    Threaded = FALSE
    Consumers = {c1}
    BatchSize = 2
    Threshold = 1
    Special <- MCSpecial
    Cube <- MCCube
    Main = Main
    Tombstone = Tombstone
    NoKey = NoKey
    NotYet = {Nowhere}
SPECIFICATION FairSpec
PROPERTIES
    ProgramEnds
    ResultSpec

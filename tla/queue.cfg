CONSTANTS
    Keys = {k1, k2, k3}
    Consumers = {c1, c2, c3}
    BatchSize = 2
    Threaded = TRUE
    Main = Main
    Tombstone = Tombstone
    NoKey = NoKey
SPECIFICATION FairSpec
INVARIANTS
    TypeOK
    EveryKeyInOnePlace
    TombstoneIsLast
    NobodySleepsPastTheTombstone
    JoinedMeansAllCounted
    RemainingDoesNotWrap
PROPERTIES
    MainJoinsEverybody
    FeedSpec

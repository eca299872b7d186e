CONSTANTS
    Keys = {k1, k2}
    Consumers = {c1, c2}
    BatchSize = 2
    Threaded = TRUE
    Main = Main
    Tombstone = Tombstone
    NoKey = NoKey
SPECIFICATION Spec
SYMMETRY Symmetry
INVARIANT SomeConsumerIsAwake

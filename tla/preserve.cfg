CONSTANTS
    Positions <- World
    Consumers = {c1, c2}
    Threshold = 1
    Cube <- MCCube
    Threaded = TRUE
    NotYet = {Nowhere}
SPECIFICATION FairSpec
INVARIANTS
    TypeOK
    NothingForgotten
    SurrenderedIsWhole
    EmptyListIsTheTombstone
PROPERTY SetIsSurrendered

CONSTANTS
    HalfSide = 2
    BlockSide = 2
    World <- SmallWorld
    Corners <- SmallCorners
    Deletable <- SmallDeletable
SPECIFICATION Spec
INVARIANTS
    TypeOK
    RegionIsProduced
    PosIsProduced
    NodeKeysAreDistinct
    BlocksAreLoaded

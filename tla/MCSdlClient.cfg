SPECIFICATION FairSpec
CONSTANTS
    Buffers = 4
    MaxVideo = 4
    MaxEvents = 2
    MaxTail = 6
INVARIANTS
    TypeOK
    FramesOwned
    EventsWhole
PROPERTIES
    PicturesInOrder
    Served
CHECK_DEADLOCK FALSE

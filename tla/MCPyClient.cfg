SPECIFICATION FairSpec
CONSTANTS
    Buffers = 4
    RingSize = 1
    Blocks = {b1, b2}
    KcpRequest = 0
    MaxVideo = 3
    MaxRequests = 3
    MaxMisses = 1
INVARIANTS
    TypeOK
    FaultsExplained
PROPERTIES
    PicturesInOrder
    
CHECK_DEADLOCK FALSE

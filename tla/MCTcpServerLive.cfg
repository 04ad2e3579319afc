SPECIFICATION FairSpec
CONSTANTS
    RingSize = 5
    VideoLen = 2
    ReplyLen = 1
    SignalLimit = 1
    MaxClients = 1
    MaxInput = 2
    MaxBroadcasts = 2
    MaxTearDowns = 1
PROPERTIES
    BroadcastEnds
    TearDownEnds
CHECK_DEADLOCK FALSE

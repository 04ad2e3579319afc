SPECIFICATION Spec
CONSTANTS
    RingSize = 4
    VideoLen = 2
    ReplyLen = 1
    SignalLimit = 1
    MaxClients = 2
    MaxInput = 2
    MaxBroadcasts = 1
    MaxTearDowns = 1
INVARIANTS
    TypeOK
    ClientsLive
    Framed
    
    
CHECK_DEADLOCK FALSE

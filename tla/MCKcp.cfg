SPECIFICATION FairSpec
CONSTANTS
    Ends <- MCEnds
    Modulus = 16
    SndWnd = 2
    RcvWnd = 3
    Mtu = 4
    FastLimit = 1
    FirstSn = 14
    MaxFaults = 2
    MaxSent <- MCMaxSent
INVARIANTS
    WindowsAgree
PROPERTIES
    ImplementsChannel
    AllDelivered
CHECK_DEADLOCK FALSE

SPECIFICATION Spec
CONSTANTS
    Clients = {"c1", "c2"}
    BUFFERS = 5
    QUEUE_SIZE = 6
    FILE_LAYERS = 7
    MaxPictures = 8
    MaxRestarts = 1
INVARIANTS
    TypeOK
    JoinerDecodes
CHECK_DEADLOCK FALSE

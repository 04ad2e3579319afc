SPECIFICATION Spec
CONSTANTS
  tcp = tcp
  MAX_BUFFER_COUNT = 2
  BUFFERS = 2
  TIMEOUT_MS = 1
  MIN_BIT_RATE = 2
  MAX_FRAME_RATE = 240
  NetThreads = {tcp}
  TcpThread = tcp
  BitRates <- MCHighBitRate
  FrameRates <- MCNoRates
  SetInfoMayFail = FALSE
  EncMayFail = FALSE
  MaxFrames = 3
  MaxRequests = 2
  MaxClients = 1
INVARIANT TypeOK
INVARIANT BufferOwnership
INVARIANT NeverStarved
INVARIANT JoinCannotHang
INVARIANT SlotHandover
PROPERTY FramesInOrder
PROPERTY PacketFifo

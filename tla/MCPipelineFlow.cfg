SPECIFICATION FairSpec
CONSTANTS
  tcp = tcp
  MAX_BUFFER_COUNT = 2
  BUFFERS = 2
  TIMEOUT_MS = 0
  MIN_BIT_RATE = 2
  MAX_FRAME_RATE = 240
  NetThreads = {tcp}
  TcpThread = tcp
  BitRates <- MCNoRates
  FrameRates <- MCLiveFrameRates
  SetInfoMayFail = FALSE
  EncMayFail = FALSE
  MaxFrames = 3
  MaxRequests = 1
  MaxClients = 1
PROPERTY CaptureNeverHangs
PROPERTY PacketsDelivered
 

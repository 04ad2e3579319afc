SPECIFICATION Spec
CONSTANTS
  kcp = kcp
  tcp = tcp
  MAX_BUFFER_COUNT = 2
  BUFFERS = 2
  TIMEOUT_MS = 0
  MIN_BIT_RATE = 2
  MAX_FRAME_RATE = 240
  NetThreads = {tcp, kcp}
  TcpThread = tcp
  BitRates <- MCBitRates
  FrameRates <- MCFrameRatesZero
  SetInfoMayFail = TRUE
  EncMayFail = TRUE
  MaxFrames = 1
  MaxRequests = 2
  MaxClients = 1
INVARIANT HandlersSeeLiveObjects
INVARIANT SettingsInForce

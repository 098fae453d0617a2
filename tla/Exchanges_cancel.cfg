SPECIFICATION MCSpec
CONSTANTS
  Parts = {"http"}
  Small = 3
  Big = 4
  E16 = 2
  E64 = 3
  MaskBytes = 2
  max_frame_bytes = 4
  PeerFrames <- MCPeerFrames
  MaxFrames = 3
  SendSizes = {0, 2, 3, 4, 5}
  kMaxHeaderTotalBytes = 8
  kMaxSingleHeaderBytes = 3
  kMaxHeaderCount = 2
  kMaxReasonBytes = 2
  kMaxInterimResponses = 1
  max_response_bytes = 2
  MaxInterims = 2
  MaxRequests = 2
  Calls <- MCCalls
  Finals <- MCFinals
  Callers = {1, 2}
  Configs <- MCConfigs
  Ifaces <- MCIfaces
  PlatformDefault = "prefer"
  Platforms = {"linux", "apple"}
  Servers = 1
  Timeout = 3
  Grace = 2
  TtlMin = 1
  TtlMax = 2
  MaxChanges = 1
CHECK_DEADLOCK FALSE
INVARIANT CancelledAreRejected

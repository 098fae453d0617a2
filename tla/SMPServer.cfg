SPECIFICATION MCSpec
CONSTANTS
  Clients = {k1}
  Objs = {o1, o2}
  NULL = NULL
  MaxInitials = 2
  MaxSends = 1
  MaxClose = 2
  HeaderSize = 2
  Sizes = {0, 1, 2}
  MaxPackets = 3
  Window = 4
CHECK_DEADLOCK FALSE
INVARIANTS SocketOutlivesWriters PacketsInOrder
PROPERTIES ServerCloses EverythingArrives

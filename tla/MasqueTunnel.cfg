SPECIFICATION TunnelSpec
CONSTANTS
  Outcomes = {"ok", "bad", "notimer"}
  Grants <- MCGrants
  Foreign <- MCForeign
  SizeMod = 65536
  MaxDatagrams = 2
CHECK_DEADLOCK FALSE
INVARIANTS NoDanglingPeer DatagramsFit
PROPERTIES ClosingEnds

SPECIFICATION Spec
CONSTANTS
  Senders = {s1, s2}
  Handles = {h1}
  NULL = NULL
  ForcePhysical = FALSE
  Recheck = FALSE
  OpenMayFail = FALSE
  Pins = {TRUE}
  Results = {"ok", "fatal"}
  Owners = {"connection", "creator"}
  MaxSend = 0
  MaxRestart = 1
CHECK_DEADLOCK FALSE
SYMMETRY SenderSymmetry
INVARIANTS DeleteIsSafe

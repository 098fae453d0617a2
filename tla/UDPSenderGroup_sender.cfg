SPECIFICATION FairSpec
CONSTANTS
  Senders = {s1}
  Handles = {h1}
  NULL = NULL
  ForcePhysical = TRUE
  Recheck = TRUE
  OpenMayFail = TRUE
  Pins = {TRUE}
  Results = {"ok", "unreach", "transient", "fatal"}
  Owners = {"connection"}
  MaxSend = 1
  MaxRestart = 2
CHECK_DEADLOCK FALSE
INVARIANTS CompletionsMatchSocket
PROPERTIES KeepsListening StopIsCarriedOut

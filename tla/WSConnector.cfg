SPECIFICATION MCSpec
CONSTANTS
  Conns = {x1, x2}
  Untimed = {x2}
  NULL = NULL
  MaxClose = 1
  Destroys = TRUE
CHECK_DEADLOCK FALSE
INVARIANTS HandlerContractKept NoCallbackAfterDestruction
PROPERTIES ConnectAnswered CloseSettles

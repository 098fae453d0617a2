SPECIFICATION MCSpec
CONSTANTS
  Requests = {r1, r2}
  Chans = {c1, c2}
  Untimed = {c2}
  Pooleds = {p1, p2}
  NULL = NULL
  MaxIdle = 1
  Destroys = TRUE
CHECK_DEADLOCK FALSE
INVARIANTS ToldOnce NoDangling NoCallbackAfterDestruction
PROPERTIES RequestSettles CloseSettles NothingLeaks

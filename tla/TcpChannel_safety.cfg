SPECIFICATION Spec
CONSTANTS
  Users = {u1, u2}
  Watchers = {w1}
  NULL = NULL
  Callers = {t1, t2}
  Configs <- OpenConfigs
  SyncErrors = {"connect", "send"}
  MaxTasks = 2
  MaxSends = 1
  MaxCalls = 1
CHECK_DEADLOCK FALSE
INVARIANTS QuietAfterClosed NobodyForgotten CallbacksInTurn NoSslUseAfterFree

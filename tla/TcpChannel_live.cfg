SPECIFICATION FairSpec
CONSTANTS
  Users = {u1}
  Watchers = {w1}
  NULL = NULL
  Callers = {t1}
  Configs <- LiveConfigs
  SyncErrors = {"connect", "send"}
  MaxTasks = 1
  MaxSends = 1
  MaxCalls = 2
CHECK_DEADLOCK FALSE
PROPERTIES CloseCompletes OpenSettles

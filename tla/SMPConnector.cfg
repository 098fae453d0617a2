SPECIFICATION MCSpec
CONSTANTS
  i2 = i2
  c1 = c1
  c2 = c2
  s2 = s2
  Conns = {c1, c2}
  Stubs = {s1, s2}
  Ifaces = {i1, i2}
  NULL = NULL
  Outcomes = {"ok", "bad", "notimer", "nophys"}
  Answers = {"_result", "_error"}
  Monitored = TRUE
  MaxClose = 1
  MaxRestart = 1
  MaxChange = 2
CHECK_DEADLOCK FALSE
INVARIANTS RegisteredAreLive EngineOutlivesConnections AnsweredOnce AddressSettles
PROPERTIES TakenIsAnswered ConnectorCloses

SPECIFICATION Spec
CONSTANTS
  Tasks = {q1}
  Conns = {n1}
  MaxCloses = 2
  MaxMessages = 1
CHECK_DEADLOCK FALSE
INVARIANTS NoEventForDeadWrap
PROPERTIES ImplementsContract

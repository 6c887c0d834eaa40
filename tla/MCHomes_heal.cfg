SPECIFICATION Spec
CONSTANTS
  poll = poll full = full command = command
  Threads = {poll, full}
  Locked = {poll, full}
  NamedRoot = FALSE
  Allowed = {"trash", "blink", "unfetched", "fails"}
  MaxObjs = 12
  MaxVersion = 2
  MaxMoves = 2
  MaxFaults = 1
INVARIANTS  GateTrue
PROPERTIES CopyInTheEnd
CHECK_DEADLOCK FALSE

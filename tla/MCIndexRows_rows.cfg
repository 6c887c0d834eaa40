SPECIFICATION Spec
CONSTANTS
  Parts = {"shown", "placed"}
  area = area project = project
  Items = {area, project}
  MaxTitle = 2
  MaxDay = 2
  MaxTime = 1
  MaxDocs = 5
  MaxMoves = 2
  MaxFaults = 1
  Allowed = {"rename", "relate", "due", "trash"}
  job = job hook = hook other = other
  i1 = i1 i2 = i2 i3 = i3
  Threads = {job, hook}
  Entries = {i1, i2, i3}
  Nobody = Nobody
  Unlocked = {hook}
  Filed = {i1}
  MaxRow = 8
INVARIANTS GateTrue RowKept
PROPERTIES RowsInTheEnd
CHECK_DEADLOCK FALSE

\* Two items, two edits or deletions, a restart, failed requests
\* and a token that dies and comes back.
SPECIFICATION Spec
CONSTANTS
  Null = Null
  Free = Free
  Job = job
  Threads = {job}
  Items = {i1, i2}
  Attempts = 2
  MaxFaults = 1
  MaxTurns = 1
  MaxVersion = 2
  MaxRow = 5
  MaxMoves = 2
  MaxRestarts = 1
INVARIANTS OneRowEach RowGate
PROPERTIES RowsInTheEnd

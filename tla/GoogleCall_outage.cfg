\* Two threads, three attempts, failures, a token that dies and comes back.
SPECIFICATION CallSpec
CONSTANTS
  Threads = {a, b}
  Free = Free
  Attempts = 3
  MaxFaults = 4
  MaxTurns = 3
  MaxRestarts = 1
PROPERTIES OutageStays OutageClears CallsEnd

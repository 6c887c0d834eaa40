SPECIFICATION FairSpec
CONSTANTS
  poll = poll post1 = post1 wait = wait
  hook = hook command = command p = p
  Polls = {poll}
  Full = Full
  Posts = {post1}
  Waits = {wait}
  Hooks = {hook}
  Commands = {command}
  Pages = {p}
  Reach <- ReachApart
  Null = Null
  Free = Free
  MaxFolders = 2
  MaxFails = 1
INVARIANTS OneRow NoTwins
PROPERTIES LoopFreed StatusEnds FullRuns

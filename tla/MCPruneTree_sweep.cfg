SPECIFICATION Spec
CONSTANTS
  Objs = {1,2,3,4,5,6}
  Sections = {1}
  Planted = {1,2,3,4}
  Trees <- AnyTree
  MaxDepth = 6
  Locked = TRUE
  MaxPages = 1
  MaxFaults = 1
INVARIANTS KeepsTracked
PROPERTIES OnlyOrphans SweptInTheEnd
CHECK_DEADLOCK FALSE

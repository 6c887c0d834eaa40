SPECIFICATION Spec
CONSTANTS
  area = area proj = proj child = child loose = loose action = action
  Pages = {area, proj, child}
  Kind <- KindMC
  Home <- HomeMC
  Nested = {}
  Archivable = {proj, child}
  Root = Root AreasFolder = AreasFolder Unsorted = Unsorted SectionFolder = SectionFolder
  MaxObjs = 8
  Null = Null
  Empty = Empty
  Unreadable = Unreadable
  HandEdited = HandEdited
  Allowed = {"archive", "restore"}
  MaxVersion = 2
  MaxMoves = 2
  MaxFaults = 0
INVARIANTS WholeWorkspace
CHECK_DEADLOCK FALSE

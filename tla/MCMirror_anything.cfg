SPECIFICATION Spec
CONSTANTS
  area = area proj = proj child = child loose = loose action = action
  Pages = {loose, child}
  Kind <- KindTwo
  Home <- HomeTwo
  Nested = {}
  Archivable = {loose, child}
  Root = Root AreasFolder = AreasFolder Unsorted = Unsorted SectionFolder = SectionFolder
  MaxObjs = 5
  Null = Null
  Empty = Empty
  Unreadable = Unreadable
  HandEdited = HandEdited
  Allowed = {"archive", "restore", "reparent", "trash", "handedit", "reset",
             "late", "blink", "unreadable", "refetch", "clear"}
  MaxVersion = 1
  MaxMoves = 2
  MaxFaults = 1
INVARIANTS OwnObjects
PROPERTIES TrackedKept
CHECK_DEADLOCK FALSE

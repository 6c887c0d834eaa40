SPECIFICATION Spec
CONSTANTS
  area = area proj = proj child = child loose = loose action = action
  Pages = {area, proj, child, action}
  Kind <- KindRow
  Home <- HomeRow
  Nested = {}
  Archivable = {proj, child, action}
  Root = Root AreasFolder = AreasFolder Unsorted = Unsorted SectionFolder = SectionFolder
  MaxObjs = 8
  Null = Null
  Empty = Empty
  Unreadable = Unreadable
  HandEdited = HandEdited
  Allowed = {"edit", "archive"}
  MaxVersion = 2
  MaxMoves = 1
  MaxFaults = 1
INVARIANTS TypeOK GateSafe Converges NothingElse VerifiedDelete
CHECK_DEADLOCK FALSE

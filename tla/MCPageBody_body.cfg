SPECIFICATION Spec
CONSTANTS
  Parts = {"read", "inline", "blocks", "doc"}
  Trees <- TreesMC
  NumBlocks = 6
  PageSize = 2
  MaxDepth = 1
  Attempts = 3
  Patience = 2
  Pieces <- Typing
  Spans <- AnySpan
  MaxLen = 6
  MaxSpans = 3
  Lines <- AnyLine
  PageBlocks <- Nested
  MaxLines = 3
  MaxBlocks = 3
  ann = ann bob = bob
  Writers = {ann, bob}
  Bodies <- BodiesMC
  Typed <- TypedMC
  Wide = {"emoji"}
  Allowed = {"type", "lost"}
  MaxWrites = 3
  MaxEdits = 1
INVARIANTS Whole ChildrenFound WriteReplaces
PROPERTIES ReadEnds  WrittenSurvives
CHECK_DEADLOCK FALSE

SPECIFICATION FairSpec
CONSTANTS
  area = area note = note deep = deep
  Pages = {area, note, deep}
  Null = Null
  Roots = {area}
  Parent <- ParentMC
  Nested = {deep}
  Hooked = {deep}
  Late = FALSE
  MaxEdits = 4
  MaxFaults = 1
INVARIANTS NothingSlips
PROPERTIES ShownInTheEnd

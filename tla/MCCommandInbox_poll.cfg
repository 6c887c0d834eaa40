SPECIFICATION FairSpec
CONSTANTS
  t1 = t1 t2 = t2 mine = mine other = other
  create = create oops = oops milk = milk
  Tasks = {t1, t2}
  Lists = {mine, other}
  Texts = {create, oops, milk}
  Null = Null
  Wordings <- Words
  ListOf <- ListsOf
  Above <- Stacked
  PageSize = 2
  Class <- Classes
  MaxEdits = 2
  MaxFaults = 1
INVARIANTS TypeOK RanAsAsked PersonalLeftAlone
PROPERTIES KeepsTheLog Answered

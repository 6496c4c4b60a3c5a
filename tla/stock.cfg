\* One sales order of three lines, purchases, two deletions and one reader.
SPECIFICATION Spec
CONSTANTS
  i1 = i1
  i2 = i2
  o1 = o1
  r1 = r1
  d1 = d1
  d2 = d2
  maxPageSize = 3
  defaultPageSize = 2
  IntLimit = 32
  Item = {i1, i2}
  SalesOrder = {o1}
  LinesOf <- MCLinesOf
  Deletion = {d1, d2}
  Reader = {r1}
  ItemOf <- MCItemOf
  AskedSize <- MCAskedSize
  OwnDocument = OwnDocument
  MaxEntries = 4
INVARIANTS TypeOK WalkIsComplete AnsweredMeansDone
CHECK_DEADLOCK FALSE

\* Two updates and two deletions of one order, a second order, and a crash.
SPECIFICATION Spec
CONSTANTS
  c1 = c1
  c2 = c2
  u1 = u1
  u2 = u2
  d1 = d1
  d2 = d2
  NoRow = NoRow
  Create = {c1, c2}
  Update = {u1, u2}
  Delete = {d1, d2}
  OrderOf <- MCOrderOf
  ValueOf <- MCValueOf
  MaxCrashes = 1
INVARIANTS TypeOK OneDeletionSucceeds RowIsOneRequest
PROPERTIES InsertedIsAnnounced ImplementsOrderTable
CHECK_DEADLOCK FALSE

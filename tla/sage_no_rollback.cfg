\* The rollback never deletes the documents it was given.
SPECIFICATION Spec
CONSTANTS
  alice = alice
  pen = pen
  ink = ink
  r1 = r1
  r2 = r2
  User = {alice}
  Item = {pen, ink}
  Request = {r1}
  UserOf <- MCOneRequest
  MaxAttempts = 2
  OrderRouteMapped = TRUE
  ResponseForwarded = TRUE
  ServicesMayDecline = FALSE
INVARIANT RollbackDeletesDocuments

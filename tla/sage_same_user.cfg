\* Two checkouts of one user, every reply the interfaces declare.
SPECIFICATION Spec
CONSTANTS
  alice = alice
  pen = pen
  ink = ink
  r1 = r1
  r2 = r2
  User = {alice}
  Item = {pen}
  Request = {r1, r2}
  UserOf <- MCSameUser
  MaxAttempts = 2
  OrderRouteMapped = TRUE
  ResponseForwarded = TRUE
  ServicesMayDecline = TRUE
INVARIANT SuccessMeansSold
PROPERTY BasketClearedAfterSale
CONSTRAINT MCFewLosses

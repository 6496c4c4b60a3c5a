\* Two checkouts of one user, and a bystander, over the services of this repository.
SPECIFICATION Spec
CONSTANTS
  alice = alice
  bob = bob
  pen = pen
  ink = ink
  r1 = r1
  r2 = r2
  User = {alice, bob}
  Item = {pen}
  Request = {r1, r2}
  UserOf <- MCSameUser
  MaxAttempts = 2
  OrderRouteMapped = TRUE
  ResponseForwarded = TRUE
  ServicesMayDecline = FALSE
INVARIANT SuccessMeansSold
PROPERTY BasketClearedAfterSale
CONSTRAINT MCFewLosses

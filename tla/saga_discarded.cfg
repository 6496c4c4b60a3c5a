\* This commit: a checkout throws although every service answered it with success.
SPECIFICATION Spec
CONSTANTS
  alice = alice
  bob = bob
  pen = pen
  ink = ink
  r1 = r1
  r2 = r2
  User = {alice}
  Item = {pen}
  Request = {r1}
  UserOf <- MCOneRequest
  MaxAttempts = 2
  OrderRouteMapped = TRUE
  ResponseForwarded = FALSE
  ServicesMayDecline = FALSE
INVARIANT ThrowsOnlyIfBroken

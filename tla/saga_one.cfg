\* One checkout of two items with a retry and every reply the interfaces declare.
SPECIFICATION Spec
CONSTANTS
  alice = alice
  bob = bob
  pen = pen
  ink = ink
  r1 = r1
  r2 = r2
  User = {alice}
  Item = {pen, ink}
  Request = {r1}
  UserOf <- MCOneRequest
  MaxAttempts = 2
  OrderRouteMapped = TRUE
  ResponseForwarded = TRUE
  ServicesMayDecline = TRUE
INVARIANTS IInv SaleHasItsOrder DuplicatesBounded CleanFailure
PROPERTIES EveryRequestReplied ImplementsProtocol

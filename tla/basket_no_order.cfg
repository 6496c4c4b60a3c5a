\* This commit: the consumed event creates no order.
SPECIFICATION Spec
CONSTANTS
  alice = alice
  bob = bob
  pen = pen
  r1 = r1
  r2 = r2
  User = {alice, bob}
  Item = {pen}
  Request = {r1, r2}
  UserOf <- MCUserOf
  MediatorHasCommandHandler = FALSE
  HandlerMayFault = FALSE
  MaxCrashes = 0
PROPERTY EventCreatesOrder

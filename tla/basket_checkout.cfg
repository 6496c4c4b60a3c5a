\* Two checkouts of one user, a bystander, and crashes of the consumer.
SPECIFICATION Spec
CONSTANTS
  alice = alice
  bob = bob
  pen = pen
  r1 = r1
  r2 = r2
  User = {alice, bob}
  Item = {pen}
  Request = {r1, r2}
  UserOf <- MCUserOf
  MediatorHasCommandHandler = TRUE
  HandlerMayFault = TRUE
  MaxCrashes = 2
INVARIANTS TypeOK AcceptedIsNeverLost OneOrderPerDelivery OrderHadABasket
PROPERTIES BasketClearedAfterPublish EventIsSettled

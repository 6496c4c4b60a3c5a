---------------------------- MODULE BasketCheckout ----------------------------
(***************************************************************************)
(* The other way to check out: Basket.API publishes a BasketCheckoutEvent  *)
(* on RabbitMQ and removes the basket; Ordering.API consumes the event and *)
(* sends a CreateOrderCommand.                                             *)
(*                                                                         *)
(* The controller's steps are separated by awaits; the broker delivers at  *)
(* least once and keeps a message until it is acknowledged; a consumer     *)
(* that throws has its message moved to the error queue (no retry is       *)
(* configured); either process may die between two steps.                  *)
(***************************************************************************)
EXTENDS Naturals, Sequences, FiniteSets

CONSTANTS
  User, Item, Request,
  UserOf,           \* the username each checkout is posted with
  MediatorHasCommandHandler,  \* FALSE: this commit, where the consumer's IMediator is
                    \* MassTransit's and knows BasketCheckoutEventHandler only
  HandlerMayFault,  \* the database may refuse while an order is created
  MaxCrashes        \* bound on the crashes of Ordering.API

ASSUME BasketCheckoutAssumption ==
  /\ UserOf \in [Request -> User]
  /\ MediatorHasCommandHandler \in BOOLEAN
  /\ HandlerMayFault \in BOOLEAN
  /\ MaxCrashes \in Nat

VARIABLES
  basket,   \* Redis
  pc,       \* where Checkout is in each request
  answer,   \* pending, accepted, notFound, threw
  seen,     \* the basket the request read
  event,    \* where the request's event is
  orders,   \* the checkouts order rows were inserted for, by identity
  crashes   \* of Ordering.API so far

vars == <<basket, pc, answer, seen, event, orders, crashes>>

EventState == {"none", "queued", "consuming", "handled", "acked", "faulted"}

TypeOK ==
  /\ basket \in [User -> SUBSET Item]
  /\ pc \in [Request -> {"read", "publish", "delete", "returned"}]
  /\ answer \in [Request -> {"pending", "accepted", "notFound", "threw"}]
  /\ seen \in [Request -> SUBSET Item]
  /\ event \in [Request -> EventState]
  /\ orders \in Seq(Request)
  /\ crashes \in 0 .. MaxCrashes

Init ==
  /\ basket \in [User -> SUBSET Item]
  /\ pc = [r \in Request |-> "read"]
  /\ answer = [r \in Request |-> "pending"]
  /\ seen = [r \in Request |-> {}]
  /\ event = [r \in Request |-> "none"]
  /\ orders = <<>>
  /\ crashes = 0

OrdersOf(r) == {n \in DOMAIN orders : orders[n] = r}

Answered(r, a) ==
  /\ pc' = [pc EXCEPT ![r] = "returned"]
  /\ answer' = [answer EXCEPT ![r] = a]

-----------------------------------------------------------------------------
(* BasketsController.Checkout                                              *)

\* Mutant: no check for an empty basket.
ReadBasketNoCheck(r) ==
  /\ pc[r] = "read"
  /\ seen' = [seen EXCEPT ![r] = basket[UserOf[r]]]
  /\ pc' = [pc EXCEPT ![r] = "publish"]
  /\ UNCHANGED <<basket, answer, event, orders, crashes>>

\* Mutant: the basket is removed before the event is published.
ReadBasketThenDelete(r) ==
  /\ pc[r] = "read"
  /\ seen' = [seen EXCEPT ![r] = basket[UserOf[r]]]
  /\ IF basket[UserOf[r]] = {}
     THEN Answered(r, "notFound")
     ELSE pc' = [pc EXCEPT ![r] = "delete"] /\ UNCHANGED answer
  /\ UNCHANGED <<basket, event, orders, crashes>>

ReadBasket(r) ==
  /\ pc[r] = "read"
  /\ seen' = [seen EXCEPT ![r] = basket[UserOf[r]]]
  /\ IF basket[UserOf[r]] = {}
     THEN Answered(r, "notFound")
     ELSE pc' = [pc EXCEPT ![r] = "publish"] /\ UNCHANGED answer
  /\ UNCHANGED <<basket, event, orders, crashes>>

\* The broker confirms the event.
Publish(r) ==
  /\ pc[r] = "publish"
  /\ event' = [event EXCEPT ![r] = "queued"]
  /\ pc' = [pc EXCEPT ![r] = "delete"]
  /\ UNCHANGED <<basket, answer, seen, orders, crashes>>

\* Publish throws, or Basket.API dies: the broker may have the event or not.
PublishBreaks(r) ==
  /\ pc[r] = "publish"
  /\ event' \in {event, [event EXCEPT ![r] = "queued"]}
  /\ Answered(r, "threw")
  /\ UNCHANGED <<basket, seen, orders, crashes>>

\* DeleteBasketFromUsername removes what the key holds by now.
DeleteBasket(r) ==
  /\ pc[r] = "delete"
  /\ basket' = [basket EXCEPT ![UserOf[r]] = {}]
  /\ Answered(r, "accepted")
  /\ UNCHANGED <<seen, event, orders, crashes>>

\* Redis fails, or Basket.API dies between publishing and removing.
DeleteBreaks(r) ==
  /\ pc[r] = "delete"
  /\ basket' \in {basket, [basket EXCEPT ![UserOf[r]] = {}]}
  /\ Answered(r, "threw")
  /\ UNCHANGED <<seen, event, orders, crashes>>

ShopperChangesBasket(u) ==
  /\ \E items \in SUBSET Item : basket' = [basket EXCEPT ![u] = items]
  /\ UNCHANGED <<pc, answer, seen, event, orders, crashes>>

-----------------------------------------------------------------------------
(* RabbitMQ and BasketCheckoutEventHandler                                 *)

MoveEvent(r, from, to) ==
  /\ event[r] = from
  /\ event' = [event EXCEPT ![r] = to]
  /\ UNCHANGED <<basket, pc, answer, seen, crashes>>

\* Mutant: the message is acknowledged when it is delivered.
DeliverAutoAck(r) == MoveEvent(r, "queued", "acked") /\ UNCHANGED orders

Deliver(r) == MoveEvent(r, "queued", "consuming") /\ UNCHANGED orders

\* _mediator.Send returns.  CreateOrderHandler has inserted the order, or, where
\* nobody consumes CreateOrderCommand, the command was dropped; Consume logs that
\* the order is created either way.
HandlerReturns(r) ==
  /\ MoveEvent(r, "consuming", "handled")
  /\ orders' = IF MediatorHasCommandHandler THEN Append(orders, r) ELSE orders

\* Mutant: a message whose handler throws goes back to the queue.
HandlerFaultsRequeue(r) ==
  /\ HandlerMayFault \/ ~MediatorHasCommandHandler
  /\ MoveEvent(r, "consuming", "queued")
  /\ orders' \in {orders} \cup
       (IF MediatorHasCommandHandler THEN {Append(orders, r)} ELSE {})

\* Mutant: Consume catches the exception and returns.
HandlerFaultsSwallowed(r) ==
  /\ HandlerMayFault \/ ~MediatorHasCommandHandler
  /\ MoveEvent(r, "consuming", "handled")
  /\ UNCHANGED orders

\* Mutant: the endpoint skips what its consumer cannot handle.
HandlerFaultsSkipped(r) ==
  /\ HandlerMayFault \/ ~MediatorHasCommandHandler
  /\ MoveEvent(r, "consuming", "skipped")
  /\ UNCHANGED orders

\* _mediator.Send throws: nobody consumes the command, or CreateOrderHandler threw
\* before its insert, or after it: at its save, committed all the same, or between the two.
HandlerFaults(r) ==
  /\ HandlerMayFault \/ ~MediatorHasCommandHandler
  /\ MoveEvent(r, "consuming", "faulted")
  /\ orders' \in {orders} \cup
       (IF MediatorHasCommandHandler THEN {Append(orders, r)} ELSE {})

Ack(r) == MoveEvent(r, "handled", "acked") /\ UNCHANGED orders

\* Ordering.API dies: what it had not acknowledged goes back to the queue.
OrderingCrashes ==
  /\ crashes < MaxCrashes
  /\ crashes' = crashes + 1
  /\ event' = [r \in Request |->
                 IF event[r] \in {"consuming", "handled"} THEN "queued" ELSE event[r]]
  /\ UNCHANGED <<basket, pc, answer, seen, orders>>

-----------------------------------------------------------------------------
Checkout(r) ==
  \/ ReadBasket(r)
  \/ Publish(r)
  \/ PublishBreaks(r)
  \/ DeleteBasket(r)
  \/ DeleteBreaks(r)

Consume(r) ==
  \/ Deliver(r)
  \/ HandlerReturns(r)
  \/ HandlerFaults(r)
  \/ Ack(r)

Next ==
  \/ \E r \in Request : Checkout(r) \/ Consume(r)
  \/ \E u \in User : ShopperChangesBasket(u)
  \/ OrderingCrashes

\* A posted request runs on; the broker delivers, and the consumer runs on.
Fairness == \A r \in Request : WF_vars(Checkout(r)) /\ WF_vars(Consume(r))

Spec == Init /\ [][Next]_vars /\ Fairness

-----------------------------------------------------------------------------
(* Properties.                                                             *)

\* A shopper answered 202 has an order, or an event that the broker still holds or that
\* waits in the error queue: no crash, fault, redelivery or interleaving loses an accepted
\* checkout.  One thing does, that nobody consumes CreateOrderCommand: then alone an event
\* is through its consumer, and acknowledged, without an order.
AcceptedIsNeverLost ==
  \A r \in Request : answer[r] = "accepted" =>
    \/ event[r] \in {"queued", "consuming", "faulted"}
    \/ OrdersOf(r) # {}
    \/ ~MediatorHasCommandHandler /\ event[r] \in {"handled", "acked"}

\* Redelivery duplicates orders, but no further than crashes explain it: a checkout
\* has at most one order more than Ordering.API crashed.
OneOrderPerDelivery ==
  \A r \in Request : Cardinality(OrdersOf(r)) <= 1 + crashes

\* Orders come from checkouts that read a basket with items in it; a checkout that
\* was answered NotFound never leads to one, however late its peers finish.
OrderHadABasket ==
  \A n \in DOMAIN orders :
    seen[orders[n]] # {} /\ answer[orders[n]] # "notFound"

\* A basket that changes other than by its shopper is emptied after the event of a
\* checkout of that user has reached the broker: publish first, remove second.
BasketClearedAfterPublish ==
  [][\A u \in User :
       basket'[u] # basket[u] =>
         \/ ShopperChangesBasket(u)
         \/ basket'[u] = {} /\ \E r \in Request : UserOf[r] = u /\ event[r] # "none"]_vars

\* Every event that reaches the broker ends with an order or in the error queue.
EventIsSettled ==
  \A r \in Request :
    event[r] = "queued" ~> OrdersOf(r) # {} \/ event[r] = "faulted"

\* Once a basket checkout event is published it is consumed and the order is
\* created, without a call to the Ordering API.
EventCreatesOrder ==
  \A r \in Request : event[r] = "queued" ~> OrdersOf(r) # {}

=============================================================================

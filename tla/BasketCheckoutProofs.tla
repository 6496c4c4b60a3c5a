------------------------- MODULE BasketCheckoutProofs -------------------------
(***************************************************************************)
(* Proofs about BasketCheckout, for any users, items and requests and any  *)
(* number of crashes of the consumer.                                      *)
(***************************************************************************)
EXTENDS BasketCheckout, FiniteSetTheorems, TLAPS

-----------------------------------------------------------------------------
(* Types.                                                                  *)

\* A step of the controller keeps the types.
LEMMA CheckoutTyped ==
  ASSUME TypeOK, NEW r \in Request, Checkout(r)
  PROVE  TypeOK'
  <1>1. UserOf[r] \in User
    BY BasketCheckoutAssumption
  <1>2. CASE ReadBasket(r)
    BY <1>1, <1>2 DEF ReadBasket, Answered, TypeOK
  <1>3. CASE Publish(r)
    BY <1>3 DEF Publish, TypeOK, EventState
  <1>4. CASE PublishBreaks(r)
    BY <1>4 DEF PublishBreaks, Answered, TypeOK, EventState
  <1>5. CASE DeleteBasket(r)
    BY <1>5 DEF DeleteBasket, Answered, TypeOK
  <1>6. CASE DeleteBreaks(r)
    BY <1>6 DEF DeleteBreaks, Answered, TypeOK
  <1> QED
    BY <1>2, <1>3, <1>4, <1>5, <1>6 DEF Checkout

\* What a step of the consumer does: it moves one event, and may append one order
\* as it takes the event out of the handler.
LEMMA ConsumeMoves ==
  ASSUME NEW r \in Request, Consume(r)
  PROVE  \E to \in {"consuming", "handled", "faulted", "acked"} :
           /\ MoveEvent(r, event[r], to)
           /\ event[r] # "none"
           /\ \/ /\ UNCHANGED orders
                 /\ to = "handled" => ~MediatorHasCommandHandler
                 /\ to = "acked" => event[r] = "handled"
                 /\ to = "consuming" => event[r] = "queued"
                 /\ to = "faulted" => event[r] = "consuming"
              \/ /\ orders' = Append(orders, r)
                 /\ event[r] = "consuming"
                 /\ to \in {"handled", "faulted"}
  <1>1. CASE Deliver(r)
    BY <1>1 DEF Deliver, MoveEvent
  <1>2. CASE HandlerReturns(r)
    BY <1>2 DEF HandlerReturns, MoveEvent
  <1>3. CASE HandlerFaults(r)
    BY <1>3 DEF HandlerFaults, MoveEvent
  <1>4. CASE Ack(r)
    BY <1>4 DEF Ack, MoveEvent
  <1> QED
    BY <1>1, <1>2, <1>3, <1>4 DEF Consume

\* A step of the consumer keeps the types.
LEMMA ConsumeTyped ==
  ASSUME TypeOK, NEW r \in Request, Consume(r)
  PROVE  TypeOK'
  <1>1. PICK to \in EventState :
          /\ MoveEvent(r, event[r], to)
          /\ UNCHANGED orders \/ orders' = Append(orders, r)
    BY ConsumeMoves DEF EventState
  <1>2. orders' \in Seq(Request)
    BY <1>1 DEF TypeOK
  <1> QED
    BY <1>1, <1>2 DEF MoveEvent, TypeOK

\* A crash of Ordering.API keeps the types.
LEMMA CrashTyped ==
  ASSUME TypeOK, OrderingCrashes
  PROVE  TypeOK'
  <1>1. crashes' \in 0 .. MaxCrashes
    BY BasketCheckoutAssumption DEF OrderingCrashes, TypeOK
  <1>2. event' \in [Request -> EventState]
    BY DEF OrderingCrashes, TypeOK, EventState
  <1> QED
    BY <1>1, <1>2 DEF OrderingCrashes, TypeOK

\* Every reachable state of the checkout over the bus is well typed (TypeOK), for
\* any number of requests and crashes.
THEOREM TypeCorrect == Spec => []TypeOK
  <1>1. Init => TypeOK
    BY BasketCheckoutAssumption DEF Init, TypeOK, EventState
  <1>2. TypeOK /\ [Next]_vars => TypeOK'
    <2> SUFFICES ASSUME TypeOK, [Next]_vars PROVE TypeOK'
      OBVIOUS
    <2>1. ASSUME NEW r \in Request, Checkout(r) PROVE TypeOK'
      BY <2>1, CheckoutTyped
    <2>2. ASSUME NEW r \in Request, Consume(r) PROVE TypeOK'
      BY <2>2, ConsumeTyped
    <2>3. ASSUME NEW u \in User, ShopperChangesBasket(u) PROVE TypeOK'
      BY <2>3 DEF ShopperChangesBasket, TypeOK
    <2>4. CASE OrderingCrashes
      BY <2>4, CrashTyped
    <2>5. CASE UNCHANGED vars
      BY <2>5 DEF vars, TypeOK
    <2> QED
      BY <2>1, <2>2, <2>3, <2>4, <2>5 DEF Next
  <1> QED
    BY <1>1, <1>2, PTL DEF Spec

-----------------------------------------------------------------------------
(* What the controller knows.                                              *)

\* The controller's place tells whether the broker has the event: not before
\* publish, certainly by delete and when the answer is accepted; it answers as it
\* returns; and an event is that of a request that read a basket with items and was
\* not answered NotFound.
PlaceTellsEvent ==
  \A r \in Request :
    /\ pc[r] \in {"read", "publish"} => event[r] = "none"
    /\ pc[r] # "returned" => answer[r] = "pending"
    /\ pc[r] \in {"publish", "delete"} => seen[r] # {}
    /\ pc[r] = "delete" \/ answer[r] = "accepted" => event[r] # "none"
    /\ event[r] # "none" => seen[r] # {} /\ answer[r] # "notFound"

\* Orders are inserted for checkouts whose event reached the broker.
OrdersHaveEvents == \A n \in DOMAIN orders : event[orders[n]] # "none"

Published == PlaceTellsEvent /\ OrdersHaveEvents

\* A step of the controller keeps Published.
LEMMA CheckoutPublished ==
  ASSUME TypeOK, Published, NEW r \in Request, Checkout(r)
  PROVE  Published'
  <1> USE DEF TypeOK, Published, PlaceTellsEvent
  <1>1. orders' = orders
    BY DEF Checkout, ReadBasket, Publish, PublishBreaks, DeleteBasket, DeleteBreaks
  <1>2. \A q \in Request : event[q] # "none" => event'[q] # "none"
    BY DEF Checkout, ReadBasket, Publish, PublishBreaks, DeleteBasket, DeleteBreaks
  <1>3. OrdersHaveEvents'
    <2> SUFFICES ASSUME NEW n \in DOMAIN orders PROVE event'[orders[n]] # "none"
      BY <1>1 DEF OrdersHaveEvents
    <2>1. orders[n] \in Request /\ event[orders[n]] # "none"
      BY DEF OrdersHaveEvents
    <2> QED
      BY <1>2, <2>1
  <1>4. PlaceTellsEvent'
    <2>1. CASE ReadBasket(r)
      BY <2>1 DEF ReadBasket, Answered
    <2>2. CASE Publish(r)
      BY <2>2 DEF Publish
    <2>3. CASE PublishBreaks(r)
      BY <2>3 DEF PublishBreaks, Answered
    <2>4. CASE DeleteBasket(r)
      BY <2>4 DEF DeleteBasket, Answered
    <2>5. CASE DeleteBreaks(r)
      BY <2>5 DEF DeleteBreaks, Answered
    <2> QED
      BY <2>1, <2>2, <2>3, <2>4, <2>5 DEF Checkout
  <1> QED
    BY <1>3, <1>4

\* A step of the consumer keeps Published.
LEMMA ConsumePublished ==
  ASSUME TypeOK, Published, NEW r \in Request, Consume(r)
  PROVE  Published'
  <1>1. PICK to \in {"consuming", "handled", "faulted", "acked"} :
          /\ MoveEvent(r, event[r], to)
          /\ event[r] # "none"
          /\ UNCHANGED orders \/ orders' = Append(orders, r)
    BY ConsumeMoves
  <1>2. /\ UNCHANGED <<pc, answer, seen>>
        /\ \A q \in Request : event'[q] = "none" <=> event[q] = "none"
    BY <1>1 DEF MoveEvent, TypeOK
  <1>3. PlaceTellsEvent'
    BY <1>2 DEF Published, PlaceTellsEvent
  <1>4. OrdersHaveEvents'
    <2> SUFFICES ASSUME NEW n \in DOMAIN orders' PROVE event'[orders'[n]] # "none"
      BY DEF OrdersHaveEvents
    <2>1. orders'[n] = r \/ (n \in DOMAIN orders /\ orders'[n] = orders[n])
      BY <1>1 DEF TypeOK
    <2>2. orders'[n] \in Request /\ event[orders'[n]] # "none"
      BY <1>1, <2>1 DEF TypeOK, Published, OrdersHaveEvents
    <2> QED
      BY <1>2, <2>2
  <1> QED
    BY <1>3, <1>4 DEF Published

\* A crash of Ordering.API keeps Published: it returns events, it loses none.
LEMMA CrashPublished ==
  ASSUME TypeOK, Published, OrderingCrashes
  PROVE  Published'
  <1>1. /\ UNCHANGED <<pc, answer, seen, orders>>
        /\ \A q \in Request : event'[q] = "none" <=> event[q] = "none"
    BY DEF OrderingCrashes
  <1>2. \A n \in DOMAIN orders : orders[n] \in Request
    BY DEF TypeOK
  <1> QED
    BY <1>1, <1>2 DEF Published, PlaceTellsEvent, OrdersHaveEvents

\* Published is an invariant.
LEMMA PublishedHolds == Spec => []Published
  <1>1. Init => Published
    BY DEF Init, Published, PlaceTellsEvent, OrdersHaveEvents
  <1>2. TypeOK /\ Published /\ [Next]_vars => Published'
    <2> SUFFICES ASSUME TypeOK, Published, [Next]_vars PROVE Published'
      OBVIOUS
    <2>1. ASSUME NEW r \in Request, Checkout(r) PROVE Published'
      BY <2>1, CheckoutPublished
    <2>2. ASSUME NEW r \in Request, Consume(r) PROVE Published'
      BY <2>2, ConsumePublished
    <2>3. ASSUME NEW u \in User, ShopperChangesBasket(u) PROVE Published'
      BY <2>3 DEF ShopperChangesBasket, Published, PlaceTellsEvent, OrdersHaveEvents
    <2>4. CASE OrderingCrashes
      BY <2>4, CrashPublished
    <2>5. CASE UNCHANGED vars
      BY <2>5 DEF vars, Published, PlaceTellsEvent, OrdersHaveEvents
    <2> QED
      BY <2>1, <2>2, <2>3, <2>4, <2>5 DEF Next
  <1> QED
    BY <1>1, <1>2, TypeCorrect, PTL DEF Spec

\* Every order row the consumer inserted is that of a checkout that read a basket
\* with items and was not answered NotFound, whatever was redelivered
\* (OrderHadABasket).
THEOREM OrdersHadBaskets == Spec => []OrderHadABasket
  <1>1. TypeOK /\ Published => OrderHadABasket
    <2> SUFFICES ASSUME TypeOK, Published, NEW n \in DOMAIN orders
                 PROVE  seen[orders[n]] # {} /\ answer[orders[n]] # "notFound"
      BY DEF OrderHadABasket
    <2>1. orders[n] \in Request
      BY DEF TypeOK
    <2> QED
      BY <2>1 DEF Published, PlaceTellsEvent, OrdersHaveEvents
  <1> QED
    BY <1>1, TypeCorrect, PublishedHolds, PTL

\* No checkout empties a basket before the broker has its event
\* (BasketClearedAfterPublish).
THEOREM ClearedAfterPublish == Spec => BasketClearedAfterPublish
  <1> DEFINE Cleared ==
        \A u \in User :
          basket'[u] # basket[u] =>
            \/ ShopperChangesBasket(u)
            \/ basket'[u] = {} /\ \E r \in Request : UserOf[r] = u /\ event[r] # "none"
  <1>1. TypeOK /\ Published /\ [Next]_vars => [Cleared]_vars
    <2> SUFFICES ASSUME TypeOK, Published, Next, NEW u \in User, basket'[u] # basket[u]
                 PROVE  \/ ShopperChangesBasket(u)
                        \/ basket'[u] = {} /\ \E r \in Request : UserOf[r] = u /\ event[r] # "none"
      OBVIOUS
    <2>1. ASSUME NEW r \in Request, DeleteBasket(r) \/ DeleteBreaks(r)
          PROVE  basket'[u] = {} /\ UserOf[r] = u /\ event[r] # "none"
      <3>1. event[r] # "none"
        BY <2>1 DEF DeleteBasket, DeleteBreaks, Published, PlaceTellsEvent
      <3>2. basket' = [basket EXCEPT ![UserOf[r]] = {}]
        BY <2>1 DEF DeleteBasket, DeleteBreaks
      <3> QED
        BY <3>1, <3>2 DEF TypeOK
    <2>2. ASSUME NEW x \in User, ShopperChangesBasket(x) PROVE ShopperChangesBasket(u)
      BY <2>2 DEF ShopperChangesBasket, TypeOK
    <2>3. ASSUME NEW r \in Request, Checkout(r) PROVE DeleteBasket(r) \/ DeleteBreaks(r)
      BY <2>3 DEF Checkout, ReadBasket, Publish, PublishBreaks
    <2>4. ASSUME NEW r \in Request, Consume(r) PROVE FALSE
      BY <2>4 DEF Consume, Deliver, HandlerReturns, HandlerFaults, Ack, MoveEvent
    <2>5. ~OrderingCrashes
      BY DEF OrderingCrashes
    <2> QED
      BY <2>1, <2>2, <2>3, <2>4, <2>5 DEF Next
  <1>2. [][Cleared]_vars => BasketClearedAfterPublish
    BY PTL DEF BasketClearedAfterPublish
  <1> QED
    BY <1>1, <1>2, TypeCorrect, PublishedHolds, PTL DEF Spec

-----------------------------------------------------------------------------
(* Delivery: at least once, and no oftener than crashes explain.           *)

\* A consumer that finished without an exception left an order, where its command has a
\* handler.
HandledHasOrder ==
  MediatorHasCommandHandler =>
    \A r \in Request : event[r] \in {"handled", "acked"} => OrdersOf(r) # {}

\* An event that is not through the handler has had no more orders than crashes,
\* one that is has had one more.
CrashesExplain ==
  \A r \in Request :
    /\ Cardinality(OrdersOf(r)) <= 1 + crashes
    /\ event[r] \in {"none", "queued", "consuming"} => Cardinality(OrdersOf(r)) <= crashes

\* The orders of a checkout are finitely many.
LEMMA OrdersAreFinite ==
  ASSUME TypeOK, NEW r \in Request
  PROVE  IsFiniteSet(OrdersOf(r)) /\ Cardinality(OrdersOf(r)) \in Nat
  <1>1. Len(orders) \in Nat /\ OrdersOf(r) \subseteq 1 .. Len(orders)
    BY DEF TypeOK, OrdersOf
  <1>2. IsFiniteSet(1 .. Len(orders))
    BY <1>1, FS_Interval
  <1> QED
    BY <1>1, <1>2, FS_Subset, FS_CardinalityType

\* Appending an order of one checkout adds one to its orders and none to others'.
LEMMA AppendAddsOne ==
  ASSUME TypeOK, NEW r \in Request, orders' = Append(orders, r), NEW q \in Request
  PROVE  /\ q # r => OrdersOf(q)' = OrdersOf(q)
         /\ q = r => /\ OrdersOf(q)' # {}
                     /\ Cardinality(OrdersOf(q)') = Cardinality(OrdersOf(q)) + 1
  <1>1. /\ Len(orders) \in Nat
        /\ DOMAIN orders = 1 .. Len(orders)
        /\ DOMAIN orders' = 1 .. Len(orders) + 1
        /\ orders'[Len(orders) + 1] = r
        /\ \A n \in 1 .. Len(orders) : orders'[n] = orders[n]
    BY DEF TypeOK
  <1>2. CASE q # r
    BY <1>1, <1>2 DEF OrdersOf
  <1>3. CASE q = r
    <2>1. OrdersOf(q)' = OrdersOf(q) \cup {Len(orders) + 1}
      BY <1>1, <1>3 DEF OrdersOf
    <2>2. Len(orders) + 1 \notin OrdersOf(q)
      BY <1>1 DEF OrdersOf
    <2>3. Cardinality(OrdersOf(q) \cup {Len(orders) + 1}) = Cardinality(OrdersOf(q)) + 1
      BY <2>2, OrdersAreFinite, FS_AddElement
    <2> QED
      BY <1>3, <2>1, <2>3
  <1> QED
    BY <1>2, <1>3

\* A step that inserts nothing leaves every checkout its orders.
LEMMA SameOrders ==
  ASSUME orders' = orders, NEW q
  PROVE  OrdersOf(q)' = OrdersOf(q)
  BY DEF OrdersOf

\* HandledHasOrder is an invariant.
LEMMA HandledHolds == Spec => []HandledHasOrder
  <1>1. Init => HandledHasOrder
    BY DEF Init, HandledHasOrder
  <1>2. TypeOK /\ HandledHasOrder /\ [Next]_vars => HandledHasOrder'
    <2> SUFFICES ASSUME TypeOK, HandledHasOrder, [Next]_vars, MediatorHasCommandHandler,
                        NEW q \in Request, event'[q] \in {"handled", "acked"}
                 PROVE  OrdersOf(q)' # {}
      BY DEF HandledHasOrder
    <2>1. ASSUME orders' = orders, event[q] \in {"handled", "acked"}
          PROVE  OrdersOf(q)' # {}
      BY <2>1, SameOrders DEF HandledHasOrder
    <2>2. ASSUME NEW r \in Request, Checkout(r) PROVE OrdersOf(q)' # {}
      <3>1. orders' = orders /\ event[q] \in {"handled", "acked"}
        BY <2>2 DEF Checkout, ReadBasket, Publish, PublishBreaks, DeleteBasket,
                    DeleteBreaks, TypeOK
      <3> QED
        BY <3>1, <2>1
    <2>3. ASSUME NEW r \in Request, Consume(r) PROVE OrdersOf(q)' # {}
      <3>1. PICK to \in {"consuming", "handled", "faulted", "acked"} :
              /\ MoveEvent(r, event[r], to)
              /\ \/ /\ UNCHANGED orders
                    /\ to # "handled"
                    /\ to = "acked" => event[r] = "handled"
                 \/ orders' = Append(orders, r)
        BY <2>3, ConsumeMoves
      <3>2. event' = [event EXCEPT ![r] = to]
        BY <3>1 DEF MoveEvent
      <3>3. CASE orders' = Append(orders, r)
        <4>1. CASE q = r
          BY <3>3, <4>1, AppendAddsOne
        <4>2. CASE q # r
          BY <3>2, <3>3, <4>2, AppendAddsOne DEF HandledHasOrder, TypeOK
        <4> QED
          BY <4>1, <4>2
      <3>4. CASE orders' = orders /\ to # "handled" /\ (to = "acked" => event[r] = "handled")
        BY <3>2, <3>4, <2>1 DEF TypeOK
      <3> QED
        BY <3>1, <3>3, <3>4
    <2>4. ASSUME NEW u \in User, ShopperChangesBasket(u) PROVE OrdersOf(q)' # {}
      BY <2>4, <2>1 DEF ShopperChangesBasket
    <2>5. CASE OrderingCrashes
      BY <2>5, <2>1 DEF OrderingCrashes
    <2>6. CASE UNCHANGED vars
      BY <2>6, <2>1 DEF vars
    <2> QED
      BY <2>2, <2>3, <2>4, <2>5, <2>6 DEF Next
  <1> QED
    BY <1>1, <1>2, TypeCorrect, PTL DEF Spec

\* No interleaving, crash, fault or redelivery loses a checkout that was answered 202, with
\* the one exception the property names (AcceptedIsNeverLost).
THEOREM AcceptedNotLost == Spec => []AcceptedIsNeverLost
  <1>1. TypeOK /\ Published /\ HandledHasOrder => AcceptedIsNeverLost
    BY DEF TypeOK, EventState, Published, PlaceTellsEvent, HandledHasOrder,
           AcceptedIsNeverLost
  <1> QED
    BY <1>1, TypeCorrect, HandledHolds, PublishedHolds, PTL

\* As Ordering.API is wired in this commit, where nobody consumes CreateOrderCommand, the
\* bus creates no order: every accepted checkout whose event is acknowledged is lost.
THEOREM NobodyCreatesOrders ==
  ASSUME ~MediatorHasCommandHandler
  PROVE  Spec => [](orders = <<>>)
  <1>1. Init => orders = <<>>
    BY DEF Init
  <1>2. orders = <<>> /\ [Next]_vars => (orders = <<>>)'
    <2> SUFFICES ASSUME orders = <<>>, [Next]_vars PROVE orders' = orders
      OBVIOUS
    <2>1. ASSUME NEW r \in Request, Checkout(r) PROVE orders' = orders
      BY <2>1 DEF Checkout, ReadBasket, Publish, PublishBreaks, DeleteBasket, DeleteBreaks
    <2>2. ASSUME NEW r \in Request, Consume(r) PROVE orders' = orders
      BY <2>2 DEF Consume, Deliver, HandlerReturns, HandlerFaults, Ack
    <2> QED
      BY <2>1, <2>2 DEF Next, ShopperChangesBasket, OrderingCrashes, vars
  <1> QED
    BY <1>1, <1>2, PTL DEF Spec

\* CrashesExplain is kept by every step.
LEMMA CrashesExplainKept ==
  ASSUME TypeOK, TypeOK', Published, CrashesExplain, [Next]_vars
  PROVE  CrashesExplain'
  <1> SUFFICES ASSUME NEW q \in Request
               PROVE  /\ Cardinality(OrdersOf(q)') <= 1 + crashes'
                      /\ event'[q] \in {"none", "queued", "consuming"} =>
                           Cardinality(OrdersOf(q)') <= crashes'
    BY DEF CrashesExplain
  <1>1. crashes \in Nat /\ Cardinality(OrdersOf(q)) \in Nat
    BY BasketCheckoutAssumption, OrdersAreFinite DEF TypeOK
  <1>2. /\ Cardinality(OrdersOf(q)) <= 1 + crashes
        /\ event[q] \in {"none", "queued", "consuming"} => Cardinality(OrdersOf(q)) <= crashes
    BY DEF CrashesExplain
  <1>3. ASSUME orders' = orders, crashes' = crashes,
               event'[q] \in {"none", "queued", "consuming"} =>
                 event[q] \in {"none", "queued", "consuming"}
        PROVE  /\ Cardinality(OrdersOf(q)') <= 1 + crashes'
               /\ event'[q] \in {"none", "queued", "consuming"} =>
                    Cardinality(OrdersOf(q)') <= crashes'
    <2>1. OrdersOf(q)' = OrdersOf(q)
      BY <1>3, SameOrders
    <2> QED
      BY <1>2, <1>3, <2>1
  <1>4. ASSUME NEW r \in Request, Checkout(r)
        PROVE  /\ orders' = orders
               /\ crashes' = crashes
               /\ event'[q] # event[q] => event[q] = "none"
    <2> USE DEF TypeOK, Published, PlaceTellsEvent
    <2>1. CASE Publish(r) \/ PublishBreaks(r)
      BY <2>1 DEF Publish, PublishBreaks
    <2>2. CASE ReadBasket(r) \/ DeleteBasket(r) \/ DeleteBreaks(r)
      BY <2>2 DEF ReadBasket, DeleteBasket, DeleteBreaks
    <2> QED
      BY <1>4, <2>1, <2>2 DEF Checkout
  <1>5. ASSUME NEW r \in Request, Consume(r)
        PROVE  /\ Cardinality(OrdersOf(q)') <= 1 + crashes'
               /\ event'[q] \in {"none", "queued", "consuming"} =>
                    Cardinality(OrdersOf(q)') <= crashes'
    <2>1. PICK to \in {"consuming", "handled", "faulted", "acked"} :
            /\ MoveEvent(r, event[r], to)
            /\ \/ orders' = orders /\ (to = "consuming" => event[r] = "queued")
               \/ /\ orders' = Append(orders, r)
                  /\ event[r] = "consuming"
                  /\ to \in {"handled", "faulted"}
      BY <1>5, ConsumeMoves
    <2>2. event' = [event EXCEPT ![r] = to] /\ crashes' = crashes
      BY <2>1 DEF MoveEvent
    <2>3. CASE orders' = orders /\ (to = "consuming" => event[r] = "queued")
      BY <1>3, <2>2, <2>3 DEF TypeOK
    <2>4. CASE /\ orders' = Append(orders, r)
               /\ event[r] = "consuming"
               /\ to \in {"handled", "faulted"}
      <3>1. CASE q = r
        <4>1. Cardinality(OrdersOf(q)') = Cardinality(OrdersOf(q)) + 1
          BY <2>4, <3>1, AppendAddsOne
        <4>2. Cardinality(OrdersOf(q)) <= crashes
          BY <1>2, <2>4, <3>1
        <4>3. event'[q] \notin {"none", "queued", "consuming"}
          BY <2>2, <2>4, <3>1 DEF TypeOK
        <4> QED
          BY <1>1, <2>2, <4>1, <4>2, <4>3
      <3>2. CASE q # r
        <4>1. OrdersOf(q)' = OrdersOf(q) /\ event'[q] = event[q]
          BY <2>2, <2>4, <3>2, AppendAddsOne DEF TypeOK
        <4> QED
          BY <1>2, <2>2, <4>1
      <3> QED
        BY <3>1, <3>2
    <2> QED
      BY <2>1, <2>3, <2>4
  <1>6. CASE OrderingCrashes
    <2>1. orders' = orders /\ crashes' = crashes + 1
      BY <1>6 DEF OrderingCrashes
    <2>2. OrdersOf(q)' = OrdersOf(q)
      BY <2>1, SameOrders
    <2> QED
      BY <1>1, <1>2, <2>1, <2>2
  <1>7. ASSUME NEW u \in User, ShopperChangesBasket(u)
        PROVE  orders' = orders /\ crashes' = crashes /\ event' = event
    BY <1>7 DEF ShopperChangesBasket
  <1>8. CASE UNCHANGED vars
    BY <1>3, <1>8 DEF vars
  <1> QED
    BY <1>3, <1>4, <1>5, <1>6, <1>7, <1>8 DEF Next

\* A checkout has at most one order more than the consumer crashed, for any number
\* of requests and crashes (OneOrderPerDelivery).
THEOREM OrdersPerDelivery == Spec => []OneOrderPerDelivery
  <1>1. Init => CrashesExplain
    <2> SUFFICES ASSUME Init, NEW r \in Request PROVE OrdersOf(r) = {} /\ crashes = 0
      BY FS_EmptySet DEF CrashesExplain
    <2> QED
      BY DEF Init, OrdersOf
  <1>2. TypeOK /\ TypeOK' /\ Published /\ CrashesExplain /\ [Next]_vars => CrashesExplain'
    BY CrashesExplainKept
  <1>3. CrashesExplain => OneOrderPerDelivery
    BY DEF CrashesExplain, OneOrderPerDelivery
  <1> QED
    BY <1>1, <1>2, <1>3, TypeCorrect, PublishedHolds, PTL DEF Spec

=============================================================================

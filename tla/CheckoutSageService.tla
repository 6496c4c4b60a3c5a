-------------------------- MODULE CheckoutSageService --------------------------
(***************************************************************************)
(* CheckoutSageService.CheckoutOrder: the other checkout saga of the       *)
(* orchestrator, registered in its container.  It sells the cart item by   *)
(* item and compensates in a catch block.                                  *)
(*                                                                         *)
(* A request is an async method that awaits one call at a time; methods of *)
(* different requests interleave at every await.                           *)
(***************************************************************************)
EXTENDS CheckoutServices

CONSTANT ServicesMayDecline  \* as in SagaOrderManager: -1 and false are replies too

ASSUME DeclineAssumption == ServicesMayDecline \in BOOLEAN

VARIABLES
  pc,       \* the call awaited, or the statement reached
  reply,    \* pending, success (true), failure (false), threw
  attempt,  \* attempts of the current call that already broke
  cart, orderId,
  unsold,   \* items the foreach has still to sell
  docNos    \* inventoryDocumentNo

locals == <<pc, reply, attempt, cart, orderId, unsold, docNos>>
vars == <<services, locals>>

Point == {"GetBasket", "CreateOrder", "GetOrder", "SellItem", "DeleteBasket",
          "DeleteOrder", "DeleteDocuments", "ReturnTrue", "ReturnFalse"}

TypeOK ==
  /\ ServicesTypeOK
  /\ pc \in [Request -> Point]
  /\ reply \in [Request -> {"pending", "success", "failure", "threw"}]
  /\ attempt \in [Request -> 0 .. MaxAttempts - 1]
  /\ cart \in [Request -> SUBSET Item]
  /\ orderId \in [Request -> Nat]
  /\ unsold \in [Request -> SUBSET Item]
  /\ docNos \in [Request -> SUBSET Nat]

Init ==
  /\ ServicesInit
  /\ pc = [r \in Request |-> "GetBasket"]
  /\ reply = [r \in Request |-> "pending"]
  /\ attempt = [r \in Request |-> 0]
  /\ cart = [r \in Request |-> {}]
  /\ orderId = [r \in Request |-> 0]
  /\ unsold = [r \in Request |-> {}]
  /\ docNos = [r \in Request |-> {}]

At(r, p) == reply[r] = "pending" /\ pc[r] = p

Goto(r, p) ==
  /\ pc' = [pc EXCEPT ![r] = p]
  /\ attempt' = [attempt EXCEPT ![r] = 0]
  /\ UNCHANGED reply

\* An exception leaves CheckoutOrder.
Throw(r) ==
  /\ reply' = [reply EXCEPT ![r] = "threw"]
  /\ UNCHANGED <<pc, attempt>>

-----------------------------------------------------------------------------
\* A response that LoggingDelegatingHandler does not pass on is a 502 here:
\* GetFromJsonAsync throws before the try block, at the first call of every checkout.
GetBasket(r) ==
  /\ At(r, "GetBasket")
  /\ IF ResponseForwarded
     THEN /\ cart' = [cart EXCEPT ![r] = basket[UserOf[r]]]
          /\ unsold' = [unsold EXCEPT ![r] = basket[UserOf[r]]]
          /\ Goto(r, IF basket[UserOf[r]] # {} THEN "CreateOrder" ELSE "ReturnFalse")
     ELSE Throw(r) /\ UNCHANGED <<cart, unsold>>
  /\ UNCHANGED <<services, orderId, docNos>>

\* Without a POST route the Ordering API answers 404, and EnsureSuccessStatusCode
\* throws outside the try block.
CreateOrder(r) ==
  /\ At(r, "CreateOrder")
  /\ IF OrderRouteMapped
     THEN \/ /\ InsertOrder(r)
             /\ orderId' = [orderId EXCEPT ![r] = Len(placed) + 1]
             /\ Goto(r, "GetOrder")
          \/ /\ ServicesMayDecline
             /\ Goto(r, "ReturnFalse")
             /\ UNCHANGED <<placed, orderId>>
     ELSE Throw(r) /\ UNCHANGED <<placed, orderId>>
  /\ UNCHANGED <<basket, deleted, documents, abandoned, cart, unsold, docNos>>

\* Mutant: the basket goes before the sales.
GetOrderThenDelete(r) ==
  /\ At(r, "GetOrder")
  /\ IF orderId[r] \in LiveOrder THEN Goto(r, "DeleteBasket") ELSE Throw(r)
  /\ UNCHANGED <<services, cart, orderId, unsold, docNos>>

\* A null order is dereferenced by the log line, before the try block.
GetOrder(r) ==
  /\ At(r, "GetOrder")
  /\ IF orderId[r] \in LiveOrder THEN Goto(r, "SellItem") ELSE Throw(r)
  /\ UNCHANGED <<services, cart, orderId, unsold, docNos>>

\* The item the foreach is at: the cart is a list, its order does not matter.
CurrentItem(r) == CHOOSE i \in unsold[r] : TRUE

\* One turn of the foreach: POST inventory/sales/{item}.
SellItem(r) ==
  /\ At(r, "SellItem")
  /\ InsertSale(orderId[r], {CurrentItem(r)})
  /\ unsold' = [unsold EXCEPT ![r] = @ \ {CurrentItem(r)}]
  /\ docNos' = [docNos EXCEPT ![r] = @ \cup {Len(documents) + 1}]
  /\ Goto(r, IF unsold'[r] = {} THEN "DeleteBasket" ELSE "SellItem")
  /\ UNCHANGED <<basket, placed, deleted, abandoned, cart, orderId>>

DeleteBasket(r) ==
  /\ At(r, "DeleteBasket")
  /\ \/ /\ RemoveBasket(UserOf[r])
        /\ Goto(r, "ReturnTrue")
     \/ /\ ServicesMayDecline
        /\ Goto(r, "ReturnFalse")
        /\ UNCHANGED basket
  /\ UNCHANGED <<placed, deleted, documents, abandoned, cart, orderId, unsold, docNos>>

\* Mutant: the rollback deletes the latest order.
DeleteOrderLatest(r) ==
  /\ At(r, "DeleteOrder")
  /\ deleted' = deleted \cup ({Len(placed)} \cap LiveOrder)
  /\ Goto(r, "DeleteDocuments")
  /\ UNCHANGED <<basket, placed, documents, abandoned, cart, orderId, unsold, docNos>>

\* RollbackCheckoutOrder, first call.  An order that is gone answers NotFound,
\* and the status is ignored.
DeleteOrder(r) ==
  /\ At(r, "DeleteOrder")
  /\ deleted' = deleted \cup ({orderId[r]} \cap LiveOrder)
  /\ Goto(r, "DeleteDocuments")
  /\ UNCHANGED <<basket, placed, documents, abandoned, cart, orderId, unsold, docNos>>

\* Mutant: the exception of the first document is swallowed.
DeleteDocumentsSwallows(r) ==
  /\ At(r, "DeleteDocuments")
  /\ Goto(r, "ReturnFalse")
  /\ UNCHANGED <<services, cart, orderId, unsold, docNos>>

\* RollbackCheckoutOrder, the foreach.  Inventory.API maps no DELETE for
\* inventory/document-no, and DeleteOrderByDocumentNo throws on success as well:
\* the first document throws out of the catch block.
DeleteDocuments(r) ==
  /\ At(r, "DeleteDocuments")
  /\ IF docNos[r] = {} THEN Goto(r, "ReturnFalse") ELSE Throw(r)
  /\ UNCHANGED <<services, cart, orderId, unsold, docNos>>

\* Mutant: true when nothing is left to sell.
ReturnWhenNothingLeft(r) ==
  /\ reply[r] = "pending"
  /\ pc[r] \in {"ReturnTrue", "ReturnFalse"}
  /\ reply' = [reply EXCEPT ![r] = IF unsold[r] = {} THEN "success" ELSE "failure"]
  /\ UNCHANGED <<services, pc, attempt, cart, orderId, unsold, docNos>>

Return(r) ==
  /\ reply[r] = "pending"
  /\ pc[r] \in {"ReturnTrue", "ReturnFalse"}
  /\ reply' = [reply EXCEPT ![r] = IF pc[r] = "ReturnTrue" THEN "success" ELSE "failure"]
  /\ UNCHANGED <<services, pc, attempt, cart, orderId, unsold, docNos>>

-----------------------------------------------------------------------------
(* Attempts without a reply.                                               *)

\* The call awaited at each point, as the service sees it.
CallAt(p) == IF p = "SellItem" THEN "UpdateInventory" ELSE p

LoseAttempt(r) ==
  /\ reply[r] = "pending"
  /\ pc[r] \notin {"DeleteDocuments", "ReturnTrue", "ReturnFalse"}
  /\ Abandon(r, CallAt(pc[r]), orderId[r],
             IF pc[r] = "SellItem" THEN {CurrentItem(r)} ELSE {}, attempt[r])
  /\ UNCHANGED <<basket, placed, deleted, documents, cart, orderId, unsold, docNos>>

\* Mutant: one retry too many.
AttemptRetriedOnceMore(r) ==
  /\ LoseAttempt(r)
  /\ attempt[r] + 1 <= MaxAttempts
  /\ attempt' = [attempt EXCEPT ![r] = @ + 1]
  /\ UNCHANGED <<pc, reply>>

AttemptRetried(r) ==
  /\ LoseAttempt(r)
  /\ attempt[r] + 1 < MaxAttempts
  /\ attempt' = [attempt EXCEPT ![r] = @ + 1]
  /\ UNCHANGED <<pc, reply>>

\* Mutant: a rollback that fails starts again.
AttemptFatalRollsBackAgain(r) ==
  /\ LoseAttempt(r)
  /\ IF pc[r] \in {"SellItem", "DeleteBasket", "DeleteOrder"}
     THEN Goto(r, "DeleteOrder") ELSE Throw(r)

\* Mutant: an item that cannot be sold is skipped.
AttemptFatalSkipsItem(r) ==
  /\ LoseAttempt(r)
  /\ IF pc[r] \in {"SellItem", "DeleteBasket"} THEN Goto(r, "DeleteBasket") ELSE Throw(r)

\* The exception is caught, and the rollback starts, only inside the try block.
AttemptFatal(r) ==
  /\ LoseAttempt(r)
  /\ IF pc[r] \in {"SellItem", "DeleteBasket"} THEN Goto(r, "DeleteOrder") ELSE Throw(r)

\* The last DELETE of the order answers 5xx: no exception, the status is ignored.
DeleteOrderRefused(r) ==
  /\ At(r, "DeleteOrder")
  /\ LoseAttempt(r)
  /\ Goto(r, "DeleteDocuments")

-----------------------------------------------------------------------------
Advance(r) ==
  \/ GetBasket(r)
  \/ CreateOrder(r)
  \/ GetOrder(r)
  \/ SellItem(r)
  \/ DeleteBasket(r)
  \/ DeleteOrder(r)
  \/ DeleteDocuments(r)
  \/ Return(r)
  \/ AttemptRetried(r)
  \/ AttemptFatal(r)
  \/ DeleteOrderRefused(r)

LateArrival(a) ==
  /\ \/ LateCreateOrder(a)
     \/ LateUpdateInventory(a)
     \/ LateDeleteBasket(a)
     \/ LateDeleteOrder(a)
  /\ UNCHANGED locals

Shopper(u) == ShopperChangesBasket(u) /\ UNCHANGED locals

Client(n) == ClientDeletesOrder(n) /\ UNCHANGED locals

Next ==
  \/ \E r \in Request : Advance(r)
  \/ \E a \in abandoned : LateArrival(a)
  \/ \E u \in User : Shopper(u)
  \/ \E n \in LiveOrder : Client(n)

\* An awaited call is answered, fails, or is cut by the HttpClient's timeout.
Fairness == \A r \in Request : WF_vars(Advance(r))

Spec == Init /\ [][Next]_vars /\ Fairness

-----------------------------------------------------------------------------
(* Properties.                                                             *)

\* Every item of the cart is recorded in a document the saga was answered with.
CartSold(r) ==
  /\ orderId[r] \in OrdersOf(r)
  /\ \A i \in cart[r] : \E d \in docNos[r] \cap DOMAIN documents :
       documents[d] = [order |-> orderId[r], items |-> {i}]

\* A checkout answered true sold a non-empty cart, item by item, under an order
\* of its own, through any mix of retries, late attempts and other checkouts.
SuccessMeansSold ==
  \A r \in Request : reply[r] = "success" => cart[r] # {} /\ CartSold(r)

\* A checkout answered false knows of no sale: once an item is recorded the
\* method succeeds or throws, because its rollback of the sales cannot return.
FailureHidesNoSale ==
  \A r \in Request : reply[r] = "failure" => docNos[r] = {}

\* A basket that changes other than by its shopper is emptied by a checkout of
\* that user that sold its whole cart before.
BasketClearedAfterSale ==
  [][\A u \in User :
       basket'[u] # basket[u] =>
         \/ Shopper(u)
         \/ basket'[u] = {} /\ \E r \in Request : UserOf[r] = u /\ CartSold(r)]_vars

\* An order that goes other than by an API client was rolled back by the checkout
\* it was inserted for, whose caller never hears of a success: a DELETE nobody
\* waits for any more cannot hit the order of a successful checkout.
OrderDeletedByItsRollback ==
  [][\A n \in deleted' \ deleted :
       \/ Client(n)
       \/ orderId[placed[n]] = n /\ pc'[placed[n]] \in
            {"DeleteOrder", "DeleteDocuments", "ReturnFalse"}]_vars

\* Every checkout is answered or throws.
EveryRequestReplied == \A r \in Request : <>(reply[r] # "pending")

\* The rollback deletes the order and its documents: once it is over, none of the
\* documents the saga was answered with is left in the inventory.
RollbackDeletesDocuments ==
  \A r \in Request :
    pc[r] = "DeleteDocuments" /\ reply[r] # "pending" =>
      docNos[r] \cap DOMAIN documents = {}

\* How far a checkout got, as its caller's protocol sees it.
PhaseOf(r) ==
  CASE pc[r] = "ReturnTrue" -> "cleared"
    [] pc[r] # "ReturnTrue" /\ orderId[r] # 0 /\ unsold[r] = {} -> "sold"
    [] pc[r] # "ReturnTrue" /\ orderId[r] # 0 /\ unsold[r] # {} -> "ordered"
    [] OTHER -> "browsing"

Protocol == INSTANCE CheckoutProtocol WITH phase <- [r \in Request |-> PhaseOf(r)]

\* This saga implements the same checkout protocol as SagaOrderManager.
ImplementsProtocol == Protocol!Spec

=============================================================================

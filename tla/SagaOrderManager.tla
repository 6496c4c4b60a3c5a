--------------------------- MODULE SagaOrderManager ---------------------------
(***************************************************************************)
(* SagaOrderManager.CreateOrder: the checkout saga the orchestrator runs   *)
(* for POST api/checkout/{username}, a Stateless state machine whose       *)
(* OnEntry callbacks fire the next trigger, each trigger one HTTP call.    *)
(*                                                                         *)
(* One thread per request; it blocks on every call (.Result), so a step is *)
(* the reply of one call together with the transition and the entry into   *)
(* the next state.  Threads of different requests interleave.              *)
(***************************************************************************)
EXTENDS CheckoutServices, FiniteSets

CONSTANT
  ServicesMayDecline  \* TRUE: a reply may be any value the repository interfaces
                      \* declare (-1, null, false); FALSE: only what the services
                      \* of this repository return

ASSUME DeclineAssumption == ServicesMayDecline \in BOOLEAN

VARIABLES
  state,    \* orderStateMachine.State
  reply,    \* what the HTTP caller got: pending, success, failure, threw
  attempt,  \* attempts of the current call that already broke
  broken,   \* history: some attempt of the request broke
  cart,     \* the captured locals of CreateOrder ...
  orderId,  \* ... 0 stands for the initial -1
  docNo     \* ... 0 stands for null

locals == <<state, reply, attempt, broken, cart, orderId, docNo>>
vars == <<services, locals>>

EOrderTransactionState ==
  {"NotStarted", "BasketGot", "BasketGetFailed", "BasketDeleted",
   "BasketDeleteFailed", "OrderCreated", "OrderCreateFailed", "OrderGot",
   "OrderGetFailed", "OrderDeleted", "OrderDeleteFailed", "InventoryUpdated",
   "InventoryUpdateFailed", "InvetoryRollback", "RollbackInventory",
   "InventoryRollback", "InventoryRollbackFailed"}

Reply == {"pending", "success", "failure", "threw"}

TypeOK ==
  /\ ServicesTypeOK
  /\ state \in [Request -> EOrderTransactionState]
  /\ reply \in [Request -> Reply]
  /\ attempt \in [Request -> 0 .. MaxAttempts - 1]
  /\ broken \in [Request -> BOOLEAN]
  /\ cart \in [Request -> SUBSET Item]
  /\ orderId \in [Request -> Nat]
  /\ docNo \in [Request -> Nat]

Init ==
  /\ ServicesInit
  /\ state = [r \in Request |-> "NotStarted"]
  /\ reply = [r \in Request |-> "pending"]
  /\ attempt = [r \in Request |-> 0]
  /\ broken = [r \in Request |-> FALSE]
  /\ cart = [r \in Request |-> {}]
  /\ orderId = [r \in Request |-> 0]
  /\ docNo = [r \in Request |-> 0]

-----------------------------------------------------------------------------
(* The configuration of the machine.                                       *)

\* Mutant: InventoryUpdateFailed without its entry callback.
EntryTriggerNoCallback(s) ==
  CASE s = "NotStarted"       -> "GetBasket"
    [] s = "BasketGot"        -> "CreateOrder"
    [] s = "OrderCreated"     -> "GetOrder"
    [] s = "OrderGot"         -> "UpdateInventory"
    [] s = "InventoryUpdated" -> "DeleteBasket"
    [] OTHER                  -> "none"

\* The trigger fired on entry into a state ("none": CreateOrder returns).
\* NotStarted stands for the first Fire.
EntryTrigger(s) ==
  CASE s = "NotStarted"            -> "GetBasket"
    [] s = "BasketGot"             -> "CreateOrder"
    [] s = "OrderCreated"          -> "GetOrder"
    [] s = "OrderGot"              -> "UpdateInventory"
    [] s = "InventoryUpdated"      -> "DeleteBasket"
    [] s = "InventoryUpdateFailed" -> "DeleteBasket"
    [] OTHER                       -> "none"

\* Mutant: InventoryUpdateFailed permits what its entry callback fires.
PermittedTriggerReenters(s) ==
  CASE s = "NotStarted"            -> "GetBasket"
    [] s = "BasketGot"             -> "CreateOrder"
    [] s = "OrderCreated"          -> "GetOrder"
    [] s = "OrderGot"              -> "UpdateInventory"
    [] s = "InventoryUpdated"      -> "DeleteBasket"
    [] s = "InventoryUpdateFailed" -> "DeleteBasket"
    [] OTHER                       -> "none"

\* The one trigger a state permits; any other makes Fire throw.
PermittedTrigger(s) ==
  CASE s = "NotStarted"            -> "GetBasket"
    [] s = "BasketGot"             -> "CreateOrder"
    [] s = "OrderCreated"          -> "GetOrder"
    [] s = "OrderGot"              -> "UpdateInventory"
    [] s = "InventoryUpdated"      -> "DeleteBasket"
    [] s = "InventoryUpdateFailed" -> "DeleteInventory"
    [] OTHER                       -> "none"

\* Thread r is inside the call of trigger t.
Calling(r, t) ==
  /\ reply[r] = "pending"
  /\ EntryTrigger(state[r]) = t
  /\ PermittedTrigger(state[r]) = t

Enter(r, s) ==
  /\ state' = [state EXCEPT ![r] = s]
  /\ attempt' = [attempt EXCEPT ![r] = 0]
  /\ UNCHANGED <<reply, broken>>

Throw(r) == reply' = [reply EXCEPT ![r] = "threw"]

-----------------------------------------------------------------------------
(* One action per call: the service executes it and its reply arrives.     *)

\* Mutant: an empty basket is a basket (no Items.Any()).
GetBasketEmptyToo(r) ==
  /\ Calling(r, "GetBasket")
  /\ ResponseForwarded
  /\ cart' = [cart EXCEPT ![r] = basket[UserOf[r]]]
  /\ Enter(r, "BasketGot")
  /\ UNCHANGED <<services, orderId, docNo>>

GetBasket(r) ==
  /\ Calling(r, "GetBasket")
  /\ ResponseForwarded
  /\ cart' = [cart EXCEPT ![r] = basket[UserOf[r]]]
  /\ Enter(r, IF basket[UserOf[r]] # {} THEN "BasketGot" ELSE "BasketGetFailed")
  /\ UNCHANGED <<services, orderId, docNo>>

CreateOrder(r) ==
  /\ Calling(r, "CreateOrder")
  /\ OrderRouteMapped
  /\ \/ /\ InsertOrder(r)
        /\ orderId' = [orderId EXCEPT ![r] = Len(placed) + 1]
        /\ Enter(r, "OrderCreated")
     \/ /\ ServicesMayDecline
        /\ Enter(r, "OrderCreateFailed")
        /\ UNCHANGED <<placed, orderId>>
  /\ UNCHANGED <<basket, deleted, documents, abandoned, cart, docNo>>

GetOrder(r) ==
  /\ Calling(r, "GetOrder")
  /\ Enter(r, IF orderId[r] \in LiveOrder THEN "OrderGot" ELSE "OrderGetFailed")
  /\ UNCHANGED <<services, cart, orderId, docNo>>

\* Mutant: inventoryDocumentNo is not assigned.
UpdateInventoryNoAssign(r) ==
  /\ Calling(r, "UpdateInventory")
  /\ InsertSale(orderId[r], cart[r])
  /\ Enter(r, "InventoryUpdated")
  /\ UNCHANGED <<basket, placed, deleted, abandoned, cart, orderId, docNo>>

\* Mutant: the items sold are read again from the basket.
UpdateInventoryRereads(r) ==
  /\ Calling(r, "UpdateInventory")
  /\ InsertSale(orderId[r], basket[UserOf[r]])
  /\ docNo' = [docNo EXCEPT ![r] = Len(documents) + 1]
  /\ Enter(r, "InventoryUpdated")
  /\ UNCHANGED <<basket, placed, deleted, abandoned, cart, orderId>>

\* Mutant: the sale is sent and not waited for.
UpdateInventoryNotAwaited(r) ==
  /\ Calling(r, "UpdateInventory")
  /\ Abandon(r, "UpdateInventory", orderId[r], cart[r], 0)
  /\ Enter(r, "InventoryUpdated")
  /\ UNCHANGED <<basket, placed, deleted, documents, cart, orderId, docNo>>

UpdateInventory(r) ==
  /\ Calling(r, "UpdateInventory")
  /\ \/ /\ InsertSale(orderId[r], cart[r])
        /\ docNo' = [docNo EXCEPT ![r] = Len(documents) + 1]
        /\ Enter(r, "InventoryUpdated")
     \/ /\ ServicesMayDecline
        /\ Enter(r, "InventoryUpdateFailed")
        /\ UNCHANGED <<documents, docNo>>
  /\ UNCHANGED <<basket, placed, deleted, abandoned, cart, orderId>>

DeleteBasket(r) ==
  /\ Calling(r, "DeleteBasket")
  /\ \/ /\ RemoveBasket(UserOf[r])
        /\ Enter(r, "BasketDeleted")
     \/ /\ ServicesMayDecline
        /\ Enter(r, "InventoryUpdateFailed")
        /\ UNCHANGED basket
  /\ UNCHANGED <<placed, deleted, documents, abandoned, cart, orderId, docNo>>

\* The calls that cannot answer with success: the 502 of LoggingDelegatingHandler
\* (GetBasket is always the first call, so no other one meets it), and the 404 of
\* the unmapped POST.  EnsureSuccessStatusCode throws.
AnswersError(t) ==
  \/ t = "GetBasket" /\ ~ResponseForwarded
  \/ t = "CreateOrder" /\ ~OrderRouteMapped

\* Fire throws, and CreateOrder with it: the entry callback fires a trigger its
\* state does not permit, or the call it permits answers with an error.
FireThrows(r) ==
  /\ reply[r] = "pending"
  /\ EntryTrigger(state[r]) # "none"
  /\ EntryTrigger(state[r]) = PermittedTrigger(state[r]) =>
       AnswersError(EntryTrigger(state[r]))
  /\ Throw(r)
  /\ UNCHANGED <<services, state, attempt, broken, cart, orderId, docNo>>

\* Mutant: success unless there was no basket.
AnswerUnlessNoBasket(r) ==
  /\ reply[r] = "pending"
  /\ EntryTrigger(state[r]) = "none"
  /\ reply' = [reply EXCEPT ![r] =
                 IF state[r] # "BasketGetFailed" THEN "success" ELSE "failure"]
  /\ UNCHANGED <<services, state, attempt, broken, cart, orderId, docNo>>

\* No entry callback: the first Fire returns, and CreateOrder answers.
Answer(r) ==
  /\ reply[r] = "pending"
  /\ EntryTrigger(state[r]) = "none"
  /\ reply' = [reply EXCEPT ![r] =
                 IF state[r] = "BasketDeleted" THEN "success" ELSE "failure"]
  /\ UNCHANGED <<services, state, attempt, broken, cart, orderId, docNo>>

\* The attempt under way gets no reply.
LoseAttempt(r) ==
  /\ broken' = [broken EXCEPT ![r] = TRUE]
  /\ \E t \in WriteCall \cup {"GetBasket", "GetOrder"} :
       /\ Calling(r, t)
       /\ Abandon(r, t, orderId[r], cart[r], attempt[r])
  /\ UNCHANGED <<basket, placed, deleted, documents, state, cart, orderId, docNo>>

\* Mutant: one retry too many.
AttemptRetriedOnceMore(r) ==
  /\ LoseAttempt(r)
  /\ attempt[r] + 1 <= MaxAttempts
  /\ attempt' = [attempt EXCEPT ![r] = @ + 1]
  /\ UNCHANGED reply

\* A transient failure with retries left: the handler sends the request again.
AttemptRetried(r) ==
  /\ LoseAttempt(r)
  /\ attempt[r] + 1 < MaxAttempts
  /\ attempt' = [attempt EXCEPT ![r] = @ + 1]
  /\ UNCHANGED reply

\* The retries are spent, or the HttpClient's own timeout ends the call: the
\* exception leaves CreateOrder through .Result.
AttemptFatal(r) ==
  /\ LoseAttempt(r)
  /\ Throw(r)
  /\ UNCHANGED attempt

-----------------------------------------------------------------------------
Advance(r) ==
  \/ GetBasket(r)
  \/ CreateOrder(r)
  \/ GetOrder(r)
  \/ UpdateInventory(r)
  \/ DeleteBasket(r)
  \/ FireThrows(r)
  \/ Answer(r)
  \/ AttemptRetried(r)
  \/ AttemptFatal(r)

LateArrival(a) == 
  /\ \/ LateCreateOrder(a)
     \/ LateUpdateInventory(a)
     \/ LateDeleteBasket(a)
  /\ UNCHANGED locals

Shopper(u) == ShopperChangesBasket(u) /\ UNCHANGED locals

Client(n) == ClientDeletesOrder(n) /\ UNCHANGED locals

Next ==
  \/ \E r \in Request : Advance(r)
  \/ \E a \in abandoned : LateArrival(a)
  \/ \E u \in User : Shopper(u)
  \/ \E n \in LiveOrder : Client(n)

\* A thread blocked on .Result goes on: every attempt is answered, fails or is
\* cut by the HttpClient's timeout, and the retries are counted.
Fairness == \A r \in Request : WF_vars(Advance(r))

Spec == Init /\ [][Next]_vars /\ Fairness

-----------------------------------------------------------------------------
(* Properties.                                                             *)

\* The document the saga was answered with records its whole cart, under its order.
Sold(r) ==
  /\ orderId[r] \in OrdersOf(r)
  /\ docNo[r] \in DOMAIN documents
  /\ documents[docNo[r]] = [order |-> orderId[r], items |-> cart[r]]

\* A caller answered with Success had a non-empty cart, an order row was inserted
\* for that very checkout, and every item of the cart was taken from stock under
\* that order, whatever broke, arrived late or interleaved on the way.
SuccessMeansSold ==
  \A r \in Request : reply[r] = "success" => cart[r] # {} /\ Sold(r)

\* Stock is only ever taken under an order that was inserted before, and only
\* for items in the cart of the checkout that inserted it, also when the sale is
\* a retry or an abandoned attempt executed long after the caller was answered.
SaleHasItsOrder ==
  \A d \in DOMAIN documents :
    /\ documents[d].order \in DOMAIN placed
    /\ documents[d].items \subseteq cart[placed[documents[d].order]]

\* POSTs are retried although neither handler is idempotent: a checkout inserts
\* no more orders, and no more sales documents, than attempts the policy allows,
\* and no more than one of each when none of its attempts broke.
DuplicatesBounded ==
  \A r \in Request :
    /\ Cardinality(OrdersOf(r)) <= MaxAttempts
    /\ Cardinality(DocumentsOf(r)) <= MaxAttempts
    /\ ~broken[r] => /\ Cardinality(OrdersOf(r)) <= 1
                     /\ Cardinality(DocumentsOf(r)) <= 1

\* A caller answered with Success = false, none of whose attempts broke, left no
\* order in the table and took nothing from stock.
CleanFailure ==
  \A r \in Request :
    reply[r] = "failure" /\ ~broken[r] =>
      OrdersOf(r) \subseteq deleted /\ DocumentsOf(r) = {}

\* A basket that changes other than by its shopper (or by expiry) is emptied by
\* a checkout of that same user whose whole cart has been sold before; a late
\* DELETE that nobody waits for any more makes no exception.
BasketClearedAfterSale ==
  [][\A u \in User :
       basket'[u] # basket[u] =>
         \/ Shopper(u)
         \/ basket'[u] = {} /\ \E r \in Request : UserOf[r] = u /\ Sold(r)]_vars

\* Every checkout is answered: no chain of transitions, retries or entry
\* callbacks keeps its thread for ever.
EveryRequestReplied == \A r \in Request : <>(reply[r] # "pending")

\* A checkout is answered, with Success or without, unless one of its calls broke:
\* a call the service answered with success is a success for the saga, too.
ThrowsOnlyIfBroken ==
  \A r \in Request : reply[r] = "threw" => broken[r]

\* How far a checkout got, as its caller's protocol sees it.
PhaseOf(r) ==
  CASE state[r] = "BasketDeleted" -> "cleared"
    [] state[r] # "BasketDeleted" /\ docNo[r] # 0 -> "sold"
    [] state[r] # "BasketDeleted" /\ docNo[r] = 0 /\ orderId[r] # 0 -> "ordered"
    [] OTHER -> "browsing"

Protocol == INSTANCE CheckoutProtocol WITH phase <- [r \in Request |-> PhaseOf(r)]

\* The saga implements the checkout protocol: forward only, in order, answered
\* once, with success exactly at the end.
ImplementsProtocol == Protocol!Spec

-----------------------------------------------------------------------------
(* The inductive invariant behind SaleHasItsOrder, SuccessMeansSold,       *)
(* BasketClearedAfterSale and the safety part of ImplementsProtocol.       *)

\* What the machine's state says of the locals captured by its callbacks.
StateMatchesLocals(r) ==
  \/ /\ state[r] \in {"NotStarted", "BasketGetFailed"}
     /\ orderId[r] = 0 /\ docNo[r] = 0
     /\ r \notin {placed[n] : n \in DOMAIN placed}
  \/ /\ state[r] \in {"BasketGot", "OrderCreateFailed"}
     /\ cart[r] # {} /\ orderId[r] = 0 /\ docNo[r] = 0
  \/ /\ state[r] \in {"OrderCreated", "OrderGot", "OrderGetFailed"}
     /\ cart[r] # {} /\ orderId[r] \in OrdersOf(r) /\ docNo[r] = 0
  \/ /\ state[r] = "InventoryUpdateFailed"
     /\ cart[r] # {} /\ orderId[r] \in OrdersOf(r)
     /\ docNo[r] # 0 => Sold(r)
  \/ /\ state[r] \in {"InventoryUpdated", "BasketDeleted"}
     /\ cart[r] # {} /\ docNo[r] # 0 /\ Sold(r)

\* An abandoned attempt was sent from a state that had earned it: the sale under
\* an order of its own checkout and for its cart, the DELETE after the sale.
AttemptIsJustified(a) ==
  /\ state[a.req] \notin {"NotStarted", "BasketGetFailed"}
  /\ a.call = "UpdateInventory" =>
       a.order \in OrdersOf(a.req) /\ a.items \subseteq cart[a.req]
  /\ a.call = "DeleteBasket" => docNo[a.req] # 0

\* Type correctness, sales under their orders, every local explained by the
\* state, every abandoned attempt justified, success only at the end: the
\* invariant every step of the saga, of a late attempt or of another client keeps.
IInv ==
  /\ TypeOK
  /\ SaleHasItsOrder
  /\ \A r \in Request : StateMatchesLocals(r)
  /\ \A a \in abandoned : AttemptIsJustified(a)
  /\ \A r \in Request : reply[r] = "success" <=>
       state[r] = "BasketDeleted" /\ reply[r] # "pending"

-----------------------------------------------------------------------------
(* The counting invariant behind DuplicatesBounded and CleanFailure.       *)

AttemptsOf(r, c) == {a \in abandoned : a.req = r /\ a.call = c}

\* The POSTs of a checkout that were executed, or that may still be.
OrdersSent(r) ==
  Cardinality(OrdersOf(r)) + Cardinality(AttemptsOf(r, "CreateOrder"))
SalesSent(r) ==
  Cardinality(DocumentsOf(r)) + Cardinality(AttemptsOf(r, "UpdateInventory"))

\* How many the state of the machine allows: none before the call, the attempts
\* that broke while it is under way, all the policy allows after it; when
\* nothing broke one, unless the reply was that it failed.
OrderBudget(r) ==
  CASE state[r] \in {"NotStarted", "BasketGetFailed"} -> 0
    [] state[r] = "BasketGot" /\ reply[r] = "pending" -> attempt[r]
    [] state[r] = "OrderCreateFailed" /\ ~broken[r] -> 0
    [] OTHER -> IF broken[r] THEN MaxAttempts ELSE 1
SaleBudget(r) ==
  CASE state[r] \in {"NotStarted", "BasketGetFailed", "BasketGot", "OrderCreateFailed",
                     "OrderCreated", "OrderGetFailed"} -> 0
    [] state[r] = "OrderGot" /\ reply[r] = "pending" -> attempt[r]
    [] OTHER -> IF broken[r] THEN MaxAttempts ELSE 1

\* Every POST sent is within its budget, nothing broken means no attempt lost,
\* an order that could not be read back had gone, and only the three states
\* without an entry callback answer with failure.
Counted(r) ==
  /\ OrdersSent(r) <= OrderBudget(r)
  /\ SalesSent(r) <= SaleBudget(r)
  /\ ~broken[r] => attempt[r] = 0
  /\ state[r] = "OrderGetFailed" => orderId[r] \notin LiveOrder
  /\ reply[r] = "failure" =>
       state[r] \in {"BasketGetFailed", "OrderCreateFailed", "OrderGetFailed"}

CountInv == IsFiniteSet(abandoned) /\ \A r \in Request : Counted(r)

=============================================================================

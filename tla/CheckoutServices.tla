--------------------------- MODULE CheckoutServices ---------------------------
(***************************************************************************)
(* The three services a saga of Saga.Orchestrator calls over HTTP (Basket, *)
(* Ordering, Inventory) and the retrying HTTP channel to them.             *)
(*                                                                         *)
(* A call is a POST, GET or DELETE sent by an HttpClient whose handler     *)
(* retries transient failures.  An attempt whose reply does not come back  *)
(* (reset connection, 5xx, timeout) is ABANDONED: the client goes on, and  *)
(* the service may or may not still execute it, at any later time.         *)
(***************************************************************************)
EXTENDS Naturals, Sequences

CONSTANTS
  User,             \* shoppers; the key of a basket
  Item,             \* catalogue numbers a cart holds
  Request,          \* checkouts handled by the orchestrator
  UserOf,           \* the username of each checkout
  MaxAttempts,      \* retryCount + 1 of UseImmediate/UseExponentialHttpRetryPolicy
  OrderRouteMapped, \* FALSE: POST /order is commented out, as in this commit
  ResponseForwarded \* FALSE: LoggingDelegatingHandler, the outermost handler of
                    \* every client, returns a new 502 in place of the response
                    \* it got, as in this commit

ASSUME ServicesAssumption ==
  /\ UserOf \in [Request -> User]
  /\ MaxAttempts \in Nat \ {0}
  /\ OrderRouteMapped \in BOOLEAN
  /\ ResponseForwarded \in BOOLEAN

VARIABLES
  basket,     \* Redis: the items of each user's basket, {} when there is none
  placed,     \* SQL Server: the checkout each order row was inserted for, by identity
  deleted,    \* identities of the order rows deleted since
  documents,  \* MongoDB: what each sales document took from stock, and its order
  abandoned   \* attempts nobody waits for any more

services == <<basket, placed, deleted, documents, abandoned>>

\* Calls that change a service.  Reads leave nothing behind when abandoned.
WriteCall == {"CreateOrder", "UpdateInventory", "DeleteBasket", "DeleteOrder"}

\* An attempt carries what its URL and body carry: order number, items, user.
Attempt == [req: Request, call: WriteCall, order: Nat, items: SUBSET Item, try: Nat]

Document == [order: Nat, items: SUBSET Item]

ServicesTypeOK ==
  /\ basket \in [User -> SUBSET Item]
  /\ placed \in Seq(Request)
  /\ deleted \subseteq DOMAIN placed
  /\ documents \in Seq(Document)
  /\ abandoned \subseteq Attempt

ServicesInit ==
  /\ basket \in [User -> SUBSET Item]
  /\ placed = <<>>
  /\ deleted = {}
  /\ documents = <<>>
  /\ abandoned = {}

LiveOrder == DOMAIN placed \ deleted

OrdersOf(r) == {n \in DOMAIN placed : placed[n] = r}

DocumentsOf(r) ==
  {d \in DOMAIN documents : documents[d].order \in OrdersOf(r)}

-----------------------------------------------------------------------------
(* What each service does with a call it executes.                         *)

\* CreateOrderHandler: a new row, identity assigned by the database.
InsertOrder(r) == placed' = Append(placed, r)

\* DeleteOrderHandler: the row goes.
RemoveOrder(n) == deleted' = deleted \cup {n}

\* SalesOrderAsync: one fresh DocumentNo, an entry for each item.
InsertSale(n, items) ==
  documents' = Append(documents, [order |-> n, items |-> items])

\* DeleteBasketFromUsername: the key goes, whatever the basket holds by now.
RemoveBasket(u) == basket' = [basket EXCEPT ![u] = {}]

-----------------------------------------------------------------------------
(* The attempts nobody waits for.                                          *)

Abandon(r, c, n, items, k) ==
  abandoned' = IF c \in WriteCall
               THEN abandoned \cup {[req |-> r, call |-> c, order |-> n,
                                     items |-> items, try |-> k]}
               ELSE abandoned

\* An abandoned POST /order is executed after all.
LateCreateOrder(a) ==
  /\ a.call = "CreateOrder"
  /\ OrderRouteMapped
  /\ abandoned' = abandoned \ {a}
  /\ InsertOrder(a.req)
  /\ UNCHANGED <<basket, deleted, documents>>

\* An abandoned sale is executed: SalesOrderAsync inserts entry by entry and
\* stops at the first one that fails, so any part of the items is recorded.
LateUpdateInventory(a) ==
  /\ a.call = "UpdateInventory"
  /\ abandoned' = abandoned \ {a}
  /\ \E sold \in SUBSET a.items \ {{}} : InsertSale(a.order, sold)
  /\ UNCHANGED <<basket, placed, deleted>>

\* An abandoned DELETE of the basket is executed.
LateDeleteBasket(a) ==
  /\ a.call = "DeleteBasket"
  /\ abandoned' = abandoned \ {a}
  /\ RemoveBasket(UserOf[a.req])
  /\ UNCHANGED <<placed, deleted, documents>>

\* An abandoned DELETE of an order is executed; NotFound if it is gone already.
LateDeleteOrder(a) ==
  /\ a.call = "DeleteOrder"
  /\ a.order \in LiveOrder
  /\ abandoned' = abandoned \ {a}
  /\ RemoveOrder(a.order)
  /\ UNCHANGED <<basket, placed, documents>>

-----------------------------------------------------------------------------
(* Other clients of the services.                                          *)

\* The shopper posts another basket, empties it, or it expires in Redis.
ShopperChangesBasket(u) ==
  /\ \E items \in SUBSET Item : basket' = [basket EXCEPT ![u] = items]
  /\ UNCHANGED <<placed, deleted, documents, abandoned>>

\* An API client deletes an order by its id.
ClientDeletesOrder(n) ==
  /\ n \in LiveOrder
  /\ RemoveOrder(n)
  /\ UNCHANGED <<basket, placed, documents, abandoned>>

=============================================================================

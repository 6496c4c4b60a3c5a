------------------------ MODULE SagaOrderManagerProofs ------------------------
(***************************************************************************)
(* Proofs about SagaOrderManager, for any users, items, checkouts, number  *)
(* of attempts, wiring of POST /order and replies of the services.         *)
(***************************************************************************)
EXTENDS SagaOrderManager, FiniteSetTheorems, TLAPS

-----------------------------------------------------------------------------
(* Type correctness.                                                       *)

\* The initial stores and locals have their types.
LEMMA InitTypeOK == Init => TypeOK
  BY ServicesAssumption
  DEF Init, ServicesInit, TypeOK, ServicesTypeOK, EOrderTransactionState, Reply

\* Appending keeps the rows that were there and adds one at the end.
LEMMA AppendFacts ==
  ASSUME NEW S, NEW s \in Seq(S), NEW e \in S
  PROVE  /\ Append(s, e) \in Seq(S)
         /\ DOMAIN Append(s, e) = DOMAIN s \cup {Len(s) + 1}
         /\ \A i \in DOMAIN s : Append(s, e)[i] = s[i]
         /\ Append(s, e)[Len(s) + 1] = e
         /\ Len(s) \in Nat
         /\ Len(s) + 1 \notin DOMAIN s
  OBVIOUS

\* Entering a state keeps the types of the machine's own variables.
LEMMA EnterType ==
  ASSUME TypeOK, NEW r \in Request, NEW s \in EOrderTransactionState, Enter(r, s)
  PROVE  /\ state' \in [Request -> EOrderTransactionState]
         /\ reply' \in [Request -> Reply]
         /\ attempt' \in [Request -> 0 .. MaxAttempts - 1]
         /\ broken' \in [Request -> BOOLEAN]
  <1>1. 0 \in 0 .. MaxAttempts - 1
    BY ServicesAssumption
  <1> QED BY <1>1 DEF TypeOK, Enter

\* Losing an attempt keeps the type of everything it writes.
LEMMA LoseAttemptType ==
  ASSUME TypeOK, NEW r \in Request, LoseAttempt(r)
  PROVE  ServicesTypeOK' /\ broken' \in [Request -> BOOLEAN]
  <1>1. broken' \in [Request -> BOOLEAN]
    BY DEF LoseAttempt, TypeOK
  <1>2. PICK t \in WriteCall \cup {"GetBasket", "GetOrder"} :
          Abandon(r, t, orderId[r], cart[r], attempt[r])
    BY DEF LoseAttempt
  <1>3. attempt[r] \in Nat
    BY ServicesAssumption DEF TypeOK
  <1>4. abandoned' \subseteq Attempt
    BY <1>2, <1>3 DEF Abandon, Attempt, TypeOK, ServicesTypeOK
  <1> QED BY <1>1, <1>4 DEF LoseAttempt, TypeOK, ServicesTypeOK

\* Every step keeps the types.
LEMMA NextTypeOK == TypeOK /\ [Next]_vars => TypeOK'
  <1> SUFFICES ASSUME TypeOK, [Next]_vars PROVE TypeOK'
    OBVIOUS
  <1> USE DEF TypeOK, ServicesTypeOK
  <1>1. ASSUME NEW r \in Request, GetBasket(r) PROVE TypeOK'
    <2>1. PICK s \in {"BasketGot", "BasketGetFailed"} : Enter(r, s)
      BY <1>1 DEF GetBasket
    <2>2. cart' \in [Request -> SUBSET Item]
      BY <1>1, ServicesAssumption DEF GetBasket
    <2> QED BY <1>1, <2>1, <2>2, EnterType DEF GetBasket, EOrderTransactionState, services
  <1>2. ASSUME NEW r \in Request, CreateOrder(r) PROVE TypeOK'
    <2>1. PICK s \in {"OrderCreated", "OrderCreateFailed"} : Enter(r, s)
      BY <1>2 DEF CreateOrder
    <2>2. /\ Append(placed, r) \in Seq(Request)
          /\ DOMAIN placed \subseteq DOMAIN Append(placed, r)
          /\ Len(placed) + 1 \in Nat
      BY AppendFacts
    <2>3. CASE InsertOrder(r) /\ orderId' = [orderId EXCEPT ![r] = Len(placed) + 1]
      BY <1>2, <2>1, <2>2, <2>3, EnterType
      DEF CreateOrder, InsertOrder, EOrderTransactionState
    <2>4. CASE UNCHANGED <<placed, orderId>>
      BY <1>2, <2>1, <2>4, EnterType DEF CreateOrder, EOrderTransactionState
    <2> QED BY <1>2, <2>3, <2>4 DEF CreateOrder
  <1>3. ASSUME NEW r \in Request, GetOrder(r) PROVE TypeOK'
    <2>1. PICK s \in {"OrderGot", "OrderGetFailed"} : Enter(r, s)
      BY <1>3 DEF GetOrder
    <2> QED BY <1>3, <2>1, EnterType DEF GetOrder, EOrderTransactionState, services
  <1>4. ASSUME NEW r \in Request, UpdateInventory(r) PROVE TypeOK'
    <2>1. PICK s \in {"InventoryUpdated", "InventoryUpdateFailed"} : Enter(r, s)
      BY <1>4 DEF UpdateInventory
    <2>2. PICK d \in Document : d = [order |-> orderId[r], items |-> cart[r]]
      BY DEF Document
    <2>3. /\ Append(documents, d) \in Seq(Document)
          /\ Len(documents) + 1 \in Nat
      BY AppendFacts
    <2>4. documents' \in {documents, Append(documents, d)}
      BY <1>4, <2>2 DEF UpdateInventory, InsertSale
    <2>5. docNo' \in {docNo, [docNo EXCEPT ![r] = Len(documents) + 1]}
      BY <1>4 DEF UpdateInventory
    <2>6. docNo' \in [Request -> Nat]
      BY <2>3, <2>5
    <2> QED
      BY <1>4, <2>1, <2>3, <2>4, <2>6, EnterType DEF UpdateInventory, EOrderTransactionState
  <1>5. ASSUME NEW r \in Request, DeleteBasket(r) PROVE TypeOK'
    <2>1. PICK s \in {"BasketDeleted", "InventoryUpdateFailed"} : Enter(r, s)
      BY <1>5 DEF DeleteBasket
    <2>2. basket' \in [User -> SUBSET Item]
      BY <1>5 DEF DeleteBasket, RemoveBasket
    <2> QED BY <1>5, <2>1, <2>2, EnterType DEF DeleteBasket, EOrderTransactionState
  <1>6. ASSUME NEW r \in Request, FireThrows(r) PROVE TypeOK'
    BY <1>6 DEF FireThrows, Throw, Reply, services
  <1>7. ASSUME NEW r \in Request, Answer(r) PROVE TypeOK'
    BY <1>7 DEF Answer, Reply, services
  <1>8. ASSUME NEW r \in Request, AttemptRetried(r) PROVE TypeOK'
    <2>1. ServicesTypeOK' /\ broken' \in [Request -> BOOLEAN]
      BY <1>8, LoseAttemptType DEF AttemptRetried
    <2>2. attempt' \in [Request -> 0 .. MaxAttempts - 1]
      BY <1>8, ServicesAssumption DEF AttemptRetried
    <2> QED BY <2>1, <2>2, <1>8 DEF AttemptRetried, LoseAttempt
  <1>9. ASSUME NEW r \in Request, AttemptFatal(r) PROVE TypeOK'
    <2>1. ServicesTypeOK' /\ broken' \in [Request -> BOOLEAN]
      BY <1>9, LoseAttemptType DEF AttemptFatal
    <2>2. reply' \in [Request -> Reply]
      BY <1>9 DEF AttemptFatal, Throw, Reply
    <2> QED BY <2>1, <2>2, <1>9 DEF AttemptFatal, LoseAttempt
  <1>10. ASSUME NEW a \in abandoned, LateArrival(a) PROVE TypeOK'
    <2>1. a \in Attempt
      OBVIOUS
    <2>2. CASE LateCreateOrder(a)
      <3>1. a.req \in Request
        BY <2>1 DEF Attempt
      <3>2. /\ Append(placed, a.req) \in Seq(Request)
            /\ DOMAIN placed \subseteq DOMAIN Append(placed, a.req)
        BY <3>1, AppendFacts
      <3> QED BY <1>10, <2>2, <3>2 DEF LateArrival, LateCreateOrder, InsertOrder, locals
    <2>3. CASE LateUpdateInventory(a)
      BY <1>10, <2>1, <2>3
      DEF LateArrival, LateUpdateInventory, InsertSale, Attempt, Document, locals
    <2>4. CASE LateDeleteBasket(a)
      BY <1>10, <2>1, <2>4 DEF LateArrival, LateDeleteBasket, RemoveBasket, Attempt, locals
    <2> QED BY <1>10, <2>2, <2>3, <2>4 DEF LateArrival
  <1>11. ASSUME NEW u \in User, Shopper(u) PROVE TypeOK'
    BY <1>11 DEF Shopper, ShopperChangesBasket, locals
  <1>12. ASSUME NEW n \in LiveOrder, Client(n) PROVE TypeOK'
    BY <1>12 DEF Client, ClientDeletesOrder, RemoveOrder, LiveOrder, locals
  <1>13. CASE UNCHANGED vars
    BY <1>13 DEF vars, services, locals
  <1> QED
    BY <1>1, <1>2, <1>3, <1>4, <1>5, <1>6, <1>7, <1>8, <1>9, <1>10,
       <1>11, <1>12, <1>13
    DEF Next, Advance

\* Every reachable state of the saga and its services is well typed.
THEOREM TypeCorrect == Spec => []TypeOK
  BY InitTypeOK, NextTypeOK, PTL DEF Spec

-----------------------------------------------------------------------------
(* What every step does to the stores and to the locals: rows and documents *)
(* are only added, and a checkout that has a cart keeps it.                 *)

StoresGrow ==
  /\ DOMAIN placed \subseteq DOMAIN placed'
  /\ \A n \in DOMAIN placed : placed'[n] = placed[n]
  /\ DOMAIN documents \subseteq DOMAIN documents'
  /\ \A d \in DOMAIN documents : documents'[d] = documents[d]

NoCart == {"NotStarted", "BasketGetFailed"}

LocalsForward(q) ==
  /\ state[q] \notin NoCart => state'[q] \notin NoCart /\ cart'[q] = cart[q]
  /\ docNo[q] # 0 => docNo'[q] # 0

\* Rows inserted by the step belong to checkouts that had a cart before it.
RowsEarned ==
  \A n \in DOMAIN placed' \ DOMAIN placed : state[placed'[n]] \notin NoCart

SameLocals(q) ==
  /\ state'[q] = state[q]
  /\ cart'[q] = cart[q]
  /\ orderId'[q] = orderId[q]
  /\ docNo'[q] = docNo[q]

\* A checkout without a cart has no order row.
LEMMA NoCartNoOrder ==
  ASSUME IInv, NEW n \in DOMAIN placed
  PROVE  placed[n] \in Request /\ state[placed[n]] \notin NoCart
  <1>1. placed[n] \in Request
    BY DEF IInv, TypeOK, ServicesTypeOK
  <1> QED BY <1>1 DEF IInv, StateMatchesLocals, NoCart

\* What a checkout's state says of its locals stays true while they stay.
LEMMA MatchStable ==
  ASSUME IInv, StoresGrow, RowsEarned, NEW q \in Request, SameLocals(q)
  PROVE  StateMatchesLocals(q)'
  <1>1. StateMatchesLocals(q)
    BY DEF IInv
  <1>2. orderId[q] \in OrdersOf(q) => (orderId[q] \in OrdersOf(q))'
    BY DEF StoresGrow, SameLocals, OrdersOf
  <1>3. Sold(q) => Sold(q)'
    BY <1>2 DEF StoresGrow, SameLocals, Sold
  <1>4. state[q] \in NoCart => q \notin {placed'[n] : n \in DOMAIN placed'}
    BY NoCartNoOrder DEF StoresGrow, RowsEarned
  <1> QED BY <1>1, <1>2, <1>3, <1>4 DEF StateMatchesLocals, SameLocals, NoCart

\* An abandoned attempt stays justified.
LEMMA AttemptStable ==
  ASSUME IInv, StoresGrow, NEW a \in abandoned, LocalsForward(a.req)
  PROVE  AttemptIsJustified(a)'
  <1>1. AttemptIsJustified(a)
    BY DEF IInv
  <1> QED
    BY <1>1 DEF AttemptIsJustified, StoresGrow, LocalsForward, OrdersOf, NoCart

\* Sales recorded before a step stay under their orders and within the carts.
LEMMA SalesStable ==
  ASSUME IInv, StoresGrow, \A q \in Request : LocalsForward(q),
         NEW d \in DOMAIN documents
  PROVE  /\ documents'[d].order \in DOMAIN placed'
         /\ documents'[d].items \subseteq cart'[placed'[documents'[d].order]]
  <1>1. /\ documents[d].order \in DOMAIN placed
        /\ documents[d].items \subseteq cart[placed[documents[d].order]]
    BY DEF IInv, SaleHasItsOrder
  <1>2. LocalsForward(placed[documents[d].order])
    BY <1>1, NoCartNoOrder
  <1> QED BY <1>1, <1>2, NoCartNoOrder DEF StoresGrow, LocalsForward

ReplyMatchesState(q) ==
  reply[q] = "success" <=> state[q] = "BasketDeleted" /\ reply[q] # "pending"

\* A step that lets the stores grow and the locals go forward keeps the
\* invariant if what it adds is right: its documents, its attempts, its rows
\* and the locals of the one checkout r it moves.
LEMMA StepKeepsIInv ==
  ASSUME IInv, TypeOK', StoresGrow, RowsEarned, NEW r \in Request,
         \A q \in Request \ {r} : SameLocals(q) /\ reply'[q] = reply[q],
         LocalsForward(r), StateMatchesLocals(r)', ReplyMatchesState(r)',
         \A d \in DOMAIN documents' \ DOMAIN documents :
           /\ documents'[d].order \in DOMAIN placed'
           /\ documents'[d].items \subseteq cart'[placed'[documents'[d].order]],
         \A a \in abandoned' \ abandoned : AttemptIsJustified(a)'
  PROVE  IInv'
  <1>1. \A q \in Request : LocalsForward(q)
    BY DEF SameLocals, LocalsForward
  <1>2. SaleHasItsOrder'
    BY <1>1, SalesStable DEF SaleHasItsOrder
  <1>3. \A q \in Request : StateMatchesLocals(q)'
    BY MatchStable
  <1>4. \A a \in abandoned : a.req \in Request
    BY DEF IInv, TypeOK, ServicesTypeOK, Attempt
  <1>5. \A a \in abandoned' : AttemptIsJustified(a)'
    BY <1>1, <1>4, AttemptStable
  <1>6. \A q \in Request : ReplyMatchesState(q)'
    BY DEF IInv, ReplyMatchesState, SameLocals
  <1> QED BY <1>2, <1>3, <1>5, <1>6 DEF IInv, ReplyMatchesState

\* Stores a step leaves alone grow, trivially.
LEMMA UnchangedStoresGrow ==
  ASSUME placed' = placed, documents' = documents
  PROVE  StoresGrow /\ RowsEarned
  BY DEF StoresGrow, RowsEarned

\* Adding one row lets the stores grow.
LEMMA InsertOrderGrows ==
  ASSUME TypeOK, NEW q \in Request, InsertOrder(q), documents' = documents
  PROVE  /\ StoresGrow
         /\ DOMAIN placed' = DOMAIN placed \cup {Len(placed) + 1}
         /\ placed'[Len(placed) + 1] = q
         /\ Len(placed) + 1 # 0
  <1>1. placed \in Seq(Request)
    BY DEF TypeOK, ServicesTypeOK
  <1> QED BY <1>1, AppendFacts DEF InsertOrder, StoresGrow

\* Adding one document lets the stores grow.
LEMMA InsertSaleGrows ==
  ASSUME TypeOK, NEW n \in Nat, NEW items \in SUBSET Item, InsertSale(n, items),
         placed' = placed
  PROVE  /\ StoresGrow /\ RowsEarned
         /\ DOMAIN documents' = DOMAIN documents \cup {Len(documents) + 1}
         /\ documents'[Len(documents) + 1] = [order |-> n, items |-> items]
         /\ Len(documents) + 1 # 0
  <1>1. documents \in Seq(Document)
    BY DEF TypeOK, ServicesTypeOK
  <1>2. PICK d \in Document : d = [order |-> n, items |-> items]
    BY DEF Document
  <1>3. documents' = Append(documents, d)
    BY <1>2 DEF InsertSale
  <1> QED BY <1>1, <1>2, <1>3, AppendFacts DEF StoresGrow, RowsEarned

-----------------------------------------------------------------------------
(* Each action keeps the invariant.                                        *)

\* The state in which each call is made.
LEMMA CallingStates ==
  ASSUME NEW r \in Request, NEW t, Calling(r, t)
  PROVE  /\ reply[r] = "pending"
         /\ t = "GetBasket" => state[r] = "NotStarted"
         /\ t = "CreateOrder" => state[r] = "BasketGot"
         /\ t = "GetOrder" => state[r] = "OrderCreated"
         /\ t = "UpdateInventory" => state[r] = "OrderGot"
         /\ t = "DeleteBasket" => state[r] = "InventoryUpdated"
         /\ t # "DeleteOrder"
  BY DEF Calling, EntryTrigger, PermittedTrigger

\* Entering a state moves no other checkout and answers nobody.
LEMMA EnterFacts ==
  ASSUME TypeOK, NEW r \in Request, NEW s, Enter(r, s)
  PROVE  /\ state'[r] = s
         /\ \A q \in Request \ {r} : state'[q] = state[q]
         /\ reply' = reply
  BY DEF Enter, TypeOK

\* Reading the basket keeps the invariant: the cart is set with the state that
\* goes with it.
LEMMA GetBasketKeepsIInv ==
  ASSUME IInv, TypeOK', NEW r \in Request, GetBasket(r)
  PROVE  IInv'
  <1> USE DEF GetBasket
  <1>1. state[r] = "NotStarted" /\ reply[r] = "pending"
    BY CallingStates
  <1>2. TypeOK
    BY DEF IInv
  <1>3. PICK s \in NoCart \cup {"BasketGot"} :
          Enter(r, s) /\ (s = "BasketGot" <=> basket[UserOf[r]] # {})
    BY DEF NoCart
  <1>4. /\ state'[r] = s /\ reply' = reply
        /\ \A q \in Request \ {r} : SameLocals(q)
        /\ cart'[r] = basket[UserOf[r]] /\ orderId' = orderId /\ docNo' = docNo
    BY <1>2, <1>3, EnterFacts DEF SameLocals, TypeOK
  <1>5. StoresGrow /\ RowsEarned /\ documents' = documents /\ abandoned' = abandoned
    BY UnchangedStoresGrow DEF services
  <1>6. StateMatchesLocals(r)'
    BY <1>1, <1>3, <1>4 DEF IInv, StateMatchesLocals, NoCart, services
  <1>7. LocalsForward(r)
    BY <1>1, <1>4 DEF LocalsForward, NoCart
  <1>8. ReplyMatchesState(r)'
    BY <1>1, <1>4 DEF ReplyMatchesState
  <1> HIDE DEF GetBasket
  <1> QED BY <1>4, <1>5, <1>6, <1>7, <1>8, StepKeepsIInv

\* Inserting the order keeps the invariant: the new row is the checkout's own.
LEMMA CreateOrderKeepsIInv ==
  ASSUME IInv, TypeOK', NEW r \in Request, CreateOrder(r)
  PROVE  IInv'
  <1> USE DEF CreateOrder
  <1>1. state[r] = "BasketGot" /\ reply[r] = "pending"
    BY CallingStates
  <1>2. TypeOK /\ StateMatchesLocals(r)
    BY DEF IInv
  <1>3. CASE /\ InsertOrder(r)
             /\ orderId' = [orderId EXCEPT ![r] = Len(placed) + 1]
             /\ Enter(r, "OrderCreated")
    <2>1. /\ StoresGrow
          /\ DOMAIN placed' = DOMAIN placed \cup {Len(placed) + 1}
          /\ placed'[Len(placed) + 1] = r
          /\ Len(placed) + 1 # 0
      BY <1>2, <1>3, InsertOrderGrows
    <2>2. RowsEarned
      BY <1>1, <2>1 DEF RowsEarned, NoCart
    <2>3. /\ state'[r] = "OrderCreated" /\ reply' = reply
          /\ \A q \in Request \ {r} : SameLocals(q)
          /\ cart'[r] = cart[r] /\ orderId'[r] = Len(placed) + 1 /\ docNo' = docNo
      BY <1>2, <1>3, EnterFacts DEF SameLocals, TypeOK
    <2>4. StateMatchesLocals(r)'
      BY <1>1, <1>2, <2>1, <2>3 DEF StateMatchesLocals, OrdersOf
    <2>5. LocalsForward(r) /\ ReplyMatchesState(r)'
      BY <1>1, <2>3 DEF LocalsForward, NoCart, ReplyMatchesState
    <2> QED BY <2>1, <2>2, <2>3, <2>4, <2>5, StepKeepsIInv
  <1>4. CASE Enter(r, "OrderCreateFailed") /\ UNCHANGED <<placed, orderId>>
    <2>1. /\ state'[r] = "OrderCreateFailed" /\ reply' = reply
          /\ \A q \in Request \ {r} : SameLocals(q)
          /\ cart' = cart /\ orderId' = orderId /\ docNo' = docNo
      BY <1>2, <1>4, EnterFacts DEF SameLocals, TypeOK
    <2>2. StoresGrow /\ RowsEarned
      BY <1>4, UnchangedStoresGrow
    <2>3. StateMatchesLocals(r)'
      BY <1>1, <1>2, <2>1 DEF StateMatchesLocals
    <2>4. LocalsForward(r) /\ ReplyMatchesState(r)'
      BY <1>1, <2>1 DEF LocalsForward, NoCart, ReplyMatchesState
    <2> QED BY <2>1, <2>2, <2>3, <2>4, StepKeepsIInv
  <1> QED BY <1>3, <1>4

\* Reading the order back keeps the invariant: it changes the state only.
LEMMA GetOrderKeepsIInv ==
  ASSUME IInv, TypeOK', NEW r \in Request, GetOrder(r)
  PROVE  IInv'
  <1> USE DEF GetOrder
  <1>1. state[r] = "OrderCreated" /\ reply[r] = "pending"
    BY CallingStates
  <1>2. TypeOK /\ StateMatchesLocals(r)
    BY DEF IInv
  <1>3. PICK s \in {"OrderGot", "OrderGetFailed"} : Enter(r, s)
    OBVIOUS
  <1>4. /\ state'[r] = s /\ reply' = reply
        /\ \A q \in Request \ {r} : SameLocals(q)
        /\ cart' = cart /\ orderId' = orderId /\ docNo' = docNo
    BY <1>2, <1>3, EnterFacts DEF SameLocals, TypeOK
  <1>5. StoresGrow /\ RowsEarned /\ documents' = documents /\ abandoned' = abandoned
    BY UnchangedStoresGrow DEF services
  <1>6. StateMatchesLocals(r)'
    BY <1>1, <1>2, <1>3, <1>4 DEF StateMatchesLocals, OrdersOf, services
  <1>7. LocalsForward(r) /\ ReplyMatchesState(r)'
    BY <1>1, <1>4 DEF LocalsForward, NoCart, ReplyMatchesState
  <1> HIDE DEF GetOrder
  <1> QED BY <1>4, <1>5, <1>6, <1>7, StepKeepsIInv

\* The sale keeps the invariant: it is made under the order and for the cart of
\* its checkout.
LEMMA UpdateInventoryKeepsIInv ==
  ASSUME IInv, TypeOK', NEW r \in Request, UpdateInventory(r)
  PROVE  IInv'
  <1> USE DEF UpdateInventory
  <1>1. state[r] = "OrderGot" /\ reply[r] = "pending"
    BY CallingStates
  <1>2. TypeOK /\ StateMatchesLocals(r)
    BY DEF IInv
  <1>3. orderId[r] \in OrdersOf(r) /\ cart[r] # {}
    BY <1>1, <1>2 DEF StateMatchesLocals
  <1>4. CASE /\ InsertSale(orderId[r], cart[r])
             /\ docNo' = [docNo EXCEPT ![r] = Len(documents) + 1]
             /\ Enter(r, "InventoryUpdated")
    <2>1. orderId[r] \in Nat /\ cart[r] \in SUBSET Item
      BY <1>2 DEF TypeOK
    <2>2. /\ StoresGrow /\ RowsEarned
          /\ DOMAIN documents' = DOMAIN documents \cup {Len(documents) + 1}
          /\ documents'[Len(documents) + 1] = [order |-> orderId[r], items |-> cart[r]]
          /\ Len(documents) + 1 # 0
      BY <1>2, <1>4, <2>1, InsertSaleGrows
    <2>3. /\ state'[r] = "InventoryUpdated" /\ reply' = reply
          /\ \A q \in Request \ {r} : SameLocals(q)
          /\ cart' = cart /\ orderId' = orderId
          /\ docNo'[r] = Len(documents) + 1
      BY <1>2, <1>4, EnterFacts DEF SameLocals, TypeOK
    <2>4. StateMatchesLocals(r)'
      BY <1>3, <2>2, <2>3 DEF StateMatchesLocals, OrdersOf, Sold
    <2>5. LocalsForward(r) /\ ReplyMatchesState(r)'
      BY <1>1, <2>2, <2>3 DEF LocalsForward, NoCart, ReplyMatchesState
    <2>6. \A d \in DOMAIN documents' \ DOMAIN documents :
            /\ documents'[d].order \in DOMAIN placed'
            /\ documents'[d].items \subseteq cart'[placed'[documents'[d].order]]
      BY <1>3, <2>2, <2>3 DEF OrdersOf
    <2> QED BY <2>2, <2>3, <2>4, <2>5, <2>6, StepKeepsIInv
  <1>5. CASE Enter(r, "InventoryUpdateFailed") /\ UNCHANGED <<documents, docNo>>
    <2>1. /\ state'[r] = "InventoryUpdateFailed" /\ reply' = reply
          /\ \A q \in Request \ {r} : SameLocals(q)
          /\ cart' = cart /\ orderId' = orderId /\ docNo' = docNo
      BY <1>2, <1>5, EnterFacts DEF SameLocals, TypeOK
    <2>2. StoresGrow /\ RowsEarned
      BY <1>5, UnchangedStoresGrow
    <2>3. StateMatchesLocals(r)'
      BY <1>1, <1>2, <2>1 DEF StateMatchesLocals, OrdersOf
    <2>4. LocalsForward(r) /\ ReplyMatchesState(r)'
      BY <1>1, <2>1 DEF LocalsForward, NoCart, ReplyMatchesState
    <2> QED BY <1>5, <2>1, <2>2, <2>3, <2>4, StepKeepsIInv
  <1> QED BY <1>4, <1>5

\* Removing the basket keeps the invariant: the whole cart has been sold.
LEMMA DeleteBasketKeepsIInv ==
  ASSUME IInv, TypeOK', NEW r \in Request, DeleteBasket(r)
  PROVE  IInv'
  <1> USE DEF DeleteBasket
  <1>1. state[r] = "InventoryUpdated" /\ reply[r] = "pending"
    BY CallingStates
  <1>2. TypeOK /\ StateMatchesLocals(r)
    BY DEF IInv
  <1>3. PICK s \in {"BasketDeleted", "InventoryUpdateFailed"} : Enter(r, s)
    OBVIOUS
  <1>4. /\ state'[r] = s /\ reply' = reply
        /\ \A q \in Request \ {r} : SameLocals(q)
        /\ cart' = cart /\ orderId' = orderId /\ docNo' = docNo
    BY <1>2, <1>3, EnterFacts DEF SameLocals, TypeOK
  <1>5. StoresGrow /\ RowsEarned /\ documents' = documents /\ abandoned' = abandoned
    BY UnchangedStoresGrow
  <1>6. StateMatchesLocals(r)'
    BY <1>1, <1>2, <1>3, <1>4 DEF StateMatchesLocals, Sold, OrdersOf
  <1>7. LocalsForward(r) /\ ReplyMatchesState(r)'
    BY <1>1, <1>4 DEF LocalsForward, NoCart, ReplyMatchesState
  <1> HIDE DEF DeleteBasket
  <1> QED BY <1>4, <1>5, <1>6, <1>7, StepKeepsIInv

\* A step that only answers the caller.
LEMMA AnsweringKeepsIInv ==
  ASSUME IInv, TypeOK', NEW r \in Request, NEW v \in Reply \ {"pending"},
         reply' = [reply EXCEPT ![r] = v],
         v = "success" <=> state[r] = "BasketDeleted",
         UNCHANGED <<services, state, cart, orderId, docNo>>
  PROVE  IInv'
  <1>1. TypeOK /\ StateMatchesLocals(r)
    BY DEF IInv
  <1>2. StoresGrow /\ RowsEarned /\ documents' = documents /\ abandoned' = abandoned
    BY UnchangedStoresGrow DEF services
  <1>3. \A q \in Request : SameLocals(q)
    BY DEF SameLocals
  <1>4. \A q \in Request \ {r} : reply'[q] = reply[q]
    BY <1>1 DEF TypeOK
  <1>5. StateMatchesLocals(r)' /\ LocalsForward(r)
    BY <1>2, <1>3, MatchStable DEF LocalsForward, SameLocals
  <1>6. ReplyMatchesState(r)'
    BY <1>1 DEF ReplyMatchesState, TypeOK
  <1> QED BY <1>2, <1>3, <1>4, <1>5, <1>6, StepKeepsIInv

\* An exception out of CreateOrder keeps the invariant: it answers the caller
\* only.
LEMMA ThrowsKeepIInv ==
  ASSUME IInv, TypeOK', NEW r \in Request, FireThrows(r)
  PROVE  IInv'
  <1>1. state[r] # "BasketDeleted"
    BY DEF FireThrows, EntryTrigger
  <1>2. /\ reply' = [reply EXCEPT ![r] = "threw"]
        /\ UNCHANGED <<services, state, cart, orderId, docNo>>
    BY DEF FireThrows, Throw
  <1>3. "threw" \in Reply \ {"pending"}
    BY DEF Reply
  <1> QED BY <1>1, <1>2, <1>3, AnsweringKeepsIInv

\* The answer keeps the invariant: success exactly when the basket was removed.
LEMMA AnswerKeepsIInv ==
  ASSUME IInv, TypeOK', NEW r \in Request, Answer(r)
  PROVE  IInv'
  <1> DEFINE v == IF state[r] = "BasketDeleted" THEN "success" ELSE "failure"
  <1>1. /\ v \in Reply \ {"pending"}
        /\ v = "success" <=> state[r] = "BasketDeleted"
    BY DEF Reply
  <1>2. reply' = [reply EXCEPT ![r] = v]
    BY DEF Answer
  <1>3. UNCHANGED <<services, state, cart, orderId, docNo>>
    BY DEF Answer
  <1> HIDE DEF v
  <1> QED BY <1>1, <1>2, <1>3, AnsweringKeepsIInv

\* Losing an attempt abandons one that is justified, and moves nothing else.
LEMMA LostAttempts ==
  ASSUME IInv, NEW r \in Request, LoseAttempt(r)
  PROVE  /\ \A a \in abandoned' \ abandoned : AttemptIsJustified(a)'
         /\ state[r] # "BasketDeleted" /\ reply[r] = "pending"
         /\ UNCHANGED <<basket, placed, deleted, documents, state, cart, orderId, docNo>>
  <1>1. PICK t \in WriteCall \cup {"GetBasket", "GetOrder"} :
          /\ Calling(r, t)
          /\ Abandon(r, t, orderId[r], cart[r], attempt[r])
    BY DEF LoseAttempt
  <1>2. UNCHANGED <<basket, placed, deleted, documents, state, cart, orderId, docNo>>
    BY DEF LoseAttempt
  <1>3. StateMatchesLocals(r)
    BY DEF IInv
  <1>4. state[r] # "BasketDeleted" /\ reply[r] = "pending"
    BY <1>1 DEF Calling, EntryTrigger, WriteCall
  <1>5. ASSUME NEW a \in abandoned' \ abandoned PROVE AttemptIsJustified(a)'
    <2>1. /\ t \in WriteCall
          /\ a = [req |-> r, call |-> t, order |-> orderId[r], items |-> cart[r],
                  try |-> attempt[r]]
      BY <1>1, <1>5 DEF Abandon
    <2>2. AttemptIsJustified(a)
      BY <1>1, <1>3, <2>1, CallingStates
      DEF AttemptIsJustified, StateMatchesLocals, WriteCall
    <2> QED BY <1>2, <2>2 DEF AttemptIsJustified, OrdersOf
  <1> QED BY <1>2, <1>4, <1>5

\* Losing an attempt keeps the invariant, whether it is retried or not.
LEMMA LosingKeepsIInv ==
  ASSUME IInv, TypeOK', NEW r \in Request, AttemptRetried(r) \/ AttemptFatal(r)
  PROVE  IInv'
  <1>1. LoseAttempt(r)
    BY DEF AttemptRetried, AttemptFatal
  <1>2. TypeOK
    BY DEF IInv
  <1>3. reply' = reply \/ reply' = [reply EXCEPT ![r] = "threw"]
    BY DEF AttemptRetried, AttemptFatal, Throw
  <1>4. \A q \in Request : SameLocals(q)
    BY <1>1, LostAttempts DEF SameLocals
  <1>5. StoresGrow /\ RowsEarned /\ documents' = documents
    BY <1>1, LostAttempts, UnchangedStoresGrow
  <1>6. StateMatchesLocals(r)' /\ LocalsForward(r)
    BY <1>4, <1>5, MatchStable DEF LocalsForward, SameLocals
  <1>7. ReplyMatchesState(r)' /\ \A q \in Request \ {r} : reply'[q] = reply[q]
    BY <1>1, <1>2, <1>3, LostAttempts DEF ReplyMatchesState, TypeOK
  <1> QED BY <1>1, <1>4, <1>5, <1>6, <1>7, LostAttempts, StepKeepsIInv

\* Steps that leave every saga's locals alone: nobody is r here, so any will do.
LEMMA OutsideKeepsIInv ==
  ASSUME IInv, TypeOK', UNCHANGED locals, StoresGrow, RowsEarned,
         abandoned' \subseteq abandoned,
         \A d \in DOMAIN documents' \ DOMAIN documents :
           /\ documents'[d].order \in DOMAIN placed'
           /\ documents'[d].items \subseteq cart'[placed'[documents'[d].order]]
  PROVE  IInv'
  <1>1. \A q \in Request : SameLocals(q) /\ LocalsForward(q)
    BY DEF locals, SameLocals, LocalsForward
  <1>2. \A q \in Request : StateMatchesLocals(q)'
    BY <1>1, MatchStable
  <1>3. SaleHasItsOrder'
    BY <1>1, SalesStable DEF SaleHasItsOrder
  <1>4. \A a \in abandoned : a.req \in Request
    BY DEF IInv, TypeOK, ServicesTypeOK, Attempt
  <1>5. \A a \in abandoned' : AttemptIsJustified(a)'
    BY <1>1, <1>4, AttemptStable
  <1> QED BY <1>2, <1>3, <1>5 DEF IInv, locals

\* Executing an abandoned attempt late keeps the invariant: it was justified
\* when sent.
LEMMA LateArrivalKeepsIInv ==
  ASSUME IInv, TypeOK', NEW a \in abandoned, LateArrival(a)
  PROVE  IInv'
  <1>1. UNCHANGED locals
    BY DEF LateArrival
  <1>2. TypeOK /\ AttemptIsJustified(a)
    BY DEF IInv
  <1>3. /\ a \in Attempt /\ a.req \in Request /\ a.order \in Nat
        /\ a.items \in SUBSET Item
    BY <1>2 DEF TypeOK, ServicesTypeOK, Attempt
  <1>4. CASE LateCreateOrder(a)
    <2>1. /\ StoresGrow
          /\ DOMAIN placed' = DOMAIN placed \cup {Len(placed) + 1}
          /\ placed'[Len(placed) + 1] = a.req
      BY <1>2, <1>3, <1>4, InsertOrderGrows DEF LateCreateOrder
    <2>2. RowsEarned
      BY <1>2, <2>1 DEF RowsEarned, AttemptIsJustified, NoCart
    <2> QED BY <1>1, <1>4, <2>1, <2>2, OutsideKeepsIInv DEF LateCreateOrder
  <1>5. CASE LateUpdateInventory(a)
    <2>1. PICK sold \in SUBSET a.items : InsertSale(a.order, sold)
      BY <1>5 DEF LateUpdateInventory
    <2>2. /\ StoresGrow /\ RowsEarned
          /\ DOMAIN documents' = DOMAIN documents \cup {Len(documents) + 1}
          /\ documents'[Len(documents) + 1] = [order |-> a.order, items |-> sold]
      BY <1>2, <1>3, <1>5, <2>1, InsertSaleGrows DEF LateUpdateInventory
    <2>3. a.order \in OrdersOf(a.req) /\ sold \subseteq cart[a.req]
      BY <1>2, <1>5, <2>1 DEF AttemptIsJustified, LateUpdateInventory
    <2>4. cart' = cart /\ placed' = placed
      BY <1>1, <1>5 DEF locals, LateUpdateInventory
    <2>5. \A d \in DOMAIN documents' \ DOMAIN documents :
            /\ documents'[d].order \in DOMAIN placed'
            /\ documents'[d].items \subseteq cart'[placed'[documents'[d].order]]
      BY <2>2, <2>3, <2>4 DEF OrdersOf
    <2> QED BY <1>1, <1>5, <2>2, <2>5, OutsideKeepsIInv DEF LateUpdateInventory
  <1>6. CASE LateDeleteBasket(a)
    BY <1>1, <1>6, UnchangedStoresGrow, OutsideKeepsIInv DEF LateDeleteBasket
  <1> QED BY <1>4, <1>5, <1>6 DEF LateArrival

\* Shoppers and API clients keep the invariant: it does not speak of what they
\* change.
LEMMA OtherClientsKeepIInv ==
  ASSUME IInv, TypeOK', UNCHANGED locals, UNCHANGED <<placed, documents, abandoned>>
  PROVE  IInv'
  BY UnchangedStoresGrow, OutsideKeepsIInv

\* The invariant holds of the initial stores.
LEMMA InitIInv == Init => IInv
  <1> SUFFICES ASSUME Init PROVE IInv
    OBVIOUS
  <1>1. TypeOK
    BY InitTypeOK
  <1>2. placed = <<>> /\ documents = <<>> /\ abandoned = {}
    BY DEF Init, ServicesInit
  <1>3. DOMAIN placed = {} /\ DOMAIN documents = {}
    BY <1>2
  <1>4. \A r \in Request : StateMatchesLocals(r) /\ reply[r] = "pending"
    BY <1>3 DEF Init, StateMatchesLocals
  <1> QED BY <1>1, <1>2, <1>3, <1>4 DEF IInv, SaleHasItsOrder

\* Every step keeps the invariant.
LEMMA NextIInv == IInv /\ [Next]_vars => IInv'
  <1> SUFFICES ASSUME IInv, [Next]_vars PROVE IInv'
    OBVIOUS
  <1>1. TypeOK'
    BY NextTypeOK DEF IInv
  <1>2. ASSUME NEW r \in Request, Advance(r) PROVE IInv'
    BY <1>1, <1>2, GetBasketKeepsIInv, CreateOrderKeepsIInv, GetOrderKeepsIInv,
       UpdateInventoryKeepsIInv, DeleteBasketKeepsIInv, ThrowsKeepIInv,
       AnswerKeepsIInv, LosingKeepsIInv
    DEF Advance
  <1>3. ASSUME NEW a \in abandoned, LateArrival(a) PROVE IInv'
    BY <1>1, <1>3, LateArrivalKeepsIInv
  <1>4. ASSUME NEW u \in User, Shopper(u) PROVE IInv'
    BY <1>1, <1>4, OtherClientsKeepIInv DEF Shopper, ShopperChangesBasket
  <1>5. ASSUME NEW n \in LiveOrder, Client(n) PROVE IInv'
    BY <1>1, <1>5, OtherClientsKeepIInv DEF Client, ClientDeletesOrder
  <1>6. CASE UNCHANGED vars
    BY <1>1, <1>6, OtherClientsKeepIInv DEF vars, services, locals
  <1> QED BY <1>2, <1>3, <1>4, <1>5, <1>6 DEF Next

\* The inductive invariant holds throughout.
THEOREM Invariant == Spec => []IInv
  BY InitIInv, NextIInv, PTL DEF Spec

-----------------------------------------------------------------------------
(* The properties.                                                         *)

\* Stock is only taken under an order of the checkout, for items of its cart.
THEOREM SalesHaveOrders == Spec => []SaleHasItsOrder
  <1>1. IInv => SaleHasItsOrder
    BY DEF IInv
  <1> QED BY <1>1, Invariant, PTL

\* Success is answered only when the whole cart was sold under the order.
THEOREM SuccessIsSold == Spec => []SuccessMeansSold
  <1>1. IInv => SuccessMeansSold
    BY DEF IInv, SuccessMeansSold, StateMatchesLocals
  <1> QED BY <1>1, Invariant, PTL

\* A step that changes a basket is its shopper's, or empties it after the sale.
LEMMA BasketStep ==
  ASSUME IInv, Next, NEW u \in User, basket'[u] # basket[u]
  PROVE  \/ Shopper(u)
         \/ basket'[u] = {} /\ \E r \in Request : UserOf[r] = u /\ Sold(r)
  <1> USE DEF IInv
  <1>1. TypeOK
    OBVIOUS
  <1>2. ASSUME NEW r \in Request, Advance(r)
        PROVE  basket'[u] = {} /\ UserOf[r] = u /\ Sold(r)
    <2>1. CASE DeleteBasket(r)
      <3>1. RemoveBasket(UserOf[r])
        BY <2>1 DEF DeleteBasket
      <3>2. basket'[u] = {} /\ UserOf[r] = u
        BY <1>1, <3>1 DEF RemoveBasket, TypeOK, ServicesTypeOK
      <3>3. Sold(r)
        BY <2>1, CallingStates DEF DeleteBasket, StateMatchesLocals
      <3> QED BY <3>2, <3>3
    <2>2. CASE ~DeleteBasket(r)
      BY <1>2, <2>2
      DEF Advance, GetBasket, CreateOrder, GetOrder,
          UpdateInventory, FireThrows, Answer, AttemptRetried, AttemptFatal,
          LoseAttempt, services
    <2> QED BY <2>1, <2>2
  <1>3. ASSUME NEW a \in abandoned, LateArrival(a)
        PROVE  basket'[u] = {} /\ a.req \in Request /\ UserOf[a.req] = u /\ Sold(a.req)
    <2>1. LateDeleteBasket(a)
      BY <1>3 DEF LateArrival, LateCreateOrder, LateUpdateInventory
    <2>2. a.req \in Request
      BY <1>1 DEF TypeOK, ServicesTypeOK, Attempt
    <2>3. basket'[u] = {} /\ UserOf[a.req] = u
      BY <1>1, <2>1 DEF LateDeleteBasket, RemoveBasket, TypeOK, ServicesTypeOK
    <2>4. docNo[a.req] # 0
      BY <2>1 DEF LateDeleteBasket, AttemptIsJustified
    <2>5. Sold(a.req)
      BY <2>2, <2>4 DEF StateMatchesLocals
    <2> QED BY <2>2, <2>3, <2>5
  <1>4. ASSUME NEW v \in User, Shopper(v) PROVE Shopper(u)
    <2>1. v = u
      BY <1>1, <1>4 DEF Shopper, ShopperChangesBasket, TypeOK, ServicesTypeOK
    <2> QED BY <1>4, <2>1
  <1>5. ASSUME NEW n \in LiveOrder PROVE ~Client(n)
    BY DEF Client, ClientDeletesOrder
  <1> QED BY <1>2, <1>3, <1>4, <1>5 DEF Next

\* No checkout, in time or late, empties the basket of a cart it did not sell.
THEOREM BasketsClearedAfterSale == Spec => BasketClearedAfterSale
  <1>1. IInv /\ [Next]_vars =>
          [\A u \in User :
             basket'[u] # basket[u] =>
               \/ Shopper(u)
               \/ basket'[u] = {} /\ \E r \in Request : UserOf[r] = u /\ Sold(r)]_vars
    BY BasketStep
  <1> QED BY <1>1, Invariant, PTL DEF Spec, BasketClearedAfterSale

-----------------------------------------------------------------------------
(* Counting: how many orders and sales documents a checkout may leave.      *)

\* What is counted is finite, so that the counts are numbers.
LEMMA CountsAreNumbers ==
  ASSUME TypeOK, IsFiniteSet(abandoned), NEW q
  PROVE  /\ IsFiniteSet(OrdersOf(q)) /\ IsFiniteSet(DocumentsOf(q))
         /\ \A c : IsFiniteSet(AttemptsOf(q, c)) /\ Cardinality(AttemptsOf(q, c)) \in Nat
         /\ Cardinality(OrdersOf(q)) \in Nat /\ Cardinality(DocumentsOf(q)) \in Nat
         /\ OrdersSent(q) \in Nat /\ SalesSent(q) \in Nat
  <1>1. /\ DOMAIN placed = 1 .. Len(placed) /\ Len(placed) \in Nat
        /\ DOMAIN documents = 1 .. Len(documents) /\ Len(documents) \in Nat
    BY DEF TypeOK, ServicesTypeOK
  <1>2. IsFiniteSet(DOMAIN placed) /\ IsFiniteSet(DOMAIN documents)
    BY <1>1, FS_Interval
  <1>3. IsFiniteSet(OrdersOf(q)) /\ IsFiniteSet(DocumentsOf(q))
    BY <1>2, FS_Subset DEF OrdersOf, DocumentsOf
  <1>4. \A c : IsFiniteSet(AttemptsOf(q, c))
    BY FS_Subset DEF AttemptsOf
  <1> QED BY <1>3, <1>4, FS_CardinalityType DEF OrdersSent, SalesSent

\* A new order row counts once, for its own checkout; no document becomes another's.
LEMMA InsertOrderCounts ==
  ASSUME TypeOK, SaleHasItsOrder, IsFiniteSet(abandoned),
         NEW q \in Request, InsertOrder(q), documents' = documents
  PROVE  /\ Cardinality(OrdersOf(q))' = Cardinality(OrdersOf(q)) + 1
         /\ \A p \in Request \ {q} : OrdersOf(p)' = OrdersOf(p)
         /\ \A p \in Request : DocumentsOf(p)' = DocumentsOf(p)
  <1>1. /\ StoresGrow
        /\ DOMAIN placed' = DOMAIN placed \cup {Len(placed) + 1}
        /\ placed'[Len(placed) + 1] = q
    BY InsertOrderGrows
  <1>2. Len(placed) + 1 \notin DOMAIN placed
    BY DEF TypeOK, ServicesTypeOK
  <1>3. OrdersOf(q)' = OrdersOf(q) \cup {Len(placed) + 1}
    BY <1>1, <1>2 DEF OrdersOf, StoresGrow
  <1>4. \A p \in Request \ {q} : OrdersOf(p)' = OrdersOf(p)
    BY <1>1, <1>2 DEF OrdersOf, StoresGrow
  <1>5. \A p \in Request : DocumentsOf(p)' = DocumentsOf(p)
    <2> SUFFICES ASSUME NEW p \in Request PROVE DocumentsOf(p)' = DocumentsOf(p)
      OBVIOUS
    <2>1. \A d \in DOMAIN documents :
            documents[d].order \in OrdersOf(p)' <=> documents[d].order \in OrdersOf(p)
      BY <1>1 DEF SaleHasItsOrder, OrdersOf, StoresGrow
    <2> QED BY <2>1 DEF DocumentsOf
  <1>6. Len(placed) + 1 \notin OrdersOf(q) /\ IsFiniteSet(OrdersOf(q))
    BY <1>2, CountsAreNumbers DEF OrdersOf
  <1>7. Cardinality(OrdersOf(q) \cup {Len(placed) + 1}) = Cardinality(OrdersOf(q)) + 1
    BY <1>6, FS_AddElement
  <1> QED BY <1>3, <1>4, <1>5, <1>7

\* A new sales document counts once, for the checkout whose order it names.
LEMMA InsertSaleCounts ==
  ASSUME TypeOK, IsFiniteSet(abandoned), placed' = placed,
         NEW q \in Request, NEW n \in OrdersOf(q), NEW items \in SUBSET Item,
         InsertSale(n, items)
  PROVE  /\ Cardinality(DocumentsOf(q))' = Cardinality(DocumentsOf(q)) + 1
         /\ \A p \in Request \ {q} : DocumentsOf(p)' = DocumentsOf(p)
         /\ \A p \in Request : OrdersOf(p)' = OrdersOf(p)
  <1>1. n \in Nat /\ placed[n] = q
    BY DEF TypeOK, ServicesTypeOK, OrdersOf
  <1>2. /\ StoresGrow
        /\ DOMAIN documents' = DOMAIN documents \cup {Len(documents) + 1}
        /\ documents'[Len(documents) + 1] = [order |-> n, items |-> items]
    BY <1>1, InsertSaleGrows
  <1>3. Len(documents) + 1 \notin DOMAIN documents
    BY DEF TypeOK, ServicesTypeOK
  <1>4. \A p \in Request : OrdersOf(p)' = OrdersOf(p)
    BY DEF OrdersOf
  <1>5. DocumentsOf(q)' = DocumentsOf(q) \cup {Len(documents) + 1}
    BY <1>2, <1>3, <1>4 DEF DocumentsOf, StoresGrow
  <1>6. ASSUME NEW p \in Request \ {q} PROVE DocumentsOf(p)' = DocumentsOf(p)
    <2>1. n \notin OrdersOf(p)
      BY <1>1 DEF OrdersOf
    <2> QED BY <1>2, <1>3, <1>4, <2>1 DEF DocumentsOf, StoresGrow
  <1>7. Len(documents) + 1 \notin DocumentsOf(q) /\ IsFiniteSet(DocumentsOf(q))
    BY <1>3, CountsAreNumbers DEF DocumentsOf
  <1>8. Cardinality(DocumentsOf(q) \cup {Len(documents) + 1}) = Cardinality(DocumentsOf(q)) + 1
    BY <1>7, FS_AddElement
  <1> QED BY <1>4, <1>5, <1>6, <1>8

\* Executing an abandoned attempt takes it off the count of its call.
LEMMA ArrivalCounts ==
  ASSUME TypeOK, IsFiniteSet(abandoned), NEW a \in abandoned,
         abandoned' = abandoned \ {a}
  PROVE  /\ IsFiniteSet(abandoned)'
         /\ Cardinality(AttemptsOf(a.req, a.call))' =
              Cardinality(AttemptsOf(a.req, a.call)) - 1
         /\ \A q, c : (q # a.req \/ c # a.call) => AttemptsOf(q, c)' = AttemptsOf(q, c)
  <1>1. IsFiniteSet(AttemptsOf(a.req, a.call))
    BY CountsAreNumbers
  <1>6. a \in AttemptsOf(a.req, a.call)
    BY DEF AttemptsOf
  <1>2. AttemptsOf(a.req, a.call)' = AttemptsOf(a.req, a.call) \ {a}
    BY DEF AttemptsOf
  <1>3. Cardinality(AttemptsOf(a.req, a.call) \ {a}) =
          Cardinality(AttemptsOf(a.req, a.call)) - 1
    BY <1>1, <1>6, FS_RemoveElement
  <1>4. IsFiniteSet(abandoned \ {a})
    BY FS_RemoveElement
  <1>5. \A q, c : (q # a.req \/ c # a.call) => AttemptsOf(q, c)' = AttemptsOf(q, c)
    BY DEF AttemptsOf
  <1> QED BY <1>2, <1>3, <1>4, <1>5

\* Abandoning an attempt adds at most one to the count of its call.
LEMMA AbandonCounts ==
  ASSUME TypeOK, IsFiniteSet(abandoned), NEW r \in Request, NEW t,
         NEW n, NEW items, NEW k, Abandon(r, t, n, items, k)
  PROVE  /\ IsFiniteSet(abandoned)'
         /\ Cardinality(AttemptsOf(r, t))' \in Nat
         /\ Cardinality(AttemptsOf(r, t))' <= Cardinality(AttemptsOf(r, t)) + 1
         /\ \A q, c : (q # r \/ c # t) => AttemptsOf(q, c)' = AttemptsOf(q, c)
  <1> DEFINE a == [req |-> r, call |-> t, order |-> n, items |-> items, try |-> k]
  <1>1. /\ IsFiniteSet(AttemptsOf(r, t))
        /\ Cardinality(AttemptsOf(r, t)) \in Nat
    BY CountsAreNumbers
  <1>2. CASE t \in WriteCall
    <2>1. abandoned' = abandoned \cup {a}
      BY <1>2 DEF Abandon
    <2>2. a.req = r /\ a.call = t
      OBVIOUS
    <2> HIDE DEF a
    <2>3. AttemptsOf(r, t)' = AttemptsOf(r, t) \cup {a}
      BY <2>1, <2>2 DEF AttemptsOf
    <2>4. \A q, c : (q # r \/ c # t) => AttemptsOf(q, c)' = AttemptsOf(q, c)
      BY <2>1, <2>2 DEF AttemptsOf
    <2>5. /\ IsFiniteSet(abandoned \cup {a})
          /\ Cardinality(AttemptsOf(r, t) \cup {a})
               \in {Cardinality(AttemptsOf(r, t)), Cardinality(AttemptsOf(r, t)) + 1}
      BY <1>1, FS_AddElement
    <2> QED BY <1>1, <2>1, <2>3, <2>4, <2>5
  <1>3. CASE t \notin WriteCall
    <2>1. abandoned' = abandoned
      BY <1>3 DEF Abandon
    <2> QED BY <1>1, <2>1 DEF AttemptsOf
  <1> QED BY <1>2, <1>3

\* The locals that decide a checkout's budgets.
SameBudget(q) ==
  /\ SameLocals(q)
  /\ reply'[q] = reply[q]
  /\ attempt'[q] = attempt[q]
  /\ broken'[q] = broken[q]

\* An order that had gone does not come back: rows are only added at the end.
LEMMA GoneStaysGone ==
  ASSUME TypeOK, StoresGrow, deleted \subseteq deleted', NEW n \in DOMAIN placed,
         n \notin LiveOrder
  PROVE  (n \notin LiveOrder)'
  BY DEF LiveOrder

\* A checkout stays within its budgets while these and what it sent stay.
LEMMA CountedStable ==
  ASSUME IInv, CountInv, StoresGrow, deleted \subseteq deleted',
         NEW q \in Request, SameBudget(q),
         OrdersSent(q)' = OrdersSent(q), SalesSent(q)' = SalesSent(q)
  PROVE  Counted(q)'
  <1>1. TypeOK /\ StateMatchesLocals(q) /\ Counted(q)
    BY DEF IInv, CountInv
  <1>2. OrderBudget(q)' = OrderBudget(q) /\ SaleBudget(q)' = SaleBudget(q)
    BY DEF SameBudget, SameLocals, OrderBudget, SaleBudget
  <1>3. state[q] = "OrderGetFailed" => orderId[q] \in DOMAIN placed
    BY <1>1 DEF StateMatchesLocals, OrdersOf
  <1>4. state'[q] = "OrderGetFailed" => (orderId[q] \notin LiveOrder)'
    BY <1>1, <1>3, GoneStaysGone DEF Counted, SameBudget, SameLocals
  <1> QED BY <1>1, <1>2, <1>4 DEF Counted, SameBudget, SameLocals

\* What is sent by a checkout depends on the stores and its own attempts only.
LEMMA SentStable ==
  ASSUME NEW q, OrdersOf(q)' = OrdersOf(q), DocumentsOf(q)' = DocumentsOf(q),
         \A c : AttemptsOf(q, c)' = AttemptsOf(q, c)
  PROVE  OrdersSent(q)' = OrdersSent(q) /\ SalesSent(q)' = SalesSent(q)
  BY DEF OrdersSent, SalesSent

\* The same for a step that leaves orders, documents and attempts alone.
LEMMA StoresSent ==
  ASSUME UNCHANGED <<placed, documents, abandoned>>, NEW q
  PROVE  OrdersSent(q)' = OrdersSent(q) /\ SalesSent(q)' = SalesSent(q)
  BY DEF OrdersSent, SalesSent, OrdersOf, DocumentsOf, AttemptsOf

\* Entering a state leaves the budgets of every other checkout alone, and starts
\* the count of attempts anew.
LEMMA EnterBudget ==
  ASSUME TypeOK, NEW r \in Request, NEW s, Enter(r, s)
  PROVE  /\ state'[r] = s /\ attempt'[r] = 0 /\ reply' = reply /\ broken' = broken
         /\ \A q \in Request \ {r} :
              state'[q] = state[q] /\ attempt'[q] = attempt[q]
  BY DEF Enter, TypeOK

\* The calls that send nothing the counts see: each enters a state whose budgets
\* are at least those of the state it leaves.
LEMMA ReadsKeepCount ==
  ASSUME IInv, CountInv, NEW r \in Request, GetBasket(r) \/ GetOrder(r) \/ DeleteBasket(r)
  PROVE  CountInv'
  <1>1. TypeOK /\ Counted(r)
    BY DEF IInv, CountInv
  <1>2. /\ UNCHANGED <<placed, deleted, documents, abandoned, orderId>>
        /\ \A q \in Request \ {r} : cart'[q] = cart[q] /\ docNo'[q] = docNo[q]
    BY <1>1 DEF GetBasket, GetOrder, DeleteBasket, services, TypeOK
  <1>3. \A q \in Request : OrdersSent(q)' = OrdersSent(q) /\ SalesSent(q)' = SalesSent(q)
    BY <1>2, StoresSent
  <1>4. PICK s \in EOrderTransactionState : Enter(r, s)
    BY DEF GetBasket, GetOrder, DeleteBasket, EOrderTransactionState
  <1>5. \A q \in Request \ {r} : SameBudget(q)
    BY <1>1, <1>2, <1>4, EnterBudget DEF SameBudget, SameLocals
  <1>6. StoresGrow
    BY <1>2, UnchangedStoresGrow
  <1>7. \A q \in Request \ {r} : Counted(q)'
    BY <1>2, <1>3, <1>5, <1>6, CountedStable
  <1>8. /\ OrdersSent(r) \in Nat /\ SalesSent(r) \in Nat
        /\ OrdersSent(r)' = OrdersSent(r) /\ SalesSent(r)' = SalesSent(r)
        /\ OrdersSent(r) <= OrderBudget(r) /\ SalesSent(r) <= SaleBudget(r)
    BY <1>1, <1>3, CountsAreNumbers DEF CountInv, Counted
  <1>9. /\ attempt'[r] = 0 /\ reply'[r] = "pending" /\ broken'[r] = broken[r]
        /\ reply[r] = "pending"
    BY <1>4, EnterBudget, <1>1 DEF GetBasket, GetOrder, DeleteBasket, Calling
  <1>10. MaxAttempts \in Nat \ {0}
    BY ServicesAssumption
  <1>11. ASSUME GetBasket(r) PROVE Counted(r)'
    <2>1. state[r] = "NotStarted" /\ state'[r] \in {"BasketGot", "BasketGetFailed"}
      BY <1>1, <1>11, EnterBudget, CallingStates DEF GetBasket
    <2> QED
      BY <1>8, <1>9, <2>1 DEF Counted, OrderBudget, SaleBudget
  <1>12. ASSUME GetOrder(r) PROVE Counted(r)'
    <2>1. state[r] = "OrderCreated" /\ state'[r] \in {"OrderGot", "OrderGetFailed"}
      BY <1>1, <1>12, EnterBudget, CallingStates DEF GetOrder
    <2>2. state'[r] = "OrderGetFailed" => (orderId[r] \notin LiveOrder)'
      BY <1>1, <1>2, <1>12, EnterBudget DEF GetOrder, LiveOrder
    <2> QED
      BY <1>8, <1>9, <2>1, <2>2 DEF Counted, OrderBudget, SaleBudget
  <1>13. ASSUME DeleteBasket(r) PROVE Counted(r)'
    <2>1. /\ state[r] = "InventoryUpdated"
          /\ state'[r] \in {"BasketDeleted", "InventoryUpdateFailed"}
      BY <1>1, <1>13, EnterBudget, CallingStates DEF DeleteBasket
    <2> QED
      BY <1>8, <1>9, <2>1 DEF Counted, OrderBudget, SaleBudget
  <1>14. Counted(r)' /\ IsFiniteSet(abandoned)'
    BY <1>2, <1>11, <1>12, <1>13 DEF CountInv
  <1> QED BY <1>7, <1>14 DEF CountInv

\* An order inserted in time is one more than the attempts that broke before it.
LEMMA CreateOrderKeepsCount ==
  ASSUME IInv, CountInv, NEW r \in Request, CreateOrder(r)
  PROVE  CountInv'
  <1>1. TypeOK /\ Counted(r) /\ IsFiniteSet(abandoned) /\ SaleHasItsOrder
    BY DEF IInv, CountInv
  <1>2. state[r] = "BasketGot" /\ reply[r] = "pending"
    BY CallingStates DEF CreateOrder
  <1>3. UNCHANGED <<basket, deleted, documents, abandoned, cart, docNo>>
    BY DEF CreateOrder
  <1>4. /\ OrdersSent(r) \in Nat /\ SalesSent(r) \in Nat /\ MaxAttempts \in Nat \ {0}
        /\ attempt[r] \in 0 .. MaxAttempts - 1
        /\ OrdersSent(r) <= attempt[r] /\ SalesSent(r) <= 0
        /\ Cardinality(OrdersOf(r)) \in Nat
        /\ Cardinality(AttemptsOf(r, "CreateOrder")) \in Nat
    BY <1>1, <1>2, CountsAreNumbers, ServicesAssumption
    DEF Counted, OrderBudget, SaleBudget, TypeOK
  <1>5. CASE /\ InsertOrder(r)
             /\ orderId' = [orderId EXCEPT ![r] = Len(placed) + 1]
             /\ Enter(r, "OrderCreated")
    <2>1. StoresGrow
      BY <1>1, <1>3, <1>5, InsertOrderGrows
    <2>2. /\ Cardinality(OrdersOf(r))' = Cardinality(OrdersOf(r)) + 1
          /\ \A p \in Request \ {r} : OrdersOf(p)' = OrdersOf(p)
          /\ \A p \in Request : DocumentsOf(p)' = DocumentsOf(p)
      BY <1>1, <1>3, <1>5, InsertOrderCounts
    <2>3. \A p, c : AttemptsOf(p, c)' = AttemptsOf(p, c)
      BY <1>3 DEF AttemptsOf
    <2>4. \A q \in Request \ {r} : SameBudget(q)
      BY <1>1, <1>3, <1>5, EnterBudget DEF SameBudget, SameLocals, TypeOK
    <2>5. \A q \in Request \ {r} : Counted(q)'
      BY <1>3, <2>1, <2>2, <2>3, <2>4, SentStable, CountedStable
    <2>6. OrdersSent(r)' = OrdersSent(r) + 1 /\ SalesSent(r)' = SalesSent(r)
      BY <1>4, <2>2, <2>3 DEF OrdersSent, SalesSent
    <2>7. /\ state'[r] = "OrderCreated" /\ attempt'[r] = 0 /\ reply'[r] = "pending"
          /\ broken'[r] = broken[r]
      BY <1>1, <1>2, <1>5, EnterBudget
    <2>8. Counted(r)'
      BY <1>1, <1>4, <2>6, <2>7 DEF Counted, OrderBudget, SaleBudget
    <2> QED BY <1>1, <1>3, <2>5, <2>8 DEF CountInv
  <1>6. CASE Enter(r, "OrderCreateFailed") /\ UNCHANGED <<placed, orderId>>
    <2>1. StoresGrow /\ \A q \in Request :
            OrdersSent(q)' = OrdersSent(q) /\ SalesSent(q)' = SalesSent(q)
      BY <1>3, <1>6, UnchangedStoresGrow, StoresSent
    <2>2. \A q \in Request \ {r} : SameBudget(q)
      BY <1>1, <1>3, <1>6, EnterBudget DEF SameBudget, SameLocals, TypeOK
    <2>3. \A q \in Request \ {r} : Counted(q)'
      BY <1>3, <2>1, <2>2, CountedStable
    <2>4. /\ state'[r] = "OrderCreateFailed" /\ attempt'[r] = 0 /\ reply'[r] = "pending"
          /\ broken'[r] = broken[r]
      BY <1>1, <1>2, <1>6, EnterBudget
    <2>5. Counted(r)'
      BY <1>1, <1>4, <2>1, <2>4 DEF Counted, OrderBudget, SaleBudget
    <2> QED BY <1>1, <1>3, <2>3, <2>5 DEF CountInv
  <1> QED BY <1>5, <1>6 DEF CreateOrder

\* A sale made in time is one more than the attempts that broke before it.
LEMMA UpdateInventoryKeepsCount ==
  ASSUME IInv, CountInv, NEW r \in Request, UpdateInventory(r)
  PROVE  CountInv'
  <1>1. TypeOK /\ Counted(r) /\ IsFiniteSet(abandoned) /\ StateMatchesLocals(r)
    BY DEF IInv, CountInv
  <1>2. state[r] = "OrderGot" /\ reply[r] = "pending"
    BY CallingStates DEF UpdateInventory
  <1>3. UNCHANGED <<basket, placed, deleted, abandoned, cart, orderId>>
    BY DEF UpdateInventory
  <1>4. /\ OrdersSent(r) \in Nat /\ SalesSent(r) \in Nat /\ MaxAttempts \in Nat \ {0}
        /\ attempt[r] \in 0 .. MaxAttempts - 1
        /\ OrdersSent(r) <= (IF broken[r] THEN MaxAttempts ELSE 1)
        /\ SalesSent(r) <= attempt[r]
        /\ Cardinality(DocumentsOf(r)) \in Nat
        /\ Cardinality(AttemptsOf(r, "UpdateInventory")) \in Nat
    BY <1>1, <1>2, CountsAreNumbers, ServicesAssumption
    DEF Counted, OrderBudget, SaleBudget, TypeOK
  <1>5. CASE /\ InsertSale(orderId[r], cart[r])
             /\ docNo' = [docNo EXCEPT ![r] = Len(documents) + 1]
             /\ Enter(r, "InventoryUpdated")
    <2>1. orderId[r] \in OrdersOf(r) /\ orderId[r] \in Nat /\ cart[r] \in SUBSET Item
      BY <1>1, <1>2 DEF StateMatchesLocals, TypeOK
    <2>2. StoresGrow
      BY <1>1, <1>3, <1>5, <2>1, InsertSaleGrows
    <2>3. /\ Cardinality(DocumentsOf(r))' = Cardinality(DocumentsOf(r)) + 1
          /\ \A p \in Request \ {r} : DocumentsOf(p)' = DocumentsOf(p)
          /\ \A p \in Request : OrdersOf(p)' = OrdersOf(p)
      BY <1>1, <1>3, <1>5, <2>1, InsertSaleCounts
    <2>4. \A p, c : AttemptsOf(p, c)' = AttemptsOf(p, c)
      BY <1>3 DEF AttemptsOf
    <2>5. \A q \in Request \ {r} : SameBudget(q)
      BY <1>1, <1>3, <1>5, EnterBudget DEF SameBudget, SameLocals, TypeOK
    <2>6. \A q \in Request \ {r} : Counted(q)'
      BY <1>3, <2>2, <2>3, <2>4, <2>5, SentStable, CountedStable
    <2>7. OrdersSent(r)' = OrdersSent(r) /\ SalesSent(r)' = SalesSent(r) + 1
      BY <1>4, <2>3, <2>4 DEF OrdersSent, SalesSent
    <2>8. /\ state'[r] = "InventoryUpdated" /\ attempt'[r] = 0 /\ reply'[r] = "pending"
          /\ broken'[r] = broken[r]
      BY <1>1, <1>2, <1>5, EnterBudget
    <2>9. Counted(r)'
      BY <1>1, <1>4, <2>7, <2>8 DEF Counted, OrderBudget, SaleBudget
    <2> QED BY <1>1, <1>3, <2>6, <2>9 DEF CountInv
  <1>6. CASE Enter(r, "InventoryUpdateFailed") /\ UNCHANGED <<documents, docNo>>
    <2>1. StoresGrow /\ \A q \in Request :
            OrdersSent(q)' = OrdersSent(q) /\ SalesSent(q)' = SalesSent(q)
      BY <1>3, <1>6, UnchangedStoresGrow, StoresSent
    <2>2. \A q \in Request \ {r} : SameBudget(q)
      BY <1>1, <1>3, <1>6, EnterBudget DEF SameBudget, SameLocals, TypeOK
    <2>3. \A q \in Request \ {r} : Counted(q)'
      BY <1>3, <2>1, <2>2, CountedStable
    <2>4. /\ state'[r] = "InventoryUpdateFailed" /\ attempt'[r] = 0
          /\ reply'[r] = "pending" /\ broken'[r] = broken[r]
      BY <1>1, <1>2, <1>6, EnterBudget
    <2>5. Counted(r)'
      BY <1>1, <1>4, <2>1, <2>4 DEF Counted, OrderBudget, SaleBudget
    <2> QED BY <1>1, <1>3, <2>3, <2>5 DEF CountInv
  <1> QED BY <1>5, <1>6 DEF UpdateInventory

\* An answer sends nothing, and never leaves a state for one with less budget.
LEMMA AnsweringKeepsCount ==
  ASSUME IInv, CountInv, NEW r \in Request, FireThrows(r) \/ Answer(r)
  PROVE  CountInv'
  <1>1. TypeOK /\ Counted(r)
    BY DEF IInv, CountInv
  <1>2. UNCHANGED <<services, state, attempt, broken, cart, orderId, docNo>>
    BY DEF FireThrows, Answer
  <1>3. UNCHANGED <<placed, deleted, documents, abandoned>>
    BY <1>2 DEF services
  <1>4. StoresGrow /\ \A q \in Request :
          OrdersSent(q)' = OrdersSent(q) /\ SalesSent(q)' = SalesSent(q)
    BY <1>3, UnchangedStoresGrow, StoresSent
  <1>5. \A q \in Request \ {r} : reply'[q] = reply[q]
    BY <1>1 DEF FireThrows, Answer, Throw, TypeOK
  <1>6. \A q \in Request \ {r} : Counted(q)'
    BY <1>2, <1>3, <1>4, <1>5, CountedStable DEF SameBudget, SameLocals
  <1>7. /\ OrdersSent(r) \in Nat /\ SalesSent(r) \in Nat /\ MaxAttempts \in Nat \ {0}
        /\ attempt[r] \in 0 .. MaxAttempts - 1
        /\ OrdersSent(r) <= OrderBudget(r) /\ SalesSent(r) <= SaleBudget(r)
    BY <1>1, CountsAreNumbers, ServicesAssumption DEF CountInv, Counted, TypeOK
  <1>8. /\ reply'[r] # "pending"
        /\ reply'[r] = "failure" =>
             state[r] \in {"BasketGetFailed", "OrderCreateFailed", "OrderGetFailed"}
    <2>1. CASE FireThrows(r)
      BY <1>1, <2>1 DEF FireThrows, Throw, TypeOK
    <2>2. CASE Answer(r)
      <3>1. /\ EntryTrigger(state[r]) = "none"
            /\ reply'[r] = IF state[r] = "BasketDeleted" THEN "success" ELSE "failure"
        BY <1>1, <2>2 DEF Answer, TypeOK
      <3>2. state[r] \in {"BasketGetFailed", "OrderCreateFailed", "OrderGetFailed",
                          "BasketDeleted"}
        BY <3>1 DEF EntryTrigger, IInv, StateMatchesLocals
      <3> QED BY <3>1, <3>2
    <2> QED BY <2>1, <2>2
  <1>9. /\ OrdersSent(r)' <= OrderBudget(r)' /\ SalesSent(r)' <= SaleBudget(r)'
    <2>1. OrderBudget(r) <= OrderBudget(r)' /\ OrderBudget(r) \in Nat /\ OrderBudget(r)' \in Nat
      BY <1>1, <1>2, <1>7, <1>8 DEF Counted, OrderBudget
    <2>2. SaleBudget(r) <= SaleBudget(r)' /\ SaleBudget(r) \in Nat /\ SaleBudget(r)' \in Nat
      BY <1>1, <1>2, <1>7, <1>8 DEF Counted, SaleBudget
    <2> QED BY <1>4, <1>7, <2>1, <2>2
  <1>10. (orderId[r] \notin LiveOrder)' <=> orderId[r] \notin LiveOrder
    BY <1>2, <1>3 DEF LiveOrder
  <1>11. Counted(r)' /\ IsFiniteSet(abandoned)'
    BY <1>1, <1>2, <1>3, <1>8, <1>9, <1>10 DEF Counted, CountInv
  <1> QED BY <1>6, <1>11 DEF CountInv

\* A lost attempt is counted as sent, against the attempt it was.
LEMMA LosingKeepsCount ==
  ASSUME IInv, CountInv, NEW r \in Request, AttemptRetried(r) \/ AttemptFatal(r)
  PROVE  CountInv'
  <1>1. TypeOK /\ Counted(r) /\ IsFiniteSet(abandoned) /\ LoseAttempt(r)
    BY DEF IInv, CountInv, AttemptRetried, AttemptFatal
  <1>2. PICK t \in WriteCall \cup {"GetBasket", "GetOrder"} :
          /\ Calling(r, t)
          /\ Abandon(r, t, orderId[r], cart[r], attempt[r])
    BY <1>1 DEF LoseAttempt
  <1>3. UNCHANGED <<basket, placed, deleted, documents, state, cart, orderId, docNo>>
    BY <1>1 DEF LoseAttempt
  <1>4. /\ \A q \in Request \ {r} :
             reply'[q] = reply[q] /\ attempt'[q] = attempt[q] /\ broken'[q] = broken[q]
        /\ broken'[r] /\ reply[r] = "pending"
        /\ \/ reply'[r] = "pending" /\ attempt'[r] = attempt[r] + 1
           \/ reply'[r] = "threw"
    BY <1>1, <1>2 DEF LoseAttempt, AttemptRetried, AttemptFatal, Throw, TypeOK, Calling
  <1>5. /\ IsFiniteSet(abandoned)'
        /\ Cardinality(AttemptsOf(r, t))' \in Nat
        /\ Cardinality(AttemptsOf(r, t))' <= Cardinality(AttemptsOf(r, t)) + 1
        /\ \A q, c : (q # r \/ c # t) => AttemptsOf(q, c)' = AttemptsOf(q, c)
    BY <1>1, <1>2, AbandonCounts
  <1>6. \A q : OrdersOf(q)' = OrdersOf(q) /\ DocumentsOf(q)' = DocumentsOf(q)
    BY <1>3 DEF OrdersOf, DocumentsOf
  <1>7. StoresGrow
    BY <1>3, UnchangedStoresGrow
  <1>8. \A q \in Request \ {r} : Counted(q)'
    BY <1>3, <1>4, <1>5, <1>6, <1>7, SentStable, CountedStable DEF SameBudget, SameLocals
  <1>9. /\ Cardinality(OrdersOf(r)) \in Nat /\ Cardinality(DocumentsOf(r)) \in Nat
        /\ \A c : Cardinality(AttemptsOf(r, c)) \in Nat
        /\ MaxAttempts \in Nat \ {0} /\ attempt[r] \in 0 .. MaxAttempts - 1
    BY <1>1, CountsAreNumbers, ServicesAssumption DEF TypeOK
  <1>10. /\ OrdersSent(r)' <= OrdersSent(r) + IF t = "CreateOrder" THEN 1 ELSE 0
         /\ SalesSent(r)' <= SalesSent(r) + IF t = "UpdateInventory" THEN 1 ELSE 0
         /\ OrdersSent(r)' \in Nat /\ SalesSent(r)' \in Nat
         /\ OrdersSent(r) \in Nat /\ SalesSent(r) \in Nat
    <2>1. CASE t = "CreateOrder"
      BY <1>5, <1>6, <1>9, <2>1 DEF OrdersSent, SalesSent
    <2>2. CASE t = "UpdateInventory"
      BY <1>5, <1>6, <1>9, <2>2 DEF OrdersSent, SalesSent
    <2>3. CASE t \notin {"CreateOrder", "UpdateInventory"}
      BY <1>5, <1>6, <1>9, <2>3 DEF OrdersSent, SalesSent
    <2> QED BY <2>1, <2>2, <2>3
  <1>11. /\ t = "CreateOrder" <=> state[r] = "BasketGot"
         /\ t = "UpdateInventory" <=> state[r] = "OrderGot"
         /\ state[r] \notin {"OrderCreateFailed", "OrderGetFailed"}
    BY <1>2 DEF Calling, EntryTrigger, WriteCall
  <1>12. OrdersSent(r)' <= OrderBudget(r)'
    BY <1>1, <1>3, <1>4, <1>9, <1>10, <1>11 DEF Counted, OrderBudget
  <1>13. SalesSent(r)' <= SaleBudget(r)'
    BY <1>1, <1>3, <1>4, <1>9, <1>10, <1>11 DEF Counted, SaleBudget
  <1>14. Counted(r)'
    BY <1>3, <1>4, <1>11, <1>12, <1>13 DEF Counted
  <1> QED BY <1>5, <1>8, <1>14 DEF CountInv

\* Steps that leave every saga's locals alone keep the counts, if what is
\* executed late is counted as executed.
LEMMA OutsideKeepsCount ==
  ASSUME IInv, CountInv, UNCHANGED locals, StoresGrow, deleted \subseteq deleted',
         IsFiniteSet(abandoned)',
         \A q \in Request : OrdersSent(q)' = OrdersSent(q) /\ SalesSent(q)' = SalesSent(q)
  PROVE  CountInv'
  <1>1. \A q \in Request : SameBudget(q)
    BY DEF locals, SameBudget, SameLocals
  <1> QED BY <1>1, CountedStable DEF CountInv

\* A late attempt moves from the attempts to the orders or to the documents of
\* its checkout.
LEMMA LateArrivalKeepsCount ==
  ASSUME IInv, CountInv, NEW a \in abandoned, LateArrival(a)
  PROVE  CountInv'
  <1>1. /\ TypeOK /\ SaleHasItsOrder /\ IsFiniteSet(abandoned) /\ AttemptIsJustified(a)
        /\ UNCHANGED locals
    BY DEF IInv, CountInv, LateArrival
  <1>2. a.req \in Request /\ a.order \in Nat /\ a.items \in SUBSET Item
    BY <1>1 DEF TypeOK, ServicesTypeOK, Attempt
  <1>3. abandoned' = abandoned \ {a}
    BY DEF LateArrival, LateCreateOrder, LateUpdateInventory, LateDeleteBasket
  <1>4. /\ IsFiniteSet(abandoned)'
        /\ Cardinality(AttemptsOf(a.req, a.call))' = Cardinality(AttemptsOf(a.req, a.call)) - 1
        /\ \A q, c : (q # a.req \/ c # a.call) => AttemptsOf(q, c)' = AttemptsOf(q, c)
    BY <1>1, <1>3, ArrivalCounts
  <1>5. \A q \in Request :
          /\ Cardinality(OrdersOf(q)) \in Nat /\ Cardinality(DocumentsOf(q)) \in Nat
          /\ \A c : Cardinality(AttemptsOf(q, c)) \in Nat
    BY <1>1, CountsAreNumbers
  <1>6. CASE LateCreateOrder(a)
    <2>1. /\ InsertOrder(a.req) /\ a.call = "CreateOrder"
          /\ UNCHANGED <<basket, deleted, documents>>
      BY <1>6 DEF LateCreateOrder
    <2>2. StoresGrow
      BY <1>1, <1>2, <2>1, InsertOrderGrows
    <2>3. /\ Cardinality(OrdersOf(a.req))' = Cardinality(OrdersOf(a.req)) + 1
          /\ \A p \in Request \ {a.req} : OrdersOf(p)' = OrdersOf(p)
          /\ \A p \in Request : DocumentsOf(p)' = DocumentsOf(p)
      BY <1>1, <1>2, <2>1, InsertOrderCounts
    <2>4. \A q \in Request : OrdersSent(q)' = OrdersSent(q) /\ SalesSent(q)' = SalesSent(q)
      BY <1>2, <1>4, <1>5, <2>1, <2>3 DEF OrdersSent, SalesSent
    <2> QED BY <1>1, <1>4, <2>1, <2>2, <2>4, OutsideKeepsCount
  <1>7. CASE LateUpdateInventory(a)
    <2>1. PICK sold \in SUBSET a.items : InsertSale(a.order, sold)
      BY <1>7 DEF LateUpdateInventory
    <2>2. /\ a.call = "UpdateInventory" /\ UNCHANGED <<basket, placed, deleted>>
          /\ a.order \in OrdersOf(a.req) /\ sold \in SUBSET Item
      BY <1>1, <1>2, <1>7 DEF LateUpdateInventory, AttemptIsJustified
    <2>3. StoresGrow
      BY <1>1, <1>2, <2>1, <2>2, InsertSaleGrows
    <2>4. /\ Cardinality(DocumentsOf(a.req))' = Cardinality(DocumentsOf(a.req)) + 1
          /\ \A p \in Request \ {a.req} : DocumentsOf(p)' = DocumentsOf(p)
          /\ \A p \in Request : OrdersOf(p)' = OrdersOf(p)
      BY <1>1, <1>2, <2>1, <2>2, InsertSaleCounts
    <2>5. \A q \in Request : OrdersSent(q)' = OrdersSent(q) /\ SalesSent(q)' = SalesSent(q)
      BY <1>2, <1>4, <1>5, <2>2, <2>4 DEF OrdersSent, SalesSent
    <2> QED BY <1>1, <1>4, <2>2, <2>3, <2>5, OutsideKeepsCount
  <1>8. CASE LateDeleteBasket(a)
    <2>1. a.call = "DeleteBasket" /\ UNCHANGED <<placed, deleted, documents>>
      BY <1>8 DEF LateDeleteBasket
    <2>2. StoresGrow
      BY <2>1, UnchangedStoresGrow
    <2>3. \A q : OrdersOf(q)' = OrdersOf(q) /\ DocumentsOf(q)' = DocumentsOf(q)
      BY <2>1 DEF OrdersOf, DocumentsOf
    <2>4. \A q \in Request : OrdersSent(q)' = OrdersSent(q) /\ SalesSent(q)' = SalesSent(q)
      BY <1>4, <2>1, <2>3 DEF OrdersSent, SalesSent
    <2> QED BY <1>1, <1>4, <2>1, <2>2, <2>4, OutsideKeepsCount
  <1> QED BY <1>6, <1>7, <1>8 DEF LateArrival

\* Nothing is sent before the first step.
LEMMA InitCount == Init => CountInv
  <1> SUFFICES ASSUME Init PROVE CountInv
    OBVIOUS
  <1>1. placed = <<>> /\ documents = <<>> /\ abandoned = {}
    BY DEF Init, ServicesInit
  <1>2. \A q : OrdersOf(q) = {} /\ DocumentsOf(q) = {} /\ \A c : AttemptsOf(q, c) = {}
    BY <1>1 DEF OrdersOf, DocumentsOf, AttemptsOf
  <1>3. \A q : OrdersSent(q) = 0 /\ SalesSent(q) = 0
    BY <1>2, FS_EmptySet DEF OrdersSent, SalesSent
  <1>4. ASSUME NEW q \in Request PROVE Counted(q)
    <2>1. state[q] = "NotStarted" /\ attempt[q] = 0 /\ reply[q] = "pending"
      BY DEF Init
    <2> QED BY <1>3, <2>1 DEF Counted, OrderBudget, SaleBudget
  <1> QED BY <1>1, <1>4, FS_EmptySet DEF CountInv

\* Every step keeps the counts within their budgets.
LEMMA NextCount == IInv /\ CountInv /\ [Next]_vars => CountInv'
  <1> SUFFICES ASSUME IInv, CountInv, [Next]_vars PROVE CountInv'
    OBVIOUS
  <1>1. ASSUME NEW r \in Request, Advance(r) PROVE CountInv'
    BY <1>1, ReadsKeepCount, CreateOrderKeepsCount, UpdateInventoryKeepsCount,
       AnsweringKeepsCount, LosingKeepsCount
    DEF Advance
  <1>2. ASSUME NEW a \in abandoned, LateArrival(a) PROVE CountInv'
    BY <1>2, LateArrivalKeepsCount
  <1>3. ASSUME UNCHANGED locals, UNCHANGED <<placed, documents, abandoned>>,
               deleted \subseteq deleted'
        PROVE  CountInv'
    BY <1>3, UnchangedStoresGrow, StoresSent, OutsideKeepsCount DEF CountInv
  <1>4. ASSUME NEW u \in User, Shopper(u) PROVE CountInv'
    BY <1>3, <1>4 DEF Shopper, ShopperChangesBasket
  <1>5. ASSUME NEW n \in LiveOrder, Client(n) PROVE CountInv'
    BY <1>3, <1>5 DEF Client, ClientDeletesOrder, RemoveOrder
  <1>6. CASE UNCHANGED vars
    BY <1>3, <1>6 DEF vars, services, locals
  <1> QED BY <1>1, <1>2, <1>4, <1>5, <1>6 DEF Next

\* Executed or still under way, the POSTs of a checkout stay within their budgets.
THEOREM CountInvariant == Spec => []CountInv
  BY InitCount, NextCount, Invariant, PTL DEF Spec

\* A checkout inserts no more orders and no more sales documents than attempts
\* the policy allows, and no more than one of each when none of them broke.
THEOREM DuplicatesAreBounded == Spec => []DuplicatesBounded
  <1>1. IInv /\ CountInv => DuplicatesBounded
    <2> SUFFICES ASSUME IInv, CountInv, NEW r \in Request
                 PROVE  /\ Cardinality(OrdersOf(r)) <= MaxAttempts
                        /\ Cardinality(DocumentsOf(r)) <= MaxAttempts
                        /\ ~broken[r] => /\ Cardinality(OrdersOf(r)) <= 1
                                         /\ Cardinality(DocumentsOf(r)) <= 1
      BY DEF DuplicatesBounded
    <2>1. /\ Cardinality(OrdersOf(r)) \in Nat /\ Cardinality(DocumentsOf(r)) \in Nat
          /\ \A c : Cardinality(AttemptsOf(r, c)) \in Nat
          /\ attempt[r] \in 0 .. MaxAttempts - 1 /\ MaxAttempts \in Nat \ {0}
      BY CountsAreNumbers, ServicesAssumption DEF IInv, CountInv, TypeOK
    <2>2. Counted(r)
      BY DEF CountInv
    <2>3. /\ OrderBudget(r) \in 0 .. MaxAttempts /\ SaleBudget(r) \in 0 .. MaxAttempts
          /\ ~broken[r] => OrderBudget(r) <= 1 /\ SaleBudget(r) <= 1
      BY <2>1, <2>2 DEF Counted, OrderBudget, SaleBudget
    <2> QED BY <2>1, <2>2, <2>3 DEF Counted, OrdersSent, SalesSent
  <1> QED BY <1>1, Invariant, CountInvariant, PTL

\* A checkout that failed although nothing broke left no order and no sale.
THEOREM FailuresAreClean == Spec => []CleanFailure
  <1>1. IInv /\ CountInv => CleanFailure
    <2> SUFFICES ASSUME IInv, CountInv, NEW r \in Request,
                        reply[r] = "failure", ~broken[r]
                 PROVE  OrdersOf(r) \subseteq deleted /\ DocumentsOf(r) = {}
      BY DEF CleanFailure
    <2>1. /\ Cardinality(OrdersOf(r)) \in Nat /\ Cardinality(DocumentsOf(r)) \in Nat
          /\ IsFiniteSet(OrdersOf(r)) /\ IsFiniteSet(DocumentsOf(r))
          /\ \A c : Cardinality(AttemptsOf(r, c)) \in Nat
      BY CountsAreNumbers DEF IInv, CountInv
    <2>2. /\ Counted(r) /\ StateMatchesLocals(r)
          /\ state[r] \in {"BasketGetFailed", "OrderCreateFailed", "OrderGetFailed"}
      BY DEF CountInv, Counted, IInv
    <2>3. Cardinality(DocumentsOf(r)) = 0
      BY <2>1, <2>2 DEF Counted, SaleBudget, SalesSent
    <2>4. DocumentsOf(r) = {}
      BY <2>1, <2>3, FS_EmptySet
    <2>5. CASE state[r] # "OrderGetFailed"
      <3>1. Cardinality(OrdersOf(r)) = 0
        BY <2>1, <2>2, <2>5 DEF Counted, OrderBudget, OrdersSent
      <3> QED BY <2>1, <2>4, <3>1, FS_EmptySet
    <2>6. CASE state[r] = "OrderGetFailed"
      <3>1. Cardinality(OrdersOf(r)) <= 1
        BY <2>1, <2>2, <2>6 DEF Counted, OrderBudget, OrdersSent
      <3>2. orderId[r] \in OrdersOf(r) /\ orderId[r] \in deleted
        BY <2>2, <2>6 DEF Counted, StateMatchesLocals, OrdersOf, LiveOrder
      <3>3. Cardinality(OrdersOf(r)) = 1
        BY <2>1, <3>1, <3>2, FS_EmptySet
      <3>4. OrdersOf(r) = {orderId[r]}
        BY <2>1, <3>2, <3>3, FS_Singleton
      <3> QED BY <2>4, <3>2, <3>4
    <2> QED BY <2>5, <2>6
  <1> QED BY <1>1, Invariant, CountInvariant, PTL

-----------------------------------------------------------------------------
(* The saga implements the safety part of CheckoutProtocol.                *)

Phase == [r \in Request |-> PhaseOf(r)]

ProtocolStep == [Protocol!Next]_Protocol!vars

\* A step that leaves the locals of every checkout but r alone changes the
\* protocol's phase of r only.
LEMMA PhaseOfOne ==
  ASSUME NEW r \in Request, \A q \in Request \ {r} : SameLocals(q)
  PROVE  Phase' = [Phase EXCEPT ![r] = PhaseOf(r)']
  <1>1. \A q \in Request \ {r} : PhaseOf(q)' = PhaseOf(q)
    BY DEF SameLocals, PhaseOf
  <1> QED BY <1>1 DEF Phase

\* Moving one checkout forward is a step of the protocol.
LEMMA ForwardIsProtocolStep ==
  ASSUME NEW r \in Request, \A q \in Request \ {r} : SameLocals(q),
         reply[r] = "pending", reply' = reply,
         \/ PhaseOf(r)' = PhaseOf(r)
         \/ PhaseOf(r) = "browsing" /\ PhaseOf(r)' = "ordered"
         \/ PhaseOf(r) = "ordered" /\ PhaseOf(r)' = "sold"
         \/ PhaseOf(r) = "sold" /\ PhaseOf(r)' = "cleared"
  PROVE  ProtocolStep
  <1>1. Phase' = [Phase EXCEPT ![r] = PhaseOf(r)'] /\ Phase[r] = PhaseOf(r)
    BY PhaseOfOne DEF Phase
  <1>2. CASE PhaseOf(r)' = PhaseOf(r)
    BY <1>1, <1>2 DEF ProtocolStep, Protocol!vars, Phase
  <1>3. CASE PhaseOf(r) = "browsing" /\ PhaseOf(r)' = "ordered"
    BY <1>1, <1>3
    DEF ProtocolStep, Protocol!Next, Protocol!Move, Protocol!PlaceOrder,
        Protocol!Forward, Phase
  <1>4. CASE PhaseOf(r) = "ordered" /\ PhaseOf(r)' = "sold"
    BY <1>1, <1>4
    DEF ProtocolStep, Protocol!Next, Protocol!Move, Protocol!SellCart,
        Protocol!Forward, Phase
  <1>5. CASE PhaseOf(r) = "sold" /\ PhaseOf(r)' = "cleared"
    BY <1>1, <1>5
    DEF ProtocolStep, Protocol!Next, Protocol!Move, Protocol!ClearBasket,
        Protocol!Forward, Phase
  <1> QED BY <1>2, <1>3, <1>4, <1>5

\* Answering a caller is a step of the protocol.
LEMMA FinishIsProtocolStep ==
  ASSUME IInv, NEW r \in Request, \A q \in Request : SameLocals(q),
         reply[r] = "pending", NEW v \in Reply \ {"pending"},
         reply' = [reply EXCEPT ![r] = v],
         v = "success" <=> state[r] = "BasketDeleted"
  PROVE  ProtocolStep
  <1>1. Phase' = Phase
    BY DEF Phase, PhaseOf, SameLocals
  <1>2. v \in IF Phase[r] = "cleared" THEN {"success"} ELSE {"failure", "threw"}
    BY DEF Phase, PhaseOf, Reply
  <1>3. Protocol!Finish(r)
    BY <1>1, <1>2 DEF Protocol!Finish, Phase
  <1> QED BY <1>3 DEF ProtocolStep, Protocol!Next, Protocol!Move

\* Steps that change no local and answer nobody are not seen by the protocol.
LEMMA OutsideIsStutter ==
  ASSUME UNCHANGED locals
  PROVE  ProtocolStep
  BY DEF ProtocolStep, Protocol!vars, PhaseOf, locals

\* Every call's reply moves its checkout forward, or stops it where it is.
LEMMA CallIsProtocolStep ==
  ASSUME IInv, IInv', NEW r \in Request,
         \/ GetBasket(r) \/ CreateOrder(r) \/ GetOrder(r)
         \/ UpdateInventory(r) \/ DeleteBasket(r)
  PROVE  ProtocolStep
  <1>1. TypeOK /\ StateMatchesLocals(r) /\ StateMatchesLocals(r)'
    BY DEF IInv
  <1>2. reply[r] = "pending"
    BY DEF GetBasket, CreateOrder, GetOrder, UpdateInventory, DeleteBasket, Calling
  <1>3. reply' = reply
    BY DEF GetBasket, CreateOrder, GetOrder, UpdateInventory, DeleteBasket, Enter
  <1>4. \A q \in Request \ {r} : SameLocals(q)
    BY <1>1
    DEF GetBasket, CreateOrder, GetOrder, UpdateInventory, DeleteBasket, Enter,
        SameLocals, TypeOK
  <1>5. CASE GetBasket(r)
    <2>1. state[r] = "NotStarted" /\ state'[r] \in {"BasketGot", "BasketGetFailed"}
      BY <1>1, <1>5, CallingStates DEF GetBasket, Enter, TypeOK
    <2>2. PhaseOf(r) = "browsing" /\ PhaseOf(r)' = "browsing"
      BY <1>1, <2>1 DEF StateMatchesLocals, PhaseOf
    <2> QED BY <1>2, <1>3, <1>4, <2>2, ForwardIsProtocolStep
  <1>6. CASE CreateOrder(r)
    <2>1. state[r] = "BasketGot" /\ state'[r] \in {"OrderCreated", "OrderCreateFailed"}
      BY <1>1, <1>6, CallingStates DEF CreateOrder, Enter, TypeOK
    <2>2. (orderId[r] \in OrdersOf(r) => orderId[r] # 0)'
      <3>1. (placed \in Seq(Request))'
        BY DEF IInv, TypeOK, ServicesTypeOK
      <3> QED BY <3>1 DEF OrdersOf
    <2>3. PhaseOf(r) = "browsing" /\ PhaseOf(r)' \in {"browsing", "ordered"}
      BY <1>1, <2>1, <2>2 DEF StateMatchesLocals, PhaseOf
    <2> QED BY <1>2, <1>3, <1>4, <2>3, ForwardIsProtocolStep
  <1>7. CASE GetOrder(r)
    <2>1. /\ state[r] = "OrderCreated" /\ state'[r] \in {"OrderGot", "OrderGetFailed"}
          /\ orderId' = orderId /\ docNo' = docNo
      BY <1>1, <1>7, CallingStates DEF GetOrder, Enter, TypeOK
    <2>2. PhaseOf(r)' = PhaseOf(r)
      BY <2>1 DEF PhaseOf
    <2> QED BY <1>2, <1>3, <1>4, <2>2, ForwardIsProtocolStep
  <1>8. CASE UpdateInventory(r)
    <2>1. state[r] = "OrderGot" /\ orderId' = orderId
      BY <1>8, CallingStates DEF UpdateInventory
    <2>2. \/ state'[r] = "InventoryUpdated"
          \/ state'[r] = "InventoryUpdateFailed" /\ docNo' = docNo
      BY <1>1, <1>8 DEF UpdateInventory, Enter, TypeOK
    <2>3. orderId[r] # 0 /\ docNo[r] = 0
      <3>1. placed \in Seq(Request)
        BY <1>1 DEF TypeOK, ServicesTypeOK
      <3> QED BY <1>1, <2>1, <3>1 DEF StateMatchesLocals, OrdersOf
    <2>4. PhaseOf(r) = "ordered" /\ PhaseOf(r)' \in {"ordered", "sold"}
      BY <1>1, <2>1, <2>2, <2>3 DEF StateMatchesLocals, PhaseOf
    <2> QED BY <1>2, <1>3, <1>4, <2>4, ForwardIsProtocolStep
  <1>9. CASE DeleteBasket(r)
    <2>1. /\ state[r] = "InventoryUpdated" /\ orderId' = orderId /\ docNo' = docNo
          /\ state'[r] \in {"BasketDeleted", "InventoryUpdateFailed"}
      BY <1>1, <1>9, CallingStates DEF DeleteBasket, Enter, TypeOK
    <2>2. PhaseOf(r) = "sold" /\ PhaseOf(r)' \in {"sold", "cleared"}
      BY <1>1, <2>1 DEF StateMatchesLocals, PhaseOf
    <2> QED BY <1>2, <1>3, <1>4, <2>2, ForwardIsProtocolStep
  <1> QED BY <1>5, <1>6, <1>7, <1>8, <1>9

\* A thread that throws or returns answers its caller in the protocol's terms;
\* a retry is not seen by it.
LEMMA EndIsProtocolStep ==
  ASSUME IInv, NEW r \in Request,
         \/ FireThrows(r) \/ Answer(r)
         \/ AttemptRetried(r) \/ AttemptFatal(r)
  PROVE  ProtocolStep
  <1>1. \A q \in Request : SameLocals(q)
    BY DEF FireThrows, Answer, AttemptRetried, AttemptFatal,
           LoseAttempt, SameLocals
  <1>2. CASE FireThrows(r)
    <2>1. /\ reply[r] = "pending" /\ state[r] # "BasketDeleted"
          /\ reply' = [reply EXCEPT ![r] = "threw"]
      BY <1>2 DEF FireThrows, EntryTrigger, Throw
    <2>2. "threw" \in Reply \ {"pending"}
      BY DEF Reply
    <2> QED BY <1>1, <2>1, <2>2, FinishIsProtocolStep
  <1>3. CASE Answer(r)
    <2> DEFINE v == IF state[r] = "BasketDeleted" THEN "success" ELSE "failure"
    <2>1. /\ v \in Reply \ {"pending"}
          /\ v = "success" <=> state[r] = "BasketDeleted"
      BY DEF Reply
    <2>2. reply[r] = "pending" /\ reply' = [reply EXCEPT ![r] = v]
      BY <1>3 DEF Answer
    <2> HIDE DEF v
    <2> QED BY <1>1, <2>1, <2>2, FinishIsProtocolStep
  <1>4. CASE AttemptRetried(r)
    <2>1. PhaseOf(r)' = PhaseOf(r) /\ reply' = reply
      BY <1>1, <1>4 DEF AttemptRetried, SameLocals, PhaseOf
    <2>2. reply[r] = "pending"
      BY <1>4, LostAttempts DEF AttemptRetried
    <2> QED BY <1>1, <2>1, <2>2, ForwardIsProtocolStep
  <1>5. CASE AttemptFatal(r)
    <2>1. /\ reply[r] = "pending" /\ state[r] # "BasketDeleted"
          /\ reply' = [reply EXCEPT ![r] = "threw"]
      BY <1>5, LostAttempts DEF AttemptFatal, Throw
    <2>2. "threw" \in Reply \ {"pending"}
      BY DEF Reply
    <2> QED BY <1>1, <2>1, <2>2, FinishIsProtocolStep
  <1> QED BY <1>2, <1>3, <1>4, <1>5

\* Every step of the saga is a step of the protocol or is not seen by it.
LEMMA NextIsProtocolStep == IInv /\ IInv' /\ [Next]_vars => ProtocolStep
  <1> SUFFICES ASSUME IInv, IInv', [Next]_vars PROVE ProtocolStep
    OBVIOUS
  <1>1. ASSUME NEW r \in Request, Advance(r) PROVE ProtocolStep
    BY <1>1, CallIsProtocolStep, EndIsProtocolStep DEF Advance
  <1>2. ASSUME NEW a \in abandoned, LateArrival(a) PROVE ProtocolStep
    BY <1>2, OutsideIsStutter DEF LateArrival
  <1>3. ASSUME NEW u \in User, Shopper(u) PROVE ProtocolStep
    BY <1>3, OutsideIsStutter DEF Shopper
  <1>4. ASSUME NEW n \in LiveOrder, Client(n) PROVE ProtocolStep
    BY <1>4, OutsideIsStutter DEF Client
  <1>5. CASE UNCHANGED vars
    BY <1>5, OutsideIsStutter DEF vars
  <1> QED BY <1>1, <1>2, <1>3, <1>4, <1>5 DEF Next

\* The saga starts where the protocol starts.
LEMMA InitIsProtocolInit == Init => Protocol!Init
  BY DEF Init, Protocol!Init, PhaseOf

\* The saga refines the safety part of the checkout protocol: forward only and in
\* order, answered once, with success exactly when the basket was cleared.
THEOREM RefinesProtocol ==
  Spec => Protocol!Init /\ [][Protocol!Next]_Protocol!vars
  <1>1. Init => Protocol!Init
    BY InitIsProtocolInit
  <1>2. IInv /\ IInv' /\ [Next]_vars => [Protocol!Next]_Protocol!vars
    BY NextIsProtocolStep DEF ProtocolStep
  <1> QED BY <1>1, <1>2, Invariant, PTL DEF Spec

=============================================================================

----------------------- MODULE CheckoutSageServiceProofs -----------------------
(***************************************************************************)
(* Proofs about CheckoutSageService, for any users, items, checkouts and   *)
(* number of attempts, and any wiring.                                     *)
(***************************************************************************)
EXTENDS CheckoutSageService, TLAPS

-----------------------------------------------------------------------------
(* Types.                                                                  *)

\* The foreach is at an item.
Selling == \A r \in Request : pc[r] = "SellItem" => unsold[r] # {}

Types == TypeOK /\ Selling

\* Appending keeps the rows that were there and adds one at the end.
LEMMA AppendFacts ==
  ASSUME NEW S, NEW s \in Seq(S), NEW e \in S
  PROVE  /\ Append(s, e) \in Seq(S)
         /\ DOMAIN Append(s, e) = DOMAIN s \cup {Len(s) + 1}
         /\ \A i \in DOMAIN s : Append(s, e)[i] = s[i]
         /\ Append(s, e)[Len(s) + 1] = e
         /\ Len(s) + 1 \in Nat \ {0}
         /\ Len(s) + 1 \notin DOMAIN s
         /\ 0 \notin DOMAIN s
  OBVIOUS

\* The item the foreach is at is one it has still to sell.
LEMMA CurrentItemFact ==
  ASSUME Types, NEW r \in Request, pc[r] = "SellItem"
  PROVE  CurrentItem(r) \in unsold[r] /\ CurrentItem(r) \in Item
  <1>1. unsold[r] # {} /\ unsold[r] \subseteq Item
    BY DEF Types, Selling, TypeOK
  <1> QED
    BY <1>1 DEF CurrentItem

\* Going to another point, or throwing, keeps the types of what it writes.
LEMMA MoveTyped ==
  ASSUME Types, NEW r \in Request, (\E p \in Point : Goto(r, p)) \/ Throw(r)
  PROVE  /\ pc' \in [Request -> Point]
         /\ reply' \in [Request -> {"pending", "success", "failure", "threw"}]
         /\ attempt' \in [Request -> 0 .. MaxAttempts - 1]
  <1>1. 0 \in 0 .. MaxAttempts - 1
    BY ServicesAssumption
  <1> QED
    BY <1>1 DEF Types, TypeOK, Goto, Throw

\* An attempt that is abandoned is an Attempt.
LEMMA LoseAttemptTyped ==
  ASSUME Types, NEW r \in Request, LoseAttempt(r)
  PROVE  abandoned' \subseteq Attempt
  <1> DEFINE items == IF pc[r] = "SellItem" THEN {CurrentItem(r)} ELSE {}
  <1>1. items \in SUBSET Item
    BY CurrentItemFact
  <1>2. orderId[r] \in Nat /\ attempt[r] \in Nat
    BY ServicesAssumption DEF Types, TypeOK
  <1>3. Abandon(r, CallAt(pc[r]), orderId[r], items, attempt[r])
    BY DEF LoseAttempt
  <1> HIDE DEF items
  <1> QED
    BY <1>1, <1>2, <1>3 DEF Abandon, Attempt, Types, TypeOK, ServicesTypeOK

\* Every step of a checkout keeps the types.
LEMMA AdvanceTyped ==
  ASSUME Types, NEW r \in Request, Advance(r)
  PROVE  TypeOK'
  <1> USE DEF Types, TypeOK, ServicesTypeOK
  <1>1. CASE GetBasket(r)
    <2>1. (\E p \in Point : Goto(r, p)) \/ Throw(r)
      BY <1>1 DEF GetBasket, Point
    <2>2. basket[UserOf[r]] \subseteq Item
      BY ServicesAssumption
    <2>3. cart' \in [Request -> SUBSET Item] /\ unsold' \in [Request -> SUBSET Item]
      BY <1>1, <2>2 DEF GetBasket
    <2> QED
      BY <1>1, <2>1, <2>3, MoveTyped DEF GetBasket, services
  <1>2. CASE CreateOrder(r)
    <2>1. (\E p \in Point : Goto(r, p)) \/ Throw(r)
      BY <1>2 DEF CreateOrder, Point
    <2>2. CASE InsertOrder(r) /\ orderId' = [orderId EXCEPT ![r] = Len(placed) + 1]
      <3>1. placed' \in Seq(Request) /\ deleted \subseteq DOMAIN placed'
        BY <2>2, AppendFacts DEF InsertOrder
      <3>2. orderId' \in [Request -> Nat]
        BY <2>2, AppendFacts
      <3> QED
        BY <1>2, <2>1, <3>1, <3>2, MoveTyped DEF CreateOrder
    <2>3. CASE UNCHANGED <<placed, orderId>>
      BY <1>2, <2>1, <2>3, MoveTyped DEF CreateOrder
    <2> QED
      BY <1>2, <2>2, <2>3 DEF CreateOrder
  <1>3. CASE GetOrder(r)
    <2>1. (\E p \in Point : Goto(r, p)) \/ Throw(r)
      BY <1>3 DEF GetOrder, Point
    <2> QED
      BY <1>3, <2>1, MoveTyped DEF GetOrder, services
  <1>4. CASE SellItem(r)
    <2>1. \E p \in Point : Goto(r, p)
      BY <1>4 DEF SellItem, Point
    <2>2. PICK d \in Document : d = [order |-> orderId[r], items |-> {CurrentItem(r)}]
      BY <1>4, CurrentItemFact DEF SellItem, At, Document
    <2>3. documents' = Append(documents, d)
      BY <1>4, <2>2 DEF SellItem, InsertSale
    <2>4. documents' \in Seq(Document) /\ Len(documents) + 1 \in Nat
      BY <2>3, AppendFacts
    <2>5. docNos' \in [Request -> SUBSET Nat] /\ unsold' \in [Request -> SUBSET Item]
      BY <1>4, <2>4 DEF SellItem
    <2> QED
      BY <1>4, <2>1, <2>4, <2>5, MoveTyped DEF SellItem
  <1>5. CASE DeleteBasket(r)
    <2>1. \E p \in Point : Goto(r, p)
      BY <1>5 DEF DeleteBasket, Point
    <2>2. basket' \in [User -> SUBSET Item]
      BY <1>5 DEF DeleteBasket, RemoveBasket
    <2> QED
      BY <1>5, <2>1, <2>2, MoveTyped DEF DeleteBasket
  <1>6. CASE DeleteOrder(r)
    <2>1. \E p \in Point : Goto(r, p)
      BY <1>6 DEF DeleteOrder, Point
    <2> QED
      BY <1>6, <2>1, MoveTyped DEF DeleteOrder, LiveOrder
  <1>7. CASE DeleteDocuments(r)
    <2>1. (\E p \in Point : Goto(r, p)) \/ Throw(r)
      BY <1>7 DEF DeleteDocuments, Point
    <2> QED
      BY <1>7, <2>1, MoveTyped DEF DeleteDocuments, services
  <1>8. CASE Return(r)
    BY <1>8 DEF Return, services
  <1>9. CASE AttemptRetried(r)
    <2>1. abandoned' \subseteq Attempt
      BY <1>9, LoseAttemptTyped DEF AttemptRetried
    <2>2. attempt' \in [Request -> 0 .. MaxAttempts - 1]
      BY <1>9, ServicesAssumption DEF AttemptRetried
    <2> QED
      BY <1>9, <2>1, <2>2 DEF AttemptRetried, LoseAttempt
  <1>10. CASE AttemptFatal(r) \/ DeleteOrderRefused(r)
    <2>1. abandoned' \subseteq Attempt
      BY <1>10, LoseAttemptTyped DEF AttemptFatal, DeleteOrderRefused
    <2>2. (\E p \in Point : Goto(r, p)) \/ Throw(r)
      BY <1>10 DEF AttemptFatal, DeleteOrderRefused, Point
    <2> QED
      BY <1>10, <2>1, <2>2, MoveTyped DEF AttemptFatal, DeleteOrderRefused, LoseAttempt
  <1> QED
    BY <1>1, <1>2, <1>3, <1>4, <1>5, <1>6, <1>7, <1>8, <1>9, <1>10 DEF Advance

\* Every step of the services and of their other clients keeps the types.
LEMMA OutsideTyped ==
  ASSUME Types,
         \/ \E a \in abandoned : LateArrival(a)
         \/ \E u \in User : Shopper(u)
         \/ \E n \in LiveOrder : Client(n)
         \/ UNCHANGED vars
  PROVE  TypeOK'
  <1> USE DEF Types, TypeOK, ServicesTypeOK
  <1>1. ASSUME NEW a \in abandoned, LateArrival(a) PROVE TypeOK'
    <2>1. a \in Attempt
      OBVIOUS
    <2>2. CASE LateCreateOrder(a)
      <3>1. placed' \in Seq(Request) /\ deleted \subseteq DOMAIN placed'
        BY <2>1, <2>2, AppendFacts DEF LateCreateOrder, InsertOrder, Attempt
      <3> QED
        BY <1>1, <2>2, <3>1 DEF LateArrival, LateCreateOrder, locals
    <2>3. CASE LateUpdateInventory(a)
      <3>1. PICK sold \in SUBSET a.items \ {{}} : InsertSale(a.order, sold)
        BY <2>3 DEF LateUpdateInventory
      <3>2. documents' \in Seq(Document)
        BY <2>1, <3>1 DEF InsertSale, Attempt, Document
      <3> QED
        BY <1>1, <2>3, <3>2 DEF LateArrival, LateUpdateInventory, locals
    <2>4. CASE LateDeleteBasket(a)
      BY <1>1, <2>4 DEF LateArrival, LateDeleteBasket, RemoveBasket, locals
    <2>5. CASE LateDeleteOrder(a)
      BY <1>1, <2>5 DEF LateArrival, LateDeleteOrder, RemoveOrder, LiveOrder, locals
    <2> QED
      BY <1>1, <2>2, <2>3, <2>4, <2>5 DEF LateArrival
  <1>2. ASSUME NEW u \in User, Shopper(u) PROVE TypeOK'
    BY <1>2 DEF Shopper, ShopperChangesBasket, locals
  <1>3. ASSUME NEW n \in LiveOrder, Client(n) PROVE TypeOK'
    BY <1>3 DEF Client, ClientDeletesOrder, RemoveOrder, LiveOrder, locals
  <1>4. CASE UNCHANGED vars
    BY <1>4 DEF vars, services, locals
  <1> QED
    BY <1>1, <1>2, <1>3, <1>4

-----------------------------------------------------------------------------
(* The inductive invariant.                                                *)

RollingBack == {"DeleteOrder", "DeleteDocuments", "ReturnFalse"}

\* What the place of a checkout tells of its locals.
PlaceTellsLocals(r) ==
  /\ unsold[r] \subseteq cart[r]
  /\ pc[r] \in {"GetBasket", "CreateOrder"} => orderId[r] = 0
  /\ pc[r] \in {"GetBasket", "CreateOrder", "GetOrder"} =>
       unsold[r] = cart[r] /\ docNos[r] = {}
  /\ pc[r] \in {"CreateOrder", "GetOrder", "SellItem"} => unsold[r] # {}
  /\ pc[r] \in {"DeleteBasket", "ReturnTrue"} => unsold[r] = {} /\ cart[r] # {}
  /\ pc[r] \notin {"GetBasket", "CreateOrder", "ReturnFalse"} => orderId[r] \in OrdersOf(r)
  /\ ~ServicesMayDecline /\ pc[r] = "ReturnFalse" => docNos[r] = {}
  /\ reply[r] = "success" => pc[r] = "ReturnTrue"
  /\ reply[r] = "failure" => pc[r] = "ReturnFalse"

\* Each item the foreach has passed is in a document the checkout knows of.
PassedItemsSold(r) ==
  \A i \in cart[r] \ unsold[r] : \E d \in docNos[r] \cap DOMAIN documents :
    documents[d] = [order |-> orderId[r], items |-> {i}]

\* A DELETE nobody waits for was sent by a checkout that had sold its cart, or that
\* was rolling back its own order.
AttemptEarned(a) ==
  /\ a.call = "DeleteBasket" =>
       pc[a.req] \in RollingBack \cup {"DeleteBasket", "ReturnTrue"} /\ CartSold(a.req)
  /\ a.call = "DeleteOrder" =>
       /\ pc[a.req] \in RollingBack
       /\ a.order = orderId[a.req]
       /\ a.order \in OrdersOf(a.req)

IInv ==
  /\ TypeOK
  /\ \A r \in Request : PlaceTellsLocals(r) /\ PassedItemsSold(r)
  /\ \A a \in abandoned : AttemptEarned(a)

\* The types hold in every state of the invariant.
LEMMA IInvTypes == IInv => Types
  BY DEF IInv, Types, Selling, PlaceTellsLocals

-----------------------------------------------------------------------------
(* What every step does: rows and documents are only added, and a checkout *)
(* that has sold its cart or rolls back keeps what it knows.               *)

StoresGrow ==
  /\ DOMAIN placed \subseteq DOMAIN placed'
  /\ \A n \in DOMAIN placed : placed'[n] = placed[n]
  /\ DOMAIN documents \subseteq DOMAIN documents'
  /\ \A d \in DOMAIN documents : documents'[d] = documents[d]

KeepsSales(q) ==
  /\ cart'[q] = cart[q]
  /\ orderId'[q] = orderId[q]
  /\ docNos[q] \subseteq docNos'[q]

SameLocals(q) ==
  /\ pc'[q] = pc[q]
  /\ reply'[q] = reply[q]
  /\ unsold'[q] = unsold[q]
  /\ docNos'[q] = docNos[q]
  /\ cart'[q] = cart[q]
  /\ orderId'[q] = orderId[q]

SoldOrRollingBack == RollingBack \cup {"DeleteBasket", "ReturnTrue"}

LocalsForward(q) ==
  /\ pc[q] \in SoldOrRollingBack => pc'[q] \in SoldOrRollingBack /\ KeepsSales(q)
  /\ pc[q] \in RollingBack => pc'[q] \in RollingBack

\* The order of a checkout stays its order.
LEMMA OrderStable ==
  ASSUME StoresGrow, NEW q, NEW n \in OrdersOf(q)
  PROVE  n \in OrdersOf(q)'
  BY DEF StoresGrow, OrdersOf

\* What a checkout sold stays sold.
LEMMA SoldStable ==
  ASSUME StoresGrow, NEW q, KeepsSales(q), CartSold(q)
  PROVE  CartSold(q)'
  BY OrderStable DEF StoresGrow, KeepsSales, CartSold

\* The items passed stay sold.
LEMMA PassedStable ==
  ASSUME StoresGrow, NEW q, KeepsSales(q), unsold'[q] = unsold[q], PassedItemsSold(q)
  PROVE  PassedItemsSold(q)'
  BY DEF StoresGrow, KeepsSales, PassedItemsSold

\* A checkout whose foreach is over has sold its cart.
LEMMA NothingLeftIsSold ==
  ASSUME NEW r, PassedItemsSold(r), unsold[r] = {}, orderId[r] \in OrdersOf(r)
  PROVE  CartSold(r)
  BY DEF PassedItemsSold, CartSold

\* A step keeps the invariant if the stores grow, one checkout at most goes
\* forward, and what the step tells of that checkout and the attempts it abandons
\* are right.
LEMMA StepKeepsIInv ==
  ASSUME IInv, TypeOK', StoresGrow, NEW r \in Request,
         \A q \in Request \ {r} : SameLocals(q),
         LocalsForward(r), PlaceTellsLocals(r)', PassedItemsSold(r)',
         \A a \in abandoned' \ abandoned : AttemptEarned(a)'
  PROVE  IInv'
  <1>1. \A q \in Request : LocalsForward(q)
    BY DEF SameLocals, LocalsForward, KeepsSales
  <1>2. ASSUME NEW q \in Request \ {r} PROVE PlaceTellsLocals(q)'
    <2>1. PlaceTellsLocals(q) /\ SameLocals(q)
      BY DEF IInv
    <2>2. orderId[q] \in OrdersOf(q) => orderId[q] \in OrdersOf(q)'
      BY OrderStable
    <2> QED
      BY <2>1, <2>2 DEF PlaceTellsLocals, SameLocals
  <1>3. ASSUME NEW q \in Request \ {r} PROVE PassedItemsSold(q)'
    BY PassedStable DEF IInv, SameLocals, KeepsSales
  <1>4. ASSUME NEW a \in abandoned PROVE AttemptEarned(a)'
    <2>1. AttemptEarned(a) /\ a.req \in Request
      BY DEF IInv, TypeOK, ServicesTypeOK, Attempt
    <2>2. LocalsForward(a.req)
      BY <1>1, <2>1
    <2>3. CASE a.call = "DeleteBasket"
      <3>1. pc[a.req] \in SoldOrRollingBack /\ CartSold(a.req)
        BY <2>1, <2>3 DEF AttemptEarned, SoldOrRollingBack
      <3>2. pc'[a.req] \in SoldOrRollingBack /\ CartSold(a.req)'
        BY <2>2, <3>1, SoldStable DEF LocalsForward
      <3> QED
        BY <2>3, <3>2 DEF AttemptEarned, SoldOrRollingBack
    <2>4. CASE a.call = "DeleteOrder"
      <3>1. /\ pc[a.req] \in RollingBack
            /\ a.order = orderId[a.req]
            /\ a.order \in OrdersOf(a.req)
        BY <2>1, <2>4 DEF AttemptEarned
      <3>2. pc'[a.req] \in RollingBack /\ a.order = orderId'[a.req]
        BY <2>2, <3>1 DEF LocalsForward, SoldOrRollingBack, KeepsSales
      <3>3. a.order \in OrdersOf(a.req)'
        BY <3>1, OrderStable
      <3> QED
        BY <2>4, <3>2, <3>3 DEF AttemptEarned
    <2>5. CASE a.call \notin {"DeleteBasket", "DeleteOrder"}
      BY <2>5 DEF AttemptEarned
    <2> QED
      BY <2>3, <2>4, <2>5
  <1> QED
    BY <1>2, <1>3, <1>4 DEF IInv

\* Stores that only lose attempts, baskets and live orders grow, trivially.
LEMMA UnchangedStoresGrow ==
  ASSUME placed' = placed, documents' = documents
  PROVE  StoresGrow
  BY DEF StoresGrow

\* Inserting an order lets the stores grow; the row is the checkout's.
LEMMA InsertOrderGrows ==
  ASSUME Types, NEW q \in Request, InsertOrder(q), documents' = documents
  PROVE  StoresGrow /\ Len(placed) + 1 \in OrdersOf(q)'
  BY AppendFacts DEF Types, TypeOK, ServicesTypeOK, InsertOrder, StoresGrow, OrdersOf

\* Recording a sale lets the stores grow.
LEMMA InsertSaleGrows ==
  ASSUME Types, NEW n \in Nat, NEW items \in SUBSET Item, InsertSale(n, items),
         placed' = placed
  PROVE  /\ StoresGrow
         /\ Len(documents) + 1 \in DOMAIN documents'
         /\ documents'[Len(documents) + 1] = [order |-> n, items |-> items]
  <1>1. documents \in Seq(Document)
    BY DEF Types, TypeOK, ServicesTypeOK
  <1>2. PICK d \in Document : d = [order |-> n, items |-> items]
    BY DEF Document
  <1>3. documents' = Append(documents, d)
    BY <1>2 DEF InsertSale
  <1> QED
    BY <1>1, <1>2, <1>3, AppendFacts DEF StoresGrow

\* Going to a point, or throwing, moves one checkout.
LEMMA MoveFacts ==
  ASSUME Types, NEW r \in Request
  PROVE  /\ \A p : Goto(r, p) =>
               /\ pc'[r] = p
               /\ reply' = reply
               /\ \A q \in Request \ {r} : pc'[q] = pc[q]
         /\ Throw(r) =>
               /\ pc' = pc
               /\ reply'[r] = "threw"
               /\ \A q \in Request \ {r} : reply'[q] = reply[q]
  BY DEF Types, TypeOK, Goto, Throw

-----------------------------------------------------------------------------
(* Each action keeps the invariant.                                        *)

\* The calls that only read, and the local steps, keep the invariant.
LEMMA ReadingKeepsIInv ==
  ASSUME IInv, TypeOK', NEW r \in Request,
         GetBasket(r) \/ GetOrder(r) \/ DeleteDocuments(r) \/ Return(r)
  PROVE  IInv'
  <1>1. Types /\ PlaceTellsLocals(r) /\ PassedItemsSold(r)
    BY IInvTypes DEF IInv
  <1>2. /\ StoresGrow
        /\ placed' = placed
        /\ documents' = documents
        /\ abandoned' = abandoned
        /\ orderId' = orderId
        /\ docNos' = docNos
    BY UnchangedStoresGrow DEF GetBasket, GetOrder, DeleteDocuments, Return, services
  <1>3. OrdersOf(r)' = OrdersOf(r)
    BY <1>2 DEF OrdersOf
  <1>4. CASE GetBasket(r)
    <2>1. pc[r] = "GetBasket" /\ reply[r] = "pending"
      BY <1>4 DEF GetBasket, At
    <2>2. CASE ResponseForwarded
      <3>1. /\ cart' = [cart EXCEPT ![r] = basket[UserOf[r]]]
            /\ unsold' = [unsold EXCEPT ![r] = basket[UserOf[r]]]
            /\ Goto(r, IF basket[UserOf[r]] # {} THEN "CreateOrder" ELSE "ReturnFalse")
        BY <1>4, <2>2 DEF GetBasket
      <3>2. /\ cart'[r] = basket[UserOf[r]] /\ unsold'[r] = basket[UserOf[r]]
            /\ \A q \in Request \ {r} : SameLocals(q)
        BY <1>1, <1>2, <3>1, MoveFacts DEF SameLocals, Types, TypeOK
      <3>3. PlaceTellsLocals(r)'
        BY <1>1, <1>2, <2>1, <3>1, <3>2, MoveFacts DEF PlaceTellsLocals
      <3>4. PassedItemsSold(r)' /\ LocalsForward(r)
        BY <2>1, <3>2 DEF PassedItemsSold, LocalsForward, SoldOrRollingBack, RollingBack
      <3> QED
        BY <1>2, <3>2, <3>3, <3>4, StepKeepsIInv
    <2>3. CASE ~ResponseForwarded
      <3>1. Throw(r) /\ UNCHANGED <<cart, unsold>>
        BY <1>4, <2>3 DEF GetBasket
      <3>2. /\ \A q \in Request \ {r} : SameLocals(q)
            /\ KeepsSales(r)
        BY <1>1, <1>2, <3>1, MoveFacts DEF SameLocals, KeepsSales
      <3>3. PlaceTellsLocals(r)' /\ LocalsForward(r)
        BY <1>1, <1>2, <1>3, <3>1, <3>2, MoveFacts DEF PlaceTellsLocals, LocalsForward
      <3>4. PassedItemsSold(r)'
        BY <1>1, <1>2, <3>1, <3>2, PassedStable
      <3> QED
        BY <1>2, <3>2, <3>3, <3>4, StepKeepsIInv
    <2> QED
      BY <2>2, <2>3
  <1>5. CASE GetOrder(r) \/ DeleteDocuments(r) \/ Return(r)
    <2>1. UNCHANGED <<cart, unsold>> /\ KeepsSales(r)
      BY <1>2, <1>5 DEF GetOrder, DeleteDocuments, Return, KeepsSales
    <2>2. PassedItemsSold(r)'
      BY <1>1, <1>2, <2>1, PassedStable
    <2>3. \A q \in Request \ {r} : SameLocals(q)
      BY <1>1, <1>2, <1>5, <2>1, MoveFacts
      DEF GetOrder, DeleteDocuments, Return, SameLocals, Types, TypeOK
    <2>4. PlaceTellsLocals(r)' /\ LocalsForward(r)
      <3>1. CASE GetOrder(r)
        <4>1. pc[r] = "GetOrder" /\ reply[r] = "pending" /\ (Goto(r, "SellItem") \/ Throw(r))
          BY <3>1 DEF GetOrder, At
        <4> QED
          BY <1>1, <1>2, <1>3, <2>1, <4>1, MoveFacts
          DEF PlaceTellsLocals, LocalsForward, SoldOrRollingBack, RollingBack
      <3>2. CASE DeleteDocuments(r)
        <4>1. /\ pc[r] = "DeleteDocuments" /\ reply[r] = "pending"
              /\ (docNos[r] = {} /\ Goto(r, "ReturnFalse")) \/ Throw(r)
          BY <3>2 DEF DeleteDocuments, At
        <4> QED
          BY <1>1, <1>2, <1>3, <2>1, <4>1, MoveFacts
          DEF PlaceTellsLocals, LocalsForward, SoldOrRollingBack, RollingBack
      <3>3. CASE Return(r)
        <4>1. /\ pc' = pc /\ reply[r] = "pending"
              /\ pc[r] \in {"ReturnTrue", "ReturnFalse"}
              /\ reply'[r] = IF pc[r] = "ReturnTrue" THEN "success" ELSE "failure"
          BY <1>1, <3>3 DEF Return, Types, TypeOK
        <4> QED
          BY <1>1, <1>2, <1>3, <2>1, <4>1 DEF PlaceTellsLocals, LocalsForward
      <3> QED
        BY <1>5, <3>1, <3>2, <3>3
    <2> QED
      BY <1>2, <2>2, <2>3, <2>4, StepKeepsIInv
  <1> QED
    BY <1>4, <1>5

\* CreateOrder keeps the invariant: its row is the checkout's own.
LEMMA CreateOrderKeepsIInv ==
  ASSUME IInv, TypeOK', NEW r \in Request, CreateOrder(r)
  PROVE  IInv'
  <1>1. Types /\ PlaceTellsLocals(r) /\ PassedItemsSold(r)
    BY IInvTypes DEF IInv
  <1>2. /\ documents' = documents /\ abandoned' = abandoned
        /\ cart' = cart /\ unsold' = unsold /\ docNos' = docNos
        /\ pc[r] = "CreateOrder" /\ reply[r] = "pending"
    BY DEF CreateOrder, At
  <1>3. PassedItemsSold(r)' /\ LocalsForward(r)
    BY <1>1, <1>2
    DEF PassedItemsSold, PlaceTellsLocals, LocalsForward, SoldOrRollingBack, RollingBack
  <1>4. CASE /\ InsertOrder(r)
             /\ orderId' = [orderId EXCEPT ![r] = Len(placed) + 1]
             /\ Goto(r, "GetOrder")
    <2>1. StoresGrow /\ orderId'[r] \in OrdersOf(r)'
      BY <1>1, <1>2, <1>4, InsertOrderGrows DEF Types, TypeOK
    <2>2. \A q \in Request \ {r} : SameLocals(q)
      BY <1>1, <1>2, <1>4, MoveFacts DEF SameLocals, Types, TypeOK
    <2>3. PlaceTellsLocals(r)'
      BY <1>1, <1>2, <1>4, <2>1, MoveFacts DEF PlaceTellsLocals
    <2> QED
      BY <1>2, <1>3, <2>1, <2>2, <2>3, StepKeepsIInv
  <1>5. CASE (Goto(r, "ReturnFalse") \/ Throw(r)) /\ UNCHANGED <<placed, orderId>>
    <2>1. StoresGrow
      BY <1>2, <1>5, UnchangedStoresGrow
    <2>2. \A q \in Request \ {r} : SameLocals(q)
      BY <1>1, <1>2, <1>5, MoveFacts DEF SameLocals, Types, TypeOK
    <2>3. PlaceTellsLocals(r)'
      BY <1>1, <1>2, <1>5, MoveFacts DEF PlaceTellsLocals
    <2> QED
      BY <1>2, <1>3, <2>1, <2>2, <2>3, StepKeepsIInv
  <1> QED
    BY <1>4, <1>5 DEF CreateOrder

\* SellItem keeps the invariant: the item passed is in the document it answers.
LEMMA SellItemKeepsIInv ==
  ASSUME IInv, TypeOK', NEW r \in Request, SellItem(r)
  PROVE  IInv'
  <1> DEFINE i == CurrentItem(r)
  <1> DEFINE d == Len(documents) + 1
  <1>1. Types /\ PlaceTellsLocals(r) /\ PassedItemsSold(r)
    BY IInvTypes DEF IInv
  <1>2. /\ placed' = placed /\ abandoned' = abandoned
        /\ cart' = cart /\ orderId' = orderId
        /\ pc[r] = "SellItem" /\ reply[r] = "pending"
        /\ InsertSale(orderId[r], {i})
        /\ unsold' = [unsold EXCEPT ![r] = @ \ {i}]
        /\ docNos' = [docNos EXCEPT ![r] = @ \cup {d}]
        /\ Goto(r, IF unsold'[r] = {} THEN "DeleteBasket" ELSE "SellItem")
    BY DEF SellItem, At
  <1>3. i \in unsold[r] /\ i \in Item
    BY <1>1, <1>2, CurrentItemFact
  <1>4. orderId[r] \in Nat /\ {i} \in SUBSET Item
    BY <1>1, <1>3 DEF Types, TypeOK
  <1>5. /\ StoresGrow
        /\ d \in DOMAIN documents'
        /\ documents'[d] = [order |-> orderId[r], items |-> {i}]
    BY <1>1, <1>2, <1>4, InsertSaleGrows
  <1> HIDE DEF i, d
  <1>6. unsold'[r] = unsold[r] \ {i} /\ docNos'[r] = docNos[r] \cup {d}
    BY <1>1, <1>2 DEF Types, TypeOK
  <1>7. \A q \in Request \ {r} : SameLocals(q)
    BY <1>1, <1>2, MoveFacts DEF SameLocals, Types, TypeOK
  <1>8. PassedItemsSold(r)'
    <2> SUFFICES ASSUME NEW j \in cart[r] \ unsold'[r]
                 PROVE  \E e \in docNos'[r] \cap DOMAIN documents' :
                          documents'[e] = [order |-> orderId[r], items |-> {j}]
      BY <1>2 DEF PassedItemsSold
    <2>1. CASE j = i
      BY <1>5, <1>6, <2>1
    <2>2. CASE j # i
      <3>1. PICK e \in docNos[r] \cap DOMAIN documents :
              documents[e] = [order |-> orderId[r], items |-> {j}]
        BY <1>1, <1>6, <2>2 DEF PassedItemsSold
      <3> QED
        BY <1>5, <1>6, <3>1 DEF StoresGrow
    <2> QED
      BY <2>1, <2>2
  <1>9. LocalsForward(r)
    BY <1>2 DEF LocalsForward, SoldOrRollingBack, RollingBack
  <1>10. PlaceTellsLocals(r)'
    <2>1. orderId[r] \in OrdersOf(r)'
      BY <1>1, <1>2 DEF PlaceTellsLocals, OrdersOf
    <2>2. /\ pc'[r] = IF unsold'[r] = {} THEN "DeleteBasket" ELSE "SellItem"
          /\ reply' = reply
      BY <1>1, <1>2, MoveFacts
    <2> QED
      BY <1>1, <1>2, <1>3, <1>6, <2>1, <2>2 DEF PlaceTellsLocals
  <1> QED
    BY <1>2, <1>5, <1>7, <1>8, <1>9, <1>10, StepKeepsIInv

\* The DELETEs keep the invariant: they add nothing to the stores.
LEMMA DeletingKeepsIInv ==
  ASSUME IInv, TypeOK', NEW r \in Request, DeleteBasket(r) \/ DeleteOrder(r)
  PROVE  IInv'
  <1>1. Types /\ PlaceTellsLocals(r) /\ PassedItemsSold(r)
    BY IInvTypes DEF IInv
  <1>2. /\ placed' = placed /\ documents' = documents /\ abandoned' = abandoned
        /\ cart' = cart /\ orderId' = orderId /\ unsold' = unsold /\ docNos' = docNos
        /\ reply[r] = "pending"
    BY DEF DeleteBasket, DeleteOrder, At
  <1>3. StoresGrow /\ KeepsSales(r) /\ OrdersOf(r)' = OrdersOf(r)
    BY <1>2, UnchangedStoresGrow DEF KeepsSales, OrdersOf
  <1>4. PassedItemsSold(r)'
    BY <1>1, <1>2, <1>3, PassedStable
  <1>5. PICK p : /\ Goto(r, p)
                 /\ \/ pc[r] = "DeleteBasket" /\ p = "ReturnTrue"
                    \/ pc[r] = "DeleteBasket" /\ p = "ReturnFalse" /\ ServicesMayDecline
                    \/ pc[r] = "DeleteOrder" /\ p = "DeleteDocuments"
    BY DEF DeleteBasket, DeleteOrder, At
  <1>6. /\ pc'[r] = p /\ reply' = reply
        /\ \A q \in Request \ {r} : SameLocals(q)
    BY <1>1, <1>2, <1>5, MoveFacts DEF SameLocals
  <1>7. PlaceTellsLocals(r)' /\ LocalsForward(r)
    BY <1>1, <1>2, <1>3, <1>5, <1>6
    DEF PlaceTellsLocals, LocalsForward, SoldOrRollingBack, RollingBack
  <1> QED
    BY <1>2, <1>3, <1>4, <1>6, <1>7, StepKeepsIInv

\* What losing an attempt leaves: it moves no data, and the attempt it abandons is
\* the call of the checkout's place, for its own order.
LEMMA LostAttempt ==
  ASSUME NEW r \in Request, LoseAttempt(r)
  PROVE  /\ reply[r] = "pending" /\ pc[r] \notin {"ReturnTrue", "ReturnFalse"}
         /\ placed' = placed /\ documents' = documents
         /\ cart' = cart /\ orderId' = orderId /\ unsold' = unsold /\ docNos' = docNos
         /\ \A a \in abandoned' \ abandoned :
              a.req = r /\ a.call = CallAt(pc[r]) /\ a.order = orderId[r]
  BY DEF LoseAttempt, Abandon

\* Attempts that get no reply keep the invariant.
LEMMA LosingKeepsIInv ==
  ASSUME IInv, TypeOK', NEW r \in Request,
         AttemptRetried(r) \/ AttemptFatal(r) \/ DeleteOrderRefused(r)
  PROVE  IInv'
  <1>1. Types /\ PlaceTellsLocals(r) /\ PassedItemsSold(r) /\ pc[r] \in Point
    BY IInvTypes DEF IInv, TypeOK
  <1>2. LoseAttempt(r)
    BY DEF AttemptRetried, AttemptFatal, DeleteOrderRefused
  <1>3. StoresGrow /\ KeepsSales(r) /\ OrdersOf(r)' = OrdersOf(r)
    BY <1>2, LostAttempt, UnchangedStoresGrow DEF KeepsSales, OrdersOf
  <1>4. PassedItemsSold(r)'
    BY <1>1, <1>2, <1>3, LostAttempt, PassedStable
  <1>5. \/ pc' = pc /\ reply' = reply
        \/ Throw(r)
        \/ Goto(r, "DeleteOrder") /\ pc[r] \in {"SellItem", "DeleteBasket"}
        \/ Goto(r, "DeleteDocuments") /\ pc[r] = "DeleteOrder"
    BY DEF AttemptRetried, AttemptFatal, DeleteOrderRefused, At
  <1>6. \A q \in Request \ {r} : SameLocals(q)
    BY <1>1, <1>2, <1>5, LostAttempt, MoveFacts DEF SameLocals
  <1>7. PlaceTellsLocals(r)' /\ LocalsForward(r)
    BY <1>1, <1>2, <1>3, <1>5, LostAttempt, MoveFacts
    DEF PlaceTellsLocals, LocalsForward, SoldOrRollingBack, RollingBack
  <1>8. ASSUME NEW a \in abandoned' \ abandoned PROVE AttemptEarned(a)'
    <2>1. a.req = r /\ a.call = CallAt(pc[r]) /\ a.order = orderId[r]
      BY <1>2, LostAttempt
    <2>2. CASE pc[r] = "DeleteBasket"
      <3>1. CartSold(r)'
        BY <1>1, <1>3, <2>2, NothingLeftIsSold, SoldStable DEF PlaceTellsLocals
      <3>2. pc'[r] \in SoldOrRollingBack
        BY <1>7, <2>2 DEF LocalsForward, SoldOrRollingBack
      <3> QED
        BY <2>1, <2>2, <3>1, <3>2 DEF AttemptEarned, CallAt, SoldOrRollingBack
    <2>3. CASE pc[r] = "DeleteOrder"
      <3>1. orderId'[r] = orderId[r] /\ orderId[r] \in OrdersOf(r)'
        BY <1>1, <1>3, <2>3 DEF PlaceTellsLocals, KeepsSales
      <3>2. pc'[r] \in RollingBack
        BY <1>7, <2>3 DEF LocalsForward, RollingBack
      <3> QED
        BY <2>1, <2>3, <3>1, <3>2 DEF AttemptEarned, CallAt
    <2>4. CASE pc[r] \notin {"DeleteBasket", "DeleteOrder"}
      BY <2>1, <2>4 DEF AttemptEarned, CallAt
    <2> QED
      BY <2>2, <2>3, <2>4
  <1> QED
    BY <1>3, <1>4, <1>6, <1>7, <1>8, StepKeepsIInv

\* Steps that move no checkout keep the invariant.
LEMMA OutsideKeepsIInv ==
  ASSUME IInv, TypeOK', UNCHANGED locals, StoresGrow, abandoned' \subseteq abandoned
  PROVE  IInv'
  <1>1. CASE Request = {}
    <2>1. abandoned' = {}
      BY <1>1 DEF TypeOK, ServicesTypeOK, Attempt
    <2> QED
      BY <1>1, <2>1 DEF IInv
  <1>2. ASSUME NEW r \in Request PROVE IInv'
    <2>1. PlaceTellsLocals(r) /\ PassedItemsSold(r)
      BY DEF IInv
    <2>2. /\ \A q \in Request : SameLocals(q)
          /\ LocalsForward(r) /\ KeepsSales(r)
      BY DEF locals, SameLocals, LocalsForward, KeepsSales
    <2>3. PassedItemsSold(r)'
      BY <2>1, <2>2, PassedStable DEF SameLocals
    <2>4. orderId[r] \in OrdersOf(r) => orderId[r] \in OrdersOf(r)'
      BY OrderStable
    <2>5. PlaceTellsLocals(r)'
      BY <2>1, <2>2, <2>4 DEF PlaceTellsLocals, SameLocals
    <2> QED
      BY <2>2, <2>3, <2>5, StepKeepsIInv
  <1> QED
    BY <1>1, <1>2

\* The services' late steps and the other clients keep the invariant.
LEMMA OthersKeepIInv ==
  ASSUME IInv, TypeOK',
         \/ \E a \in abandoned : LateArrival(a)
         \/ \E u \in User : Shopper(u)
         \/ \E n \in LiveOrder : Client(n)
         \/ UNCHANGED vars
  PROVE  IInv'
  <1> USE IInvTypes
  <1>1. ASSUME NEW a \in abandoned, LateArrival(a) PROVE IInv'
    <2>1. UNCHANGED locals /\ abandoned' \subseteq abandoned
      BY <1>1
      DEF LateArrival, LateCreateOrder, LateUpdateInventory, LateDeleteBasket, LateDeleteOrder
    <2>2. a.req \in Request /\ a.order \in Nat /\ a.items \subseteq Item
      BY DEF IInv, TypeOK, ServicesTypeOK, Attempt
    <2>3. CASE LateCreateOrder(a)
      BY <2>1, <2>2, <2>3, InsertOrderGrows, OutsideKeepsIInv DEF LateCreateOrder
    <2>4. CASE LateUpdateInventory(a)
      <3>1. PICK sold \in SUBSET Item : InsertSale(a.order, sold)
        BY <2>2, <2>4 DEF LateUpdateInventory
      <3>2. StoresGrow
        BY <2>2, <2>4, <3>1, InsertSaleGrows DEF LateUpdateInventory
      <3> QED
        BY <2>1, <3>2, OutsideKeepsIInv
    <2>5. CASE LateDeleteBasket(a) \/ LateDeleteOrder(a)
      BY <2>1, <2>5, UnchangedStoresGrow, OutsideKeepsIInv
      DEF LateDeleteBasket, LateDeleteOrder
    <2> QED
      BY <1>1, <2>3, <2>4, <2>5 DEF LateArrival
  <1>2. ASSUME NEW u \in User, Shopper(u) PROVE IInv'
    BY <1>2, UnchangedStoresGrow, OutsideKeepsIInv DEF Shopper, ShopperChangesBasket
  <1>3. ASSUME NEW n \in LiveOrder, Client(n) PROVE IInv'
    BY <1>3, UnchangedStoresGrow, OutsideKeepsIInv DEF Client, ClientDeletesOrder
  <1>4. CASE UNCHANGED vars
    BY <1>4, UnchangedStoresGrow, OutsideKeepsIInv DEF vars, services
  <1> QED
    BY <1>1, <1>2, <1>3, <1>4

\* The initial states satisfy the invariant.
LEMMA InitIInv == Init => IInv
  <1> SUFFICES ASSUME Init PROVE IInv
    OBVIOUS
  <1>1. TypeOK
    BY ServicesAssumption DEF Init, ServicesInit, TypeOK, ServicesTypeOK, Point
  <1>2. \A r \in Request : PlaceTellsLocals(r) /\ PassedItemsSold(r)
    BY DEF Init, PlaceTellsLocals, PassedItemsSold
  <1>3. abandoned = {}
    BY DEF Init, ServicesInit
  <1> QED
    BY <1>1, <1>2, <1>3 DEF IInv

\* Every step keeps the invariant.
LEMMA NextIInv == IInv /\ [Next]_vars => IInv'
  <1> SUFFICES ASSUME IInv, [Next]_vars PROVE IInv'
    OBVIOUS
  <1>1. TypeOK'
    BY IInvTypes, AdvanceTyped, OutsideTyped DEF Next
  <1>2. ASSUME NEW r \in Request, Advance(r) PROVE IInv'
    BY <1>1, <1>2, ReadingKeepsIInv, CreateOrderKeepsIInv, SellItemKeepsIInv,
       DeletingKeepsIInv, LosingKeepsIInv
    DEF Advance
  <1> QED
    BY <1>1, <1>2, OthersKeepIInv DEF Next

\* The inductive invariant holds in every reachable state.
LEMMA Invariant == Spec => []IInv
  BY InitIInv, NextIInv, PTL DEF Spec

-----------------------------------------------------------------------------
(* The theorems.                                                           *)

\* Every reachable state of CheckoutSageService and its services is well typed
\* (TypeOK), for any users, items, checkouts and attempts.
THEOREM TypeCorrect == Spec => []TypeOK
  <1>1. IInv => TypeOK
    BY DEF IInv
  <1> QED
    BY <1>1, Invariant, PTL

\* A checkout that CheckoutOrder answers true sold a non-empty cart, item by item,
\* under an order of its own (SuccessMeansSold).
THEOREM SuccessIsSold == Spec => []SuccessMeansSold
  <1>1. IInv => SuccessMeansSold
    BY NothingLeftIsSold DEF IInv, PlaceTellsLocals, SuccessMeansSold
  <1> QED
    BY <1>1, Invariant, PTL

\* Over the services of this repository, which never decline, a checkout answered
\* false knows of no sale (FailureHidesNoSale).
THEOREM FailuresHideNothing ==
  ASSUME ~ServicesMayDecline
  PROVE  Spec => []FailureHidesNoSale
  <1>1. IInv => FailureHidesNoSale
    BY DEF IInv, PlaceTellsLocals, FailureHidesNoSale
  <1> QED
    BY <1>1, Invariant, PTL

\* The steps that touch baskets and delete orders.
LEMMA WhoDeletes ==
  ASSUME [Next]_vars
  PROVE  /\ basket' # basket =>
              \/ \E r \in Request : DeleteBasket(r)
              \/ \E a \in abandoned : LateDeleteBasket(a)
              \/ \E u \in User : Shopper(u)
         /\ deleted' # deleted =>
              \/ \E r \in Request : DeleteOrder(r)
              \/ \E a \in abandoned : LateDeleteOrder(a) /\ UNCHANGED locals
              \/ \E n \in LiveOrder : Client(n)
  <1> DEFINE Who ==
        /\ basket' # basket =>
             \/ \E r \in Request : DeleteBasket(r)
             \/ \E a \in abandoned : LateDeleteBasket(a)
             \/ \E u \in User : Shopper(u)
        /\ deleted' # deleted =>
             \/ \E r \in Request : DeleteOrder(r)
             \/ \E a \in abandoned : LateDeleteOrder(a) /\ UNCHANGED locals
             \/ \E n \in LiveOrder : Client(n)
  <1>1. ASSUME NEW r \in Request, Advance(r) PROVE Who
    <2>1. CASE DeleteBasket(r) \/ DeleteOrder(r)
      BY <2>1 DEF DeleteBasket, DeleteOrder
    <2>2. CASE ~(DeleteBasket(r) \/ DeleteOrder(r))
      BY <1>1, <2>2
      DEF Advance, GetBasket, CreateOrder, GetOrder, SellItem, DeleteDocuments, Return,
          AttemptRetried, AttemptFatal, DeleteOrderRefused, LoseAttempt, services
    <2> QED
      BY <2>1, <2>2
  <1>2. ASSUME NEW a \in abandoned, LateArrival(a) PROVE Who
    <2>1. CASE LateDeleteBasket(a) \/ LateDeleteOrder(a)
      BY <1>2, <2>1 DEF LateArrival, LateDeleteBasket, LateDeleteOrder
    <2>2. CASE LateCreateOrder(a) \/ LateUpdateInventory(a)
      BY <2>2 DEF LateCreateOrder, LateUpdateInventory
    <2> QED
      BY <1>2, <2>1, <2>2 DEF LateArrival
  <1>3. ASSUME NEW u \in User, Shopper(u) PROVE Who
    BY <1>3 DEF Shopper, ShopperChangesBasket
  <1>4. ASSUME NEW n \in LiveOrder, Client(n) PROVE Who
    BY <1>4 DEF Client, ClientDeletesOrder
  <1>5. CASE UNCHANGED vars
    BY <1>5 DEF vars, services
  <1> QED
    BY <1>1, <1>2, <1>3, <1>4, <1>5 DEF Next

\* No checkout, in time or late, empties a basket before it has sold its whole cart
\* (BasketClearedAfterSale).
THEOREM BasketsClearedAfterSale == Spec => BasketClearedAfterSale
  <1>1. IInv /\ [Next]_vars =>
          [\A u \in User :
             basket'[u] # basket[u] =>
               \/ Shopper(u)
               \/ basket'[u] = {} /\ \E r \in Request : UserOf[r] = u /\ CartSold(r)]_vars
    <2> SUFFICES ASSUME IInv, [Next]_vars, NEW u \in User, basket'[u] # basket[u]
                 PROVE  \/ Shopper(u)
                        \/ basket'[u] = {} /\ \E r \in Request : UserOf[r] = u /\ CartSold(r)
      OBVIOUS
    <2>1. basket \in [User -> SUBSET Item]
      BY DEF IInv, TypeOK, ServicesTypeOK
    <2>2. ASSUME NEW r \in Request, RemoveBasket(UserOf[r])
          PROVE  UserOf[r] = u /\ basket'[u] = {}
      BY <2>1, <2>2 DEF RemoveBasket
    <2>3. ASSUME NEW r \in Request, DeleteBasket(r)
          PROVE  CartSold(r) /\ RemoveBasket(UserOf[r])
      <3>1. PlaceTellsLocals(r) /\ PassedItemsSold(r) /\ pc[r] = "DeleteBasket"
        BY <2>3 DEF IInv, DeleteBasket, At
      <3>2. CartSold(r)
        BY <3>1, NothingLeftIsSold DEF PlaceTellsLocals
      <3> QED
        BY <2>3, <3>2 DEF DeleteBasket
    <2>4. ASSUME NEW a \in abandoned, LateDeleteBasket(a)
          PROVE  a.req \in Request /\ CartSold(a.req) /\ RemoveBasket(UserOf[a.req])
      <3>1. a.req \in Request /\ AttemptEarned(a)
        BY DEF IInv, TypeOK, ServicesTypeOK, Attempt
      <3> QED
        BY <2>4, <3>1 DEF LateDeleteBasket, AttemptEarned
    <2>5. ASSUME NEW x \in User, Shopper(x) PROVE Shopper(u)
      BY <2>1, <2>5 DEF Shopper, ShopperChangesBasket
    <2> QED
      BY <2>2, <2>3, <2>4, <2>5, WhoDeletes
  <1> QED
    BY <1>1, Invariant, PTL DEF Spec, BasketClearedAfterSale

\* An order that goes other than by an API client was rolled back by the checkout it
\* was inserted for (OrderDeletedByItsRollback).
THEOREM OrdersDeletedByTheirRollback == Spec => OrderDeletedByItsRollback
  <1>1. IInv /\ [Next]_vars =>
          [\A n \in deleted' \ deleted :
             \/ Client(n)
             \/ orderId[placed[n]] = n /\ pc'[placed[n]] \in
                  {"DeleteOrder", "DeleteDocuments", "ReturnFalse"}]_vars
    <2> SUFFICES ASSUME IInv, [Next]_vars, NEW n \in deleted' \ deleted
                 PROVE  \/ Client(n)
                        \/ orderId[placed[n]] = n /\ pc'[placed[n]] \in
                             {"DeleteOrder", "DeleteDocuments", "ReturnFalse"}
      OBVIOUS
    <2>1. ASSUME NEW r \in Request, DeleteOrder(r)
          PROVE  /\ placed[n] = r /\ orderId[r] = n
                 /\ pc'[r] = "DeleteDocuments"
      <3>1. PlaceTellsLocals(r) /\ pc[r] = "DeleteOrder"
        BY <2>1 DEF IInv, DeleteOrder, At
      <3>2. n = orderId[r] /\ orderId[r] \in OrdersOf(r)
        BY <2>1, <3>1 DEF DeleteOrder, PlaceTellsLocals
      <3>3. pc'[r] = "DeleteDocuments"
        BY <2>1, IInvTypes, MoveFacts DEF DeleteOrder
      <3> QED
        BY <3>2, <3>3 DEF OrdersOf
    <2>2. ASSUME NEW a \in abandoned, LateDeleteOrder(a), UNCHANGED locals
          PROVE  /\ placed[n] = a.req /\ orderId[a.req] = n
                 /\ pc'[a.req] \in RollingBack
      <3>1. AttemptEarned(a) /\ a.call = "DeleteOrder" /\ n = a.order
        BY <2>2 DEF IInv, LateDeleteOrder, RemoveOrder
      <3> QED
        BY <2>2, <3>1 DEF AttemptEarned, OrdersOf, locals
    <2>3. ASSUME NEW m \in LiveOrder, Client(m) PROVE Client(n)
      <3>1. n = m
        BY <2>3 DEF Client, ClientDeletesOrder, RemoveOrder
      <3> QED
        BY <2>3, <3>1
    <2> QED
      BY <2>1, <2>2, <2>3, WhoDeletes DEF RollingBack
  <1> QED
    BY <1>1, Invariant, PTL DEF Spec, OrderDeletedByItsRollback

-----------------------------------------------------------------------------
(* This saga too implements the safety part of CheckoutProtocol.           *)

Phase == [r \in Request |-> PhaseOf(r)]

ProtocolStep == [Protocol!Next]_Protocol!vars

\* A step that leaves every checkout but r alone changes the phase of r only.
LEMMA PhaseOfOne ==
  ASSUME NEW r \in Request, \A q \in Request \ {r} : SameLocals(q)
  PROVE  Phase' = [Phase EXCEPT ![r] = PhaseOf(r)']
  <1>1. \A q \in Request \ {r} : PhaseOf(q)' = PhaseOf(q)
    BY DEF SameLocals, PhaseOf
  <1> QED
    BY <1>1 DEF Phase

\* Moving one checkout one phase forward, or not at all, is a step of the protocol.
LEMMA ForwardIsProtocolStep ==
  ASSUME NEW r \in Request, \A q \in Request \ {r} : SameLocals(q),
         reply[r] = "pending", reply' = reply,
         \/ PhaseOf(r)' = PhaseOf(r)
         \/ PhaseOf(r) = "browsing" /\ PhaseOf(r)' = "ordered"
         \/ PhaseOf(r) = "ordered" /\ PhaseOf(r)' = "sold"
         \/ PhaseOf(r) = "sold" /\ PhaseOf(r)' = "cleared"
  PROVE  ProtocolStep
  <1>1. Phase' = [Phase EXCEPT ![r] = PhaseOf(r)'] /\ Phase[r] = PhaseOf(r)
    BY PhaseOfOne DEF Phase
  <1>2. CASE PhaseOf(r)' = PhaseOf(r)
    BY <1>1, <1>2 DEF ProtocolStep, Protocol!vars, Phase
  <1>3. CASE PhaseOf(r)' # PhaseOf(r)
    BY <1>1, <1>3
    DEF ProtocolStep, Protocol!Next, Protocol!Move, Protocol!PlaceOrder,
        Protocol!SellCart, Protocol!ClearBasket, Protocol!Forward, Phase
  <1> QED
    BY <1>2, <1>3

\* Answering one caller, success exactly at ReturnTrue, is a step of the protocol.
LEMMA FinishIsProtocolStep ==
  ASSUME NEW r \in Request, UNCHANGED <<pc, orderId, unsold>>,
         reply[r] = "pending", NEW v \in {"success", "failure", "threw"},
         reply' = [reply EXCEPT ![r] = v],
         v = "success" <=> pc[r] = "ReturnTrue"
  PROVE  ProtocolStep
  <1>1. Phase' = Phase
    BY DEF Phase, PhaseOf
  <1>2. v \in IF Phase[r] = "cleared" THEN {"success"} ELSE {"failure", "threw"}
    BY DEF Phase, PhaseOf
  <1>3. Protocol!Finish(r)
    BY <1>1, <1>2 DEF Protocol!Finish, Phase
  <1> QED
    BY <1>3 DEF ProtocolStep, Protocol!Next, Protocol!Move

\* An exception that leaves CheckoutOrder answers the caller.
LEMMA ThrowIsProtocolStep ==
  ASSUME NEW r \in Request, Throw(r), UNCHANGED <<orderId, unsold>>,
         reply[r] = "pending", pc[r] # "ReturnTrue"
  PROVE  ProtocolStep
  BY FinishIsProtocolStep DEF Throw

\* An order number is not 0.
LEMMA OrderNumber ==
  ASSUME Types, NEW r \in Request, orderId[r] \in OrdersOf(r)
  PROVE  orderId[r] # 0
  BY DEF Types, TypeOK, ServicesTypeOK, OrdersOf

\* Each step of a checkout moves it at most one phase, or answers its caller.
LEMMA AdvanceIsProtocolStep ==
  ASSUME IInv, NEW r \in Request, Advance(r)
  PROVE  ProtocolStep
  <1>1. Types /\ PlaceTellsLocals(r)
    BY IInvTypes DEF IInv
  <1>2. pc[r] \notin {"GetBasket", "CreateOrder", "ReturnFalse"} => orderId[r] # 0
    BY <1>1, OrderNumber DEF PlaceTellsLocals
  <1>3. reply[r] = "pending"
    BY DEF Advance, GetBasket, CreateOrder, GetOrder, SellItem, DeleteBasket, DeleteOrder,
           DeleteDocuments, Return, AttemptRetried, AttemptFatal, DeleteOrderRefused,
           LoseAttempt, At
  <1>4. CASE GetBasket(r)
    <2>1. CASE Throw(r) /\ UNCHANGED unsold
      BY <1>3, <1>4, <2>1, ThrowIsProtocolStep DEF GetBasket, At
    <2>2. CASE \E p \in {"CreateOrder", "ReturnFalse"} : Goto(r, p)
      <3>1. \A q \in Request \ {r} : SameLocals(q)
        BY <1>1, <1>4, <2>2, MoveFacts DEF GetBasket, SameLocals, Types, TypeOK, Throw
      <3>2. PhaseOf(r) = "browsing" /\ PhaseOf(r)' = "browsing"
        BY <1>1, <1>4, <2>2, MoveFacts DEF GetBasket, At, PlaceTellsLocals, PhaseOf
      <3> QED
        BY <1>1, <1>3, <2>2, <3>1, <3>2, MoveFacts, ForwardIsProtocolStep
    <2> QED
      BY <1>4, <2>1, <2>2 DEF GetBasket
  <1>5. CASE CreateOrder(r)
    <2>1. CASE Throw(r) /\ UNCHANGED orderId
      BY <1>3, <1>5, <2>1, ThrowIsProtocolStep DEF CreateOrder, At
    <2>2. CASE /\ Goto(r, "GetOrder")
               /\ orderId' = [orderId EXCEPT ![r] = Len(placed) + 1]
      <3>1. orderId'[r] # 0
        BY <1>1, <2>2, AppendFacts DEF Types, TypeOK, ServicesTypeOK
      <3>2. \A q \in Request \ {r} : SameLocals(q)
        BY <1>1, <1>5, <2>2, MoveFacts DEF CreateOrder, SameLocals, Types, TypeOK
      <3>3. PhaseOf(r) = "browsing" /\ PhaseOf(r)' = "ordered"
        BY <1>1, <1>5, <2>2, <3>1, MoveFacts DEF CreateOrder, At, PlaceTellsLocals, PhaseOf
      <3> QED
        BY <1>1, <1>3, <2>2, <3>2, <3>3, MoveFacts, ForwardIsProtocolStep
    <2>3. CASE Goto(r, "ReturnFalse") /\ UNCHANGED orderId
      <3>1. \A q \in Request \ {r} : SameLocals(q)
        BY <1>1, <1>5, <2>3, MoveFacts DEF CreateOrder, SameLocals
      <3>2. PhaseOf(r) = "browsing" /\ PhaseOf(r)' = "browsing"
        BY <1>1, <1>5, <2>3, MoveFacts DEF CreateOrder, At, PlaceTellsLocals, PhaseOf
      <3> QED
        BY <1>1, <1>3, <2>3, <3>1, <3>2, MoveFacts, ForwardIsProtocolStep
    <2> QED
      BY <1>5, <2>1, <2>2, <2>3 DEF CreateOrder
  <1>6. CASE SellItem(r)
    <2>1. PICK p \in {"DeleteBasket", "SellItem"} : Goto(r, p)
      BY <1>6 DEF SellItem
    <2>2. \A q \in Request \ {r} : SameLocals(q)
      BY <1>1, <1>6, <2>1, MoveFacts DEF SellItem, SameLocals, Types, TypeOK
    <2>3. PhaseOf(r) = "ordered" /\ PhaseOf(r)' \in {"ordered", "sold"}
      <3>1. pc[r] = "SellItem" /\ pc'[r] = p /\ orderId' = orderId
        BY <1>1, <1>6, <2>1, MoveFacts DEF SellItem, At
      <3> QED
        BY <1>1, <1>2, <3>1 DEF PlaceTellsLocals, PhaseOf
    <2> QED
      BY <1>1, <1>3, <2>1, <2>2, <2>3, MoveFacts, ForwardIsProtocolStep
  <1>7. CASE GetOrder(r) \/ DeleteBasket(r) \/ DeleteOrder(r) \/ DeleteDocuments(r)
    <2>1. /\ UNCHANGED <<cart, orderId, unsold, docNos>>
          /\ pc[r] \notin {"GetBasket", "CreateOrder", "ReturnTrue", "ReturnFalse"}
          /\ \/ Throw(r)
             \/ \E p \in Point \ {"ReturnTrue"} : Goto(r, p)
             \/ Goto(r, "ReturnTrue") /\ pc[r] = "DeleteBasket"
      BY <1>7 DEF GetOrder, DeleteBasket, DeleteOrder, DeleteDocuments, At, Point
    <2>2. CASE Throw(r)
      BY <1>3, <2>1, <2>2, ThrowIsProtocolStep
    <2>3. CASE ~Throw(r)
      <3>1. PICK p : Goto(r, p) /\ (p = "ReturnTrue" => pc[r] = "DeleteBasket")
        BY <2>1, <2>3
      <3>2. /\ pc'[r] = p /\ reply' = reply
            /\ \A q \in Request \ {r} : SameLocals(q)
        BY <1>1, <2>1, <3>1, MoveFacts DEF SameLocals
      <3>3. \/ PhaseOf(r)' = PhaseOf(r)
            \/ PhaseOf(r) = "sold" /\ PhaseOf(r)' = "cleared"
        BY <1>1, <1>2, <2>1, <3>1, <3>2 DEF PlaceTellsLocals, PhaseOf
      <3> QED
        BY <1>3, <3>2, <3>3, ForwardIsProtocolStep
    <2> QED
      BY <2>2, <2>3
  <1>8. CASE Return(r)
    BY <1>3, <1>8, FinishIsProtocolStep DEF Return
  <1>9. CASE AttemptRetried(r) \/ AttemptFatal(r) \/ DeleteOrderRefused(r)
    <2>1. LoseAttempt(r)
      BY <1>9 DEF AttemptRetried, AttemptFatal, DeleteOrderRefused
    <2>2. CASE Throw(r)
      BY <1>3, <2>1, <2>2, LostAttempt, ThrowIsProtocolStep
    <2>3. CASE pc' = pc /\ reply' = reply
      BY <1>3, <2>1, <2>3, LostAttempt, ForwardIsProtocolStep DEF SameLocals, PhaseOf
    <2>4. CASE /\ \E p \in RollingBack : Goto(r, p)
               /\ pc[r] \in {"SellItem", "DeleteBasket", "DeleteOrder"}
      <3>1. /\ \A q \in Request \ {r} : SameLocals(q)
            /\ pc'[r] # "ReturnTrue" /\ reply' = reply
        BY <1>1, <2>1, <2>4, LostAttempt, MoveFacts DEF SameLocals, RollingBack
      <3>2. PhaseOf(r)' = PhaseOf(r)
        BY <2>1, <2>4, <3>1, LostAttempt DEF PhaseOf
      <3> QED
        BY <1>3, <3>1, <3>2, ForwardIsProtocolStep
    <2> QED
      BY <1>9, <2>2, <2>3, <2>4
      DEF AttemptRetried, AttemptFatal, DeleteOrderRefused, At, RollingBack
  <1> QED
    BY <1>4, <1>5, <1>6, <1>7, <1>8, <1>9 DEF Advance

\* CheckoutSageService refines the safety part of the checkout protocol, as
\* SagaOrderManager does: forward only and in order, answered once, with success
\* exactly when the basket was cleared.
THEOREM RefinesProtocol ==
  Spec => Protocol!Init /\ [][Protocol!Next]_Protocol!vars
  <1>1. Init => Protocol!Init
    BY DEF Init, Protocol!Init, PhaseOf
  <1>2. IInv /\ [Next]_vars => ProtocolStep
    <2>1. ASSUME UNCHANGED locals PROVE ProtocolStep
      BY <2>1 DEF locals, ProtocolStep, Protocol!vars, PhaseOf
    <2>2. ASSUME IInv, NEW r \in Request, Advance(r) PROVE ProtocolStep
      BY <2>2, AdvanceIsProtocolStep
    <2> QED
      BY <2>1, <2>2 DEF Next, LateArrival, Shopper, Client, vars
  <1>3. IInv /\ [Next]_vars => [Protocol!Next]_Protocol!vars
    BY <1>2 DEF ProtocolStep
  <1> QED
    BY <1>1, <1>3, Invariant, PTL DEF Spec

=============================================================================

--------------------------- MODULE CheckoutProtocol ---------------------------
(***************************************************************************)
(* What a checkout saga promises its caller, whichever class implements    *)
(* it: a checkout goes forward through placing the order, selling the cart *)
(* and clearing the basket, one at a time and never back; it is answered   *)
(* once; and it is answered with success exactly when it went all the way. *)
(***************************************************************************)
CONSTANT Request

VARIABLES
  phase,  \* how far the checkout got
  reply   \* what its caller was answered

vars == <<phase, reply>>

Init ==
  /\ phase = [r \in Request |-> "browsing"]
  /\ reply = [r \in Request |-> "pending"]

Forward(r, from, to) ==
  /\ reply[r] = "pending"
  /\ phase[r] = from
  /\ phase' = [phase EXCEPT ![r] = to]
  /\ UNCHANGED reply

PlaceOrder(r)  == Forward(r, "browsing", "ordered")
SellCart(r)    == Forward(r, "ordered", "sold")
ClearBasket(r) == Forward(r, "sold", "cleared")

\* The caller is answered.
Finish(r) ==
  /\ reply[r] = "pending"
  /\ reply' \in {[reply EXCEPT ![r] = v] :
                   v \in IF phase[r] = "cleared" THEN {"success"}
                                                 ELSE {"failure", "threw"}}
  /\ UNCHANGED phase

Move(r) == PlaceOrder(r) \/ SellCart(r) \/ ClearBasket(r) \/ Finish(r)

Next == \E r \in Request : Move(r)

Spec == Init /\ [][Next]_vars /\ \A r \in Request : WF_vars(Move(r))

=============================================================================

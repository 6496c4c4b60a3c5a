------------------------------ MODULE OrderTable ------------------------------
(***************************************************************************)
(* What the ordering service promises the sagas about its table, whatever  *)
(* handlers run at once and wherever they are cut off: a row is inserted   *)
(* whole, goes at most once, and never comes back.  CheckoutServices       *)
(* relies on it.                                                           *)
(***************************************************************************)
CONSTANT Order

VARIABLES placed, deleted

Init == placed = {} /\ deleted = {}

Insert(n) ==
  /\ n \notin placed
  /\ placed' = placed \cup {n}
  /\ UNCHANGED deleted

Remove(n) ==
  /\ n \in placed \ deleted
  /\ deleted' = deleted \cup {n}
  /\ UNCHANGED placed

Next == \E n \in Order : Insert(n) \/ Remove(n)

Spec == Init /\ [][Next]_<<placed, deleted>>

=============================================================================

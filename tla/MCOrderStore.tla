---------------------------- MODULE MCOrderStore -----------------------------
(***************************************************************************)
(* Small instances of OrderStore for TLC.                                  *)
(***************************************************************************)
EXTENDS OrderStore, TLC

CONSTANTS c1, c2, u1, u2, d1, d2

\* One order with two updates of different columns and two deletions, and another
\* order nobody touches.
MCOrderOf == [r \in {u1, u2, d1, d2} |-> c1]
MCRow(price, mail) == [c \in Column |-> IF c = "TotalPrice" THEN price ELSE mail]
MCValueOf ==
  (c1 :> MCRow(1, 1)) @@ (c2 :> MCRow(1, 1)) @@ (u1 :> MCRow(2, 1)) @@ (u2 :> MCRow(1, 2))

=============================================================================

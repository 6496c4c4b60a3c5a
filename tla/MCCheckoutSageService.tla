------------------------- MODULE MCCheckoutSageService -------------------------
(***************************************************************************)
(* Small instances of CheckoutSageService for TLC.                         *)
(***************************************************************************)
EXTENDS CheckoutSageService, TLC

CONSTANTS alice, pen, ink, r1, r2

MCSameUser == (r1 :> alice) @@ (r2 :> alice)
MCOneRequest == (r1 :> alice)

\* Bound of the two-checkout run: one attempt abandoned at a time, and one late
\* or repeated write beyond what the two checkouts need.
MCFewLosses ==
  /\ \A a, b \in abandoned : a = b
  /\ Len(placed) + Len(documents) <= 5

=============================================================================

--------------------------- MODULE MCBasketReminder ---------------------------
(***************************************************************************)
(* Small instances of BasketReminder for TLC.                              *)
(***************************************************************************)
EXTENDS BasketReminder, TLC

CONSTANTS alice, u1, u2, d1

\* Two posts and a removal of one user's basket.
MCUserOf == (u1 :> alice) @@ (u2 :> alice) @@ (d1 :> alice)

=============================================================================

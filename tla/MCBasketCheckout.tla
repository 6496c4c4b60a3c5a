--------------------------- MODULE MCBasketCheckout ---------------------------
(***************************************************************************)
(* Small instances of BasketCheckout for TLC.                              *)
(***************************************************************************)
EXTENDS BasketCheckout, TLC

CONSTANTS alice, bob, pen, r1, r2

\* A shopper who posts the checkout twice; other users only change their basket.
MCUserOf == (r1 :> alice) @@ (r2 :> alice)

=============================================================================

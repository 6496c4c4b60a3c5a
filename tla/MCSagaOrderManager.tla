-------------------------- MODULE MCSagaOrderManager --------------------------
(***************************************************************************)
(* Small instances of SagaOrderManager for TLC.                            *)
(***************************************************************************)
EXTENDS SagaOrderManager, TLC

CONSTANTS alice, bob, pen, ink, r1, r2

\* Two checkouts of one user.
MCSameUser == (r1 :> alice) @@ (r2 :> alice)
MCOneRequest == (r1 :> alice)

\* Bound of the two-checkout run: one attempt abandoned at a time, and one late
\* or repeated write beyond what the two checkouts need.
MCFewLosses ==
  /\ Cardinality(abandoned) <= 1
  /\ Len(placed) + Len(documents) <= 5

=============================================================================

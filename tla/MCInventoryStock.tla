--------------------------- MODULE MCInventoryStock ---------------------------
(***************************************************************************)
(* Small instances of InventoryStock for TLC.                              *)
(***************************************************************************)
EXTENDS InventoryStock, TLC

CONSTANTS i1, i2, o1, r1, d1, d2

MCLinesOf == o1 :> <<i1, i2, i1>>
MCItemOf == r1 :> i1
MCAskedSize == {-1, 1, 9}

=============================================================================

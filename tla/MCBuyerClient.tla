--------------------------- MODULE MCBuyerClient ----------------------------
(* The instance of BuyerClient for TLC. *)
EXTENDS BuyerClient

CONSTANTS c1, c2

One == {c1}
Two == {c1, c2}

=============================================================================

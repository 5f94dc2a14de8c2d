----------------------------- MODULE MCBidBatch -----------------------------
(* The instance of BidBatch for TLC: three items, two of them with one ID. *)
EXTENDS BidBatch, TLC

CONSTANTS i1, i2, i3, idA, idB

Three == {i1, i2, i3}
Duplicates == i1 :> idA @@ i2 :> idA @@ i3 :> idB

=============================================================================

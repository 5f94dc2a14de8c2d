--------------------------- MODULE MCBidProcessor ---------------------------
(* Instances of BidProcessor for TLC. *)
EXTENDS BidProcessor, TLC

CONSTANTS r1, r2, r3, id

None == {}
Two == {r1, r2}
Third == {r3}
Three == {r1, r2, r3}
NoIds == <<>>
SameId == r1 :> id @@ r2 :> id

=============================================================================

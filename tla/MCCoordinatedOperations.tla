---------------------- MODULE MCCoordinatedOperations -----------------------
(* The instance of CoordinatedOperations for TLC: an operation inside all  *)
(* wrappers, which may never return, and a bare one that heeds its         *)
(* context; a Wait beside a WaitWithTimeout.                               *)
EXTENDS CoordinatedOperations, TLC

CONSTANTS wrapped, bare, w1, w2

TwoOps == {wrapped, bare}
Wrapped == {wrapped}
Bare == {bare}
TwoWaits == {w1, w2}
SecondWait == {w2}

=============================================================================

--------------------------- MODULE MCSessionStore ---------------------------
(* The instance of SessionStore for TLC. *)
EXTENDS SessionStore, TLC

CONSTANTS c1, c2, k1, k2

TwoClients == {c1, c2}
TwoKeys == {k1, k2}
Alike == Permutations(TwoClients) \cup Permutations(TwoKeys)

=============================================================================

------------------------- MODULE MCRedisRateLimiter -------------------------
(* Instances of RedisRateLimiter for TLC. *)
EXTENDS RedisRateLimiter

CONSTANTS c1, c2, c3

OneClient == {c1}
ThreeClients == {c1, c2, c3}

=============================================================================

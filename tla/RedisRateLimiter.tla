-------------------------- MODULE RedisRateLimiter --------------------------
(***************************************************************************)
(* The Redis rate limiter of internal/redis/redis_limiter.go: clients that *)
(* call Allow (and Reset) on one key of one Redis server.  The read of the *)
(* counter and the pipeline that increments it are separate requests, and  *)
(* the pipeline is not a transaction: its INCR and its EXPIRE are separate *)
(* commands of the server.  The connection may fail before either, or      *)
(* after both with the replies lost; go-redis, whose MaxRetries client.go  *)
(* leaves alone, then sends the whole pipeline again, and the server may   *)
(* still execute what an attempt that failed had sent.                     *)
(*                                                                         *)
(* Time passes in units of which Duration is a multiple.                   *)
(***************************************************************************)
EXTENDS Integers, FiniteSets

CONSTANTS
    Clients,     \* goroutines, of any process, that use the key
    Limit,       \* r.Limit
    Duration,    \* r.Duration, in units
    MaxRetries,  \* go-redis's: how often it sends a failed pipeline again
    MaxLost,     \* bound on the commands of failed attempts, done or to come
    Resets       \* somebody calls Reset

ASSUME LimiterAssumption ==
    /\ Limit \in Nat \ {0}
    /\ Duration \in Nat \ {0}
    /\ MaxRetries \in Nat /\ MaxLost \in Nat
    /\ Resets \in BOOLEAN
    /\ IsFiniteSet(Clients)

NoTTL == Duration + 1     \* the TTL of a key that is absent or never expires
Ages == 0 .. Duration - 1

VARIABLES
    count,    \* the counter; 0 when the key does not exist
    ttl,      \* units until the key expires
    pc,       \* where each client is: "idle", "incr" or "expire"
    retry,    \* the attempts of each client's call that failed
    lateIncr, \* pipelines of failed attempts that the server may still execute,
    lateExpire,  \* and those of which it may still execute the EXPIRE
    age,      \* history: units since each client's INCR, Duration when older
    recent,   \* history: the calls that returned true with an INCR of at most this age
    extra     \* history: INCRs of failed attempts in the life of the key

late == <<lateIncr, lateExpire>>
vars == <<count, ttl, pc, retry, late, age, recent, extra>>

Init ==
    /\ count = 0
    /\ ttl = NoTTL
    /\ pc = [c \in Clients |-> "idle"]
    /\ retry = [c \in Clients |-> 0]
    /\ lateIncr = 0 /\ lateExpire = 0
    /\ age = [c \in Clients |-> Duration]
    /\ recent = [a \in Ages |-> 0]
    /\ extra = 0

\* A unit of time passes; a key whose time has come is gone for every later
\* command.
Tick ==
    /\ IF ttl = 1
       THEN count' = 0 /\ ttl' = NoTTL /\ extra' = 0
       ELSE UNCHANGED <<count, extra>> /\ ttl' = IF ttl = NoTTL THEN ttl ELSE ttl - 1
    /\ age' = [c \in Clients |-> IF age[c] < Duration THEN age[c] + 1 ELSE age[c]]
    /\ recent' = [a \in Ages |-> IF a = 0 THEN 0 ELSE recent[a - 1]]
    /\ UNCHANGED <<pc, retry, late>>

-----------------------------------------------------------------------------
(* Allow.                                                                  *)

ReadAtMost(c) ==
    /\ pc[c] = "idle"
    /\ count <= Limit
    /\ pc' = [pc EXCEPT ![c] = "incr"]
    /\ UNCHANGED <<count, ttl, retry, late, age, recent, extra>>

\* Variant: a refused call that renews the expiry.
ReadRenews(c) ==
    /\ pc[c] = "idle"
    /\ IF count < Limit
       THEN pc' = [pc EXCEPT ![c] = "incr"] /\ UNCHANGED ttl
       ELSE ttl' = Duration /\ UNCHANGED pc
    /\ UNCHANGED <<count, retry, late, age, recent, extra>>

\* GET; an absent key counts 0.  At the limit the call returns false and
\* nothing changes.
Read(c) ==
    /\ pc[c] = "idle"
    /\ count < Limit
    /\ pc' = [pc EXCEPT ![c] = "incr"]
    /\ UNCHANGED <<count, ttl, retry, late, age, recent, extra>>

\* INCR keeps the expiry of a key that exists and creates one without.
Incr(c) ==
    /\ pc[c] = "incr"
    /\ count' = count + 1
    /\ age' = [age EXCEPT ![c] = 0]
    /\ pc' = [pc EXCEPT ![c] = "expire"]
    /\ UNCHANGED <<ttl, retry, late, recent, extra>>

\* The call returns true; the history forgets it with its INCR.
ReturnTrue(c) ==
    /\ recent' = [a \in Ages |-> IF age[c] <= a THEN recent[a] + 1 ELSE recent[a]]
    /\ age' = [age EXCEPT ![c] = Duration]
    /\ retry' = [retry EXCEPT ![c] = 0]
    /\ pc' = [pc EXCEPT ![c] = "idle"]
    /\ UNCHANGED <<count, late, extra>>

\* Variant: an expiry set only when the counter starts.
ExpireOnce(c) ==
    /\ pc[c] = "expire"
    /\ ttl' = IF count = 1 THEN Duration ELSE ttl
    /\ ReturnTrue(c)

\* EXPIRE does nothing to a key that is gone.
Renew == ttl' = IF count > 0 THEN Duration ELSE ttl

Expire(c) ==
    /\ pc[c] = "expire"
    /\ Renew
    /\ ReturnTrue(c)

-----------------------------------------------------------------------------
(* Connections that fail.                                                  *)

\* The pipeline is sent again; or, after the last retry or when the context is
\* done, Allow returns the error.
AttemptFails(c) ==
    /\ \/ /\ retry[c] < MaxRetries
          /\ retry' = [retry EXCEPT ![c] = @ + 1]
          /\ pc' = [pc EXCEPT ![c] = "incr"]
       \/ /\ retry' = [retry EXCEPT ![c] = 0]
          /\ pc' = [pc EXCEPT ![c] = "idle"]
    /\ age' = [age EXCEPT ![c] = Duration]

Lost == extra + lateIncr + lateExpire

\* The attempt fails before its INCR, which never comes or comes late.
FailBeforeIncr(c) ==
    /\ pc[c] = "incr"
    /\ \/ UNCHANGED lateIncr
       \/ Lost < MaxLost /\ lateIncr' = lateIncr + 1
    /\ AttemptFails(c)
    /\ UNCHANGED <<count, ttl, lateExpire, recent, extra>>

\* It fails after its INCR: the EXPIRE never comes, comes late, or is done
\* and its reply is lost.
FailAfterIncr(c) ==
    /\ pc[c] = "expire"
    /\ Lost < MaxLost
    /\ extra' = extra + 1
    /\ \/ UNCHANGED <<ttl, lateExpire>>
       \/ lateExpire' = lateExpire + 1 /\ UNCHANGED ttl
       \/ Renew /\ UNCHANGED lateExpire
    /\ AttemptFails(c)
    /\ UNCHANGED <<count, lateIncr, recent>>

\* The server executes what it had received of a failed attempt.
LateIncr ==
    /\ lateIncr > 0
    /\ count' = count + 1 /\ extra' = extra + 1
    /\ lateIncr' = lateIncr - 1
    /\ lateExpire' = lateExpire + 1
    /\ UNCHANGED <<ttl, pc, retry, age, recent>>

LateExpire ==
    /\ lateExpire > 0
    /\ Renew
    /\ lateExpire' = lateExpire - 1
    /\ UNCHANGED <<count, pc, retry, lateIncr, age, recent, extra>>

-----------------------------------------------------------------------------
\* Reset deletes the key; the history starts anew.
Reset ==
    /\ Resets
    /\ count > 0
    /\ count' = 0
    /\ ttl' = NoTTL
    /\ age' = [c \in Clients |-> Duration]
    /\ recent' = [a \in Ages |-> 0]
    /\ extra' = 0
    /\ UNCHANGED <<pc, retry, late>>

ClientStep(c) ==
    \/ Read(c) \/ Incr(c) \/ Expire(c)
    \/ FailBeforeIncr(c) \/ FailAfterIncr(c)

Late == LateIncr \/ LateExpire

Next == Tick \/ Reset \/ Late \/ \E c \in Clients : ClientStep(c)

Spec == Init /\ [][Next]_vars

\* Time passes, and a call that read the counter goes on; nobody has to call,
\* and nothing that is late has to come.
LiveSpec ==
    /\ Spec
    /\ WF_vars(Tick)
    /\ \A c \in Clients : WF_vars(Incr(c) \/ Expire(c))

-----------------------------------------------------------------------------
TypeOK ==
    /\ count \in Nat
    /\ ttl \in 1 .. NoTTL
    /\ pc \in [Clients -> {"idle", "incr", "expire"}]
    /\ retry \in [Clients -> 0 .. MaxRetries]
    /\ lateIncr \in Nat /\ lateExpire \in Nat
    /\ age \in [Clients -> 0 .. Duration]
    /\ recent \in [Ages -> Nat]
    /\ extra \in Nat
    /\ count = 0 => ttl = NoTTL

\* The clients that will increment a counter they have read below the limit.
Pending == {c \in Clients : pc[c] = "incr"}

\* The counter, with the increments on their way, exceeds the limit by less
\* than the number of clients and the attempts that failed after their INCR in
\* the life of the key: the race between GET and INCR costs each client at most
\* one increment, and each time a pipeline is sent again costs one more
\* (redis_limiter.go:35-54).
BoundedOvershoot ==
    count + Cardinality(Pending) <= Limit + Cardinality(Clients) - 1 + extra

\* The overshoot stays bounded, over values of the right types, among them the
\* TTL that a failed EXPIRE leaves out (redis_limiter.go:35-59).
LimiterInv == TypeOK /\ BoundedOvershoot

\* In every window of Duration the calls allowed exceed the limit by at most
\* one per client for the race of BoundedOvershoot, less one, and one per
\* client for an INCR whose key expires before its EXPIRE; the expiry that
\* slides with each allowed call lets no window see two counters' worth, and no
\* pipeline that is sent again or comes late lets more calls in.
WindowBound == recent[Duration - 1] <= Limit + 2 * Cardinality(Clients) - 1

\* A key that has an expiry lets callers in again, however many calls it
\* refuses meanwhile and whatever connections fail ("Should be allowed again
\* after expiration", tests/integration/redis_integration_test.go:353).
ExpiringIsReleased == count >= Limit /\ ttl # NoTTL ~> count < Limit

\* So does every key at its limit.
BlockedIsReleased == count >= Limit ~> count < Limit

=============================================================================

----------------------- MODULE RedisRateLimiterProofs -----------------------
(***************************************************************************)
(* Theorems about the Redis rate limiter: how far the counter, and the     *)
(* calls allowed within a window, can exceed the limit, for every number   *)
(* of clients, limit and duration.                                         *)
(***************************************************************************)
EXTENDS RedisRateLimiter, TLAPS, FiniteSetTheorems

\* A set of clients, one more and one less.
LEMMA ClientSets ==
    ASSUME NEW S \in SUBSET Clients, NEW c \in Clients
    PROVE  /\ Cardinality(S) \in Nat /\ Cardinality(S) <= Cardinality(Clients)
           /\ Cardinality(Clients) \in Nat
           /\ c \notin S => /\ Cardinality(S \cup {c}) = Cardinality(S) + 1
                            /\ Cardinality(S) < Cardinality(Clients)
           /\ c \in S => Cardinality(S \ {c}) = Cardinality(S) - 1
<1>1. IsFiniteSet(S) /\ IsFiniteSet(Clients)
  BY LimiterAssumption, FS_Subset
<1>2. S \cup {c} \subseteq Clients /\ IsFiniteSet(S \cup {c})
  BY LimiterAssumption, FS_Subset
<1>3. /\ Cardinality(S) \in Nat /\ Cardinality(Clients) \in Nat
      /\ Cardinality(S) <= Cardinality(Clients)
      /\ Cardinality(S \cup {c}) <= Cardinality(Clients)
  BY <1>1, <1>2, FS_CardinalityType, FS_Subset
<1>4. c \notin S => Cardinality(S \cup {c}) = Cardinality(S) + 1
  BY <1>1, FS_AddElement
<1>5. c \in S => Cardinality(S \ {c}) = Cardinality(S) - 1
  BY <1>1, FS_RemoveElement
<1> QED
  BY <1>3, <1>4, <1>5

\* There may be no client at all: the sets of them are bounded all the same.
LEMMA Bounds ==
    ASSUME NEW S \in SUBSET Clients
    PROVE  /\ Cardinality(S) \in Nat /\ Cardinality(S) <= Cardinality(Clients)
           /\ Cardinality(Clients) \in Nat
BY LimiterAssumption, FS_CardinalityType, FS_Subset

-----------------------------------------------------------------------------
\* The clients between INCR and EXPIRE.
Expiring == {c \in Clients : pc[c] = "expire"}

\* A call is counted with the older ones it is counted with.
Ordered == \A a, b \in Ages : a <= b => recent[a] <= recent[b]

\* A key that expires has outlived every call counted in a window: each of
\* them renewed its expiry, or found the key gone.
Outlived == ttl # NoTTL => \A a \in Ages : a + ttl < Duration => recent[a] = 0

\* The calls allowed in a window, with those between INCR and EXPIRE, are in
\* the counter beside the increments of failed attempts, but for one of each
\* client, whose key expired before its EXPIRE.
Covered ==
    recent[Duration - 1] + Cardinality(Expiring) + extra <= count + Cardinality(Clients)

\* The inductive invariant.
WindowInv == TypeOK /\ BoundedOvershoot /\ Ordered /\ Outlived /\ Covered

\* It holds of an absent key.
LEMMA LimiterInit == Init => WindowInv
<1> SUFFICES ASSUME Init PROVE WindowInv
  OBVIOUS
<1>1. TypeOK /\ Ordered /\ Outlived
  BY LimiterAssumption DEF Init, TypeOK, Ordered, Outlived, NoTTL, Ages
<1>2. Pending = {} /\ Expiring = {}
  BY DEF Init, Pending, Expiring
<1>3. Cardinality({}) = 0 /\ Cardinality(Clients) \in Nat
  BY LimiterAssumption, FS_EmptySet, FS_CardinalityType
<1>4. count = 0 /\ extra = 0 /\ recent[Duration - 1] = 0
  BY LimiterAssumption DEF Init, Ages
<1>5. BoundedOvershoot /\ Covered
  BY <1>2, <1>3, <1>4, LimiterAssumption DEF BoundedOvershoot, Covered
<1> QED
  BY <1>1, <1>5 DEF WindowInv

\* Every step keeps the types.
LEMMA TypeStep == TypeOK /\ [Next]_vars => TypeOK'
<1> SUFFICES ASSUME TypeOK, [Next]_vars PROVE TypeOK'
  OBVIOUS
<1> USE LimiterAssumption DEF TypeOK, NoTTL, Ages, late
<1>1. CASE Tick
  <2>1. /\ count' \in Nat /\ ttl' \in 1 .. NoTTL /\ extra' \in Nat
        /\ UNCHANGED <<pc, retry, lateIncr, lateExpire>>
        /\ count' = 0 => ttl' = NoTTL
    BY <1>1 DEF Tick
  <2>2. age' \in [Clients -> 0 .. Duration]
    BY <1>1 DEF Tick
  <2>3. recent' \in [Ages -> Nat]
    BY <1>1 DEF Tick
  <2> QED
    BY <2>1, <2>2, <2>3
<1>2. CASE Reset
  BY <1>2 DEF Reset
<1>3. ASSUME NEW c \in Clients, Read(c) PROVE TypeOK'
  BY <1>3 DEF Read
<1>4. ASSUME NEW c \in Clients, Incr(c) PROVE TypeOK'
  BY <1>4 DEF Incr
<1>5. ASSUME NEW c \in Clients, Expire(c) PROVE TypeOK'
  <2>1. recent' \in [Ages -> Nat]
    BY <1>5 DEF Expire, ReturnTrue
  <2>2. /\ UNCHANGED <<count, lateIncr, lateExpire, extra>>
        /\ ttl' \in 1 .. NoTTL /\ (count' = 0 => ttl' = NoTTL)
        /\ pc' \in [Clients -> {"idle", "incr", "expire"}]
        /\ retry' \in [Clients -> 0 .. MaxRetries]
        /\ age' \in [Clients -> 0 .. Duration]
    BY <1>5 DEF Expire, ReturnTrue, Renew
  <2> QED
    BY <2>1, <2>2
<1>6. ASSUME NEW c \in Clients, FailBeforeIncr(c) \/ FailAfterIncr(c) PROVE TypeOK'
  <2>1. AttemptFails(c) /\ UNCHANGED <<count, recent>>
    BY <1>6 DEF FailBeforeIncr, FailAfterIncr
  <2>2. pc' \in [Clients -> {"idle", "incr", "expire"}]
    BY <2>1 DEF AttemptFails
  <2>3. retry' \in [Clients -> 0 .. MaxRetries]
    <3>1. retry[c] \in Nat /\ MaxRetries \in Nat
      OBVIOUS
    <3>2. CASE retry[c] < MaxRetries /\ retry' = [retry EXCEPT ![c] = @ + 1]
      BY <3>1, <3>2
    <3>3. CASE retry' = [retry EXCEPT ![c] = 0]
      BY <3>3
    <3> QED
      BY <2>1, <3>2, <3>3 DEF AttemptFails
  <2>4. age' \in [Clients -> 0 .. Duration]
    BY <2>1 DEF AttemptFails
  <2>5. lateIncr' \in Nat /\ lateExpire' \in Nat /\ extra' \in Nat
    <3>1. /\ lateIncr' = lateIncr \/ lateIncr' = lateIncr + 1
          /\ lateExpire' = lateExpire \/ lateExpire' = lateExpire + 1
          /\ extra' = extra \/ extra' = extra + 1
      BY <1>6 DEF FailBeforeIncr, FailAfterIncr
    <3> QED
      BY <3>1
  <2>6. ttl' \in 1 .. NoTTL /\ (count' = 0 => ttl' = NoTTL)
    <3>1. UNCHANGED ttl \/ Renew
      BY <1>6 DEF FailBeforeIncr, FailAfterIncr
    <3> QED
      BY <2>1, <3>1 DEF Renew
  <2> QED
    BY <2>1, <2>2, <2>3, <2>4, <2>5, <2>6
<1>7. CASE Late
  BY <1>7 DEF Late, LateIncr, LateExpire, Renew
<1>8. CASE UNCHANGED vars
  BY <1>8 DEF vars
<1> QED
  BY <1>1, <1>2, <1>3, <1>4, <1>5, <1>6, <1>7, <1>8 DEF Next, ClientStep

\* A client that finds the counter below the limit is one of those that may
\* exceed it, and was not one before; one that sends its pipeline again has left
\* its increment to the failed attempts (redis_limiter.go:35-54).
LEMMA OvershootStep == TypeOK /\ BoundedOvershoot /\ [Next]_vars => BoundedOvershoot'
<1> SUFFICES ASSUME TypeOK, BoundedOvershoot, [Next]_vars PROVE BoundedOvershoot'
  OBVIOUS
<1>type. /\ count \in Nat /\ pc \in [Clients -> {"idle", "incr", "expire"}]
         /\ Limit \in Nat \ {0} /\ extra \in Nat
  BY LimiterAssumption DEF TypeOK
<1>sets. Pending \in SUBSET Clients /\ Pending' \in SUBSET Clients
  BY DEF Pending
<1>1. CASE Tick \/ Reset \/ UNCHANGED vars
  <2>1. \/ count' = count /\ extra' = extra
        \/ count' = 0 /\ extra' = 0
    BY <1>1 DEF Tick, Reset, vars
  <2>2. Pending' = Pending
    BY <1>1 DEF Tick, Reset, vars, Pending
  <2> QED
    BY <2>1, <2>2, <1>type, <1>sets, Bounds DEF BoundedOvershoot
<1>2. ASSUME NEW c \in Clients, Read(c) PROVE BoundedOvershoot'
  <2>1. Pending' = Pending \cup {c} /\ c \notin Pending
    BY <1>2, <1>type DEF Read, Pending
  <2>2. count' = count /\ count < Limit /\ extra' = extra
    BY <1>2 DEF Read
  <2> QED
    BY <2>1, <2>2, <1>type, <1>sets, ClientSets DEF BoundedOvershoot
<1>3. ASSUME NEW c \in Clients, Incr(c) PROVE BoundedOvershoot'
  <2>1. Pending' = Pending \ {c} /\ c \in Pending
    BY <1>3, <1>type DEF Incr, Pending
  <2>2. count' = count + 1 /\ extra' = extra
    BY <1>3 DEF Incr
  <2> QED
    BY <2>1, <2>2, <1>type, <1>sets, ClientSets DEF BoundedOvershoot
<1>4. ASSUME NEW c \in Clients, Expire(c) PROVE BoundedOvershoot'
  <2>1. Pending' = Pending
    BY <1>4, <1>type DEF Expire, ReturnTrue, Pending
  <2>2. count' = count /\ extra' = extra
    BY <1>4 DEF Expire, ReturnTrue
  <2> QED
    BY <2>1, <2>2 DEF BoundedOvershoot
<1>5. ASSUME NEW c \in Clients, FailBeforeIncr(c) PROVE BoundedOvershoot'
  <2>1. Pending' = Pending \/ (Pending' = Pending \ {c} /\ c \in Pending)
    BY <1>5, <1>type DEF FailBeforeIncr, AttemptFails, Pending
  <2>2. count' = count /\ extra' = extra
    BY <1>5 DEF FailBeforeIncr
  <2> QED
    BY <2>1, <2>2, <1>type, <1>sets, ClientSets DEF BoundedOvershoot
<1>6. ASSUME NEW c \in Clients, FailAfterIncr(c) PROVE BoundedOvershoot'
  <2>1. c \notin Pending /\ (Pending' = Pending \/ Pending' = Pending \cup {c})
    BY <1>6, <1>type DEF FailAfterIncr, AttemptFails, Pending
  <2>2. count' = count /\ extra' = extra + 1
    BY <1>6 DEF FailAfterIncr
  <2>3. /\ Cardinality(Pending) \in Nat /\ Cardinality(Clients) \in Nat
        /\ Cardinality(Pending \cup {c}) = Cardinality(Pending) + 1
    BY <2>1, <1>sets, ClientSets
  <2>4. CASE Pending' = Pending
    BY <2>2, <2>3, <2>4, <1>type DEF BoundedOvershoot
  <2>5. CASE Pending' = Pending \cup {c}
    BY <2>2, <2>3, <2>5, <1>type DEF BoundedOvershoot
  <2> QED
    BY <2>1, <2>4, <2>5
<1>7. CASE Late
  <2>1. Pending' = Pending
    BY <1>7 DEF Late, LateIncr, LateExpire, Pending
  <2>2. \/ count' = count /\ extra' = extra
        \/ count' = count + 1 /\ extra' = extra + 1
    BY <1>7 DEF Late, LateIncr, LateExpire
  <2> QED
    BY <2>1, <2>2, <1>type, <1>sets, Bounds DEF BoundedOvershoot
<1> QED
  BY <1>1, <1>2, <1>3, <1>4, <1>5, <1>6, <1>7 DEF Next, ClientStep

\* Every call allowed with an EXPIRE that found its key starts the key's life
\* anew, so that the history of a key that expires is out of the window.
LEMMA HistoryStep ==
    TypeOK /\ Ordered /\ Outlived /\ [Next]_vars => Ordered' /\ Outlived'
<1> SUFFICES ASSUME TypeOK, Ordered, Outlived, [Next]_vars PROVE Ordered' /\ Outlived'
  OBVIOUS
<1> USE LimiterAssumption DEF NoTTL, Ages
<1>type. /\ ttl \in 1 .. NoTTL /\ recent \in [Ages -> Nat] /\ age \in [Clients -> 0 .. Duration]
         /\ Duration \in Nat \ {0}
  BY DEF TypeOK
<1>1. CASE Tick
  <2>1. \A a \in Ages : recent'[a] = IF a = 0 THEN 0 ELSE recent[a - 1]
    BY <1>1 DEF Tick
  <2>2. Ordered'
    BY <2>1, <1>type DEF Ordered
  <2>3. ttl' = NoTTL \/ (ttl # NoTTL /\ ttl' = ttl - 1)
    BY <1>1, <1>type DEF Tick
  <2>4. Outlived'
    BY <2>1, <2>3, <1>type DEF Outlived
  <2> QED
    BY <2>2, <2>4
<1>2. CASE Reset
  BY <1>2 DEF Reset, Ordered, Outlived
<1>renew. Renew => ttl' \in {Duration, ttl}
  BY DEF Renew
<1>3. ASSUME NEW c \in Clients, Read(c) \/ Incr(c) PROVE Ordered' /\ Outlived'
  BY <1>3 DEF Read, Incr, Ordered, Outlived
<1>4. ASSUME NEW c \in Clients, Expire(c) PROVE Ordered' /\ Outlived'
  <2>1. \A a \in Ages : recent'[a] = IF age[c] <= a THEN recent[a] + 1 ELSE recent[a]
    BY <1>4 DEF Expire, ReturnTrue
  <2>2. Ordered'
    BY <2>1, <1>type DEF Ordered
  <2>3. ttl' = Duration \/ (ttl' = NoTTL /\ count = 0)
    BY <1>4 DEF Expire, Renew, TypeOK
  <2>4. Outlived'
    BY <2>3, <1>type DEF Outlived
  <2> QED
    BY <2>2, <2>4
<1>5. CASE Late \/ \E c \in Clients : FailBeforeIncr(c) \/ FailAfterIncr(c)
  <2>1. recent' = recent /\ (ttl' = Duration \/ ttl' = ttl)
    BY <1>5, <1>renew DEF Late, LateIncr, LateExpire, FailBeforeIncr, FailAfterIncr
  <2>2. Ordered'
    BY <2>1 DEF Ordered
  <2>3. Outlived'
    <3>1. CASE ttl' = ttl
      BY <2>1, <3>1 DEF Outlived
    <3>2. CASE ttl' = Duration
      BY <3>2, <1>type DEF Outlived
    <3> QED
      BY <2>1, <3>1, <3>2
  <2> QED
    BY <2>2, <2>3
<1>6. CASE UNCHANGED vars
  BY <1>6 DEF vars, Ordered, Outlived
<1> QED
  BY <1>1, <1>2, <1>3, <1>4, <1>5, <1>6 DEF Next, ClientStep

\* Every call allowed is in the counter, or it is the one of its client whose
\* key expired between its INCR and its EXPIRE (redis_limiter.go:50-61).
LEMMA CoverStep == TypeOK /\ Ordered /\ Outlived /\ Covered /\ [Next]_vars => Covered'
<1> SUFFICES ASSUME TypeOK, Ordered, Outlived, Covered, [Next]_vars PROVE Covered'
  OBVIOUS
<1>type. /\ count \in Nat /\ extra \in Nat
         /\ pc \in [Clients -> {"idle", "incr", "expire"}]
         /\ ttl \in 1 .. NoTTL /\ recent \in [Ages -> Nat] /\ age \in [Clients -> 0 .. Duration]
         /\ Duration \in Nat \ {0} /\ Duration - 1 \in Ages
  BY LimiterAssumption DEF TypeOK, Ages
<1>sets. Expiring \in SUBSET Clients /\ Expiring' \in SUBSET Clients
  BY DEF Expiring
<1>1. CASE Tick
  <2>1. Expiring' = Expiring
    BY <1>1 DEF Tick, Expiring
  <2>2. recent'[Duration - 1] = IF Duration - 1 = 0 THEN 0 ELSE recent[Duration - 2]
    BY <1>1, <1>type DEF Tick
  <2>3. CASE ttl = 1
    <3>1. Duration - 1 # 0 => recent[Duration - 2] = 0
      BY <2>3, <1>type DEF Outlived, NoTTL, Ages
    <3>2. count' = 0 /\ extra' = 0 /\ recent'[Duration - 1] = 0
      BY <1>1, <2>2, <2>3, <3>1 DEF Tick
    <3> QED
      BY <2>1, <3>2, <1>sets, Bounds DEF Covered
  <2>4. CASE ttl # 1
    <3>1. Duration - 1 # 0 => recent[Duration - 2] \in Nat /\ recent[Duration - 2] <= recent[Duration - 1]
      BY <1>type DEF Ordered, Ages
    <3>2. count' = count /\ extra' = extra /\ recent'[Duration - 1] <= recent[Duration - 1]
          /\ recent'[Duration - 1] \in Nat /\ recent[Duration - 1] \in Nat
      BY <1>1, <2>2, <2>4, <3>1, <1>type DEF Tick
    <3> QED
      BY <2>1, <3>2, <1>type, <1>sets, Bounds DEF Covered
  <2> QED
    BY <2>3, <2>4
<1>2. CASE Reset
  <2>1. /\ Expiring' = Expiring /\ count' = 0 /\ extra' = 0
        /\ recent'[Duration - 1] = 0
    BY <1>2, <1>type DEF Reset, Expiring
  <2> QED
    BY <2>1, <1>sets, Bounds DEF Covered
<1>3. CASE UNCHANGED vars
  BY <1>3 DEF vars, Covered, Expiring
<1>4. ASSUME NEW c \in Clients, Read(c) PROVE Covered'
  <2>1. Expiring' = Expiring
    BY <1>4, <1>type DEF Read, Expiring
  <2> QED
    BY <1>4, <2>1 DEF Read, Covered
<1>5. ASSUME NEW c \in Clients, Incr(c) PROVE Covered'
  <2>1. Expiring' = Expiring \cup {c} /\ c \notin Expiring
    BY <1>5, <1>type DEF Incr, Expiring
  <2>2. count' = count + 1 /\ extra' = extra /\ recent' = recent
    BY <1>5 DEF Incr
  <2>3. recent[Duration - 1] \in Nat
    BY <1>type
  <2> QED
    BY <2>1, <2>2, <2>3, <1>type, <1>sets, ClientSets DEF Covered
<1>6. ASSUME NEW c \in Clients, Expire(c) PROVE Covered'
  <2>1. Expiring' = Expiring \ {c} /\ c \in Expiring
    BY <1>6, <1>type DEF Expire, ReturnTrue, Expiring
  <2>2. count' = count /\ extra' = extra
    BY <1>6 DEF Expire, ReturnTrue
  <2>3. /\ recent[Duration - 1] \in Nat /\ recent'[Duration - 1] \in Nat
        /\ recent'[Duration - 1] <= recent[Duration - 1] + 1
    BY <1>6, <1>type DEF Expire, ReturnTrue
  <2> QED
    BY <2>1, <2>2, <2>3, <1>type, <1>sets, ClientSets DEF Covered
<1>7. ASSUME NEW c \in Clients, FailBeforeIncr(c) PROVE Covered'
  <2>1. Expiring' = Expiring
    BY <1>7, <1>type DEF FailBeforeIncr, AttemptFails, Expiring
  <2> QED
    BY <1>7, <2>1 DEF FailBeforeIncr, Covered
<1>8. ASSUME NEW c \in Clients, FailAfterIncr(c) PROVE Covered'
  <2>1. Expiring' = Expiring \ {c} /\ c \in Expiring
    BY <1>8, <1>type DEF FailAfterIncr, AttemptFails, Expiring
  <2>2. count' = count /\ extra' = extra + 1 /\ recent' = recent
    BY <1>8 DEF FailAfterIncr
  <2>3. recent[Duration - 1] \in Nat
    BY <1>type
  <2> QED
    BY <2>1, <2>2, <2>3, <1>type, <1>sets, ClientSets DEF Covered
<1>9. CASE Late
  <2>1. Expiring' = Expiring /\ recent' = recent
    BY <1>9 DEF Late, LateIncr, LateExpire, Expiring
  <2>2. \/ count' = count /\ extra' = extra
        \/ count' = count + 1 /\ extra' = extra + 1
    BY <1>9 DEF Late, LateIncr, LateExpire
  <2>3. recent[Duration - 1] \in Nat
    BY <1>type
  <2> QED
    BY <2>1, <2>2, <2>3, <1>type, <1>sets, Bounds DEF Covered
<1> QED
  BY <1>1, <1>2, <1>3, <1>4, <1>5, <1>6, <1>7, <1>8, <1>9 DEF Next, ClientStep

\* The invariant holds in every execution.
THEOREM WindowInvariant == Spec => []WindowInv
<1>1. WindowInv /\ [Next]_vars => WindowInv'
  BY TypeStep, OvershootStep, HistoryStep, CoverStep DEF WindowInv
<1> QED
  BY <1>1, LimiterInit, PTL DEF Spec

\* The counter exceeds the limit by less than one for each client and one for
\* each attempt that failed after its INCR in the life of the key, for every
\* limit, duration, number of clients and of retries, with connections that fail
\* at any point, pipelines executed late and keys that are reset
\* (redis_limiter.go:35-59).
THEOREM OvershootIsBounded == Spec => []LimiterInv
<1>1. WindowInv => LimiterInv
  BY DEF WindowInv, LimiterInv
<1> QED
  BY <1>1, WindowInvariant, PTL

\* In every window the calls allowed exceed the limit by less than two for
\* each client, whatever pipelines are sent again or come late
\* (redis_limiter.go:35-61).
THEOREM WindowIsBounded == Spec => []WindowBound
<1>1. ASSUME WindowInv PROVE WindowBound
  <2>1. /\ Pending \in SUBSET Clients /\ Expiring \in SUBSET Clients
        /\ count \in Nat /\ extra \in Nat /\ recent[Duration - 1] \in Nat /\ Limit \in Nat
    BY <1>1, LimiterAssumption DEF WindowInv, TypeOK, Ages, Pending, Expiring
  <2>2. /\ recent[Duration - 1] + Cardinality(Expiring) + extra <= count + Cardinality(Clients)
        /\ count + Cardinality(Pending) <= Limit + Cardinality(Clients) - 1 + extra
    BY <1>1 DEF WindowInv, BoundedOvershoot, Covered
  <2> QED
    BY <2>1, <2>2, Bounds DEF WindowBound
<1> QED
  BY <1>1, WindowInvariant, PTL
=============================================================================

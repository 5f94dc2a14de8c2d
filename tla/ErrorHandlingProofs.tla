------------------------- MODULE ErrorHandlingProofs -------------------------
(***************************************************************************)
(* Theorems about the error handling: the circuit breaker, for any number  *)
(* of callers and any limits of failures and retries; and the coordinator  *)
(* with its guarded operations, for any sets of operations and Waits.      *)
(***************************************************************************)
EXTENDS CircuitBreaker, CoordinatedOperations, TLAPS, FiniteSetTheorems

-----------------------------------------------------------------------------
(* The circuit breaker.                                                    *)

\* The types, the bound on a closed breaker's failures, and what keeps retries
\* within its type: only a call with a retry left waits for one.
RetriesLeft == \A c \in Callers : pc[c] = "backoff" => retries[c] < MaxRetries
BreakerInv == BreakerTypeOK /\ ClosedBelowMax /\ RetriesLeft

\* NewCircuitBreaker starts closed and without failures.
LEMMA BreakerInitHolds == BreakerInit => BreakerInv
  BY MaxFailuresAssumption, MaxRetriesAssumption
  DEF BreakerInit, BreakerInv, BreakerTypeOK, ClosedBelowMax, RetriesLeft, States, PCs

\* Steps of one caller keep the types and the bound: only RecordFailure adds
\* to failures, and it opens the breaker in the same critical section.
LEMMA CallerKeeps ==
    ASSUME BreakerInv, NEW c \in Callers, CallerStep(c)
    PROVE  BreakerInv'
  <1> USE MaxFailuresAssumption, MaxRetriesAssumption
        DEF BreakerInv, BreakerTypeOK, ClosedBelowMax, RetriesLeft, States, PCs, breaker
  <1>1. CASE Call(c)
    BY <1>1 DEF Call
  <1>2. CASE Allow(c)
    BY <1>2 DEF Allow, Answer, Return
  <1>3. CASE Upgrade(c)
    BY <1>3 DEF Upgrade
  <1>4. CASE Recheck(c)
    BY <1>4 DEF Recheck, Answer, Return
  <1>5. CASE OperationSucceeds(c)
    BY <1>5 DEF OperationSucceeds
  <1>6. CASE OperationFails(c)
    BY <1>6 DEF OperationFails
  <1>7. CASE RecordSuccess(c)
    BY <1>7 DEF RecordSuccess, Return
  <1>8. CASE RecordFailure(c)
    <2>1. failures' \in 0 .. MaxFailures
      BY <1>8 DEF RecordFailure
    <2>2. state' \in States /\ ClosedBelowMax'
      BY <1>8, <2>1 DEF RecordFailure
    <2>3. pc' \in [Callers -> PCs]
          /\ outcome' \in [Callers -> {"none", "ok", "rejected", "failed", "ctx"}]
      BY <1>8 DEF RecordFailure, Return
    <2> QED
      BY <1>8, <2>1, <2>2, <2>3 DEF RecordFailure, Return
  <1>9. CASE BackoffEnds(c)
    <2>1. CASE /\ pc' = [pc EXCEPT ![c] = "allow"]
               /\ retries' = [retries EXCEPT ![c] = @ + 1]
               /\ UNCHANGED outcome
      <3>1. retries[c] < MaxRetries
        BY <1>9 DEF BackoffEnds, RetriesLeft
      <3>2. retries[c] + 1 \in 0 .. MaxRetries
        BY <3>1
      <3> QED
        BY <1>9, <2>1, <3>2 DEF BackoffEnds
    <2>2. CASE Return(c, "ctx") /\ UNCHANGED retries
      BY <1>9, <2>2 DEF BackoffEnds, Return
    <2> QED
      BY <1>9, <2>1, <2>2 DEF BackoffEnds
  <1> QED
    BY <1>1, <1>2, <1>3, <1>4, <1>5, <1>6, <1>7, <1>8, <1>9 DEF CallerStep

\* Every step keeps the invariant.
LEMMA BreakerNextKeeps == BreakerInv /\ [BreakerNext]_breakerVars => BreakerInv'
  <1> SUFFICES ASSUME BreakerInv, [BreakerNext]_breakerVars PROVE BreakerInv'
    OBVIOUS
  <1>1. CASE Elapse
    BY <1>1 DEF Elapse, BreakerInv, BreakerTypeOK, ClosedBelowMax, RetriesLeft
  <1>2. CASE HealthChanges
    BY <1>2 DEF HealthChanges, breaker, BreakerInv, BreakerTypeOK, ClosedBelowMax, RetriesLeft
  <1>3. CASE UNCHANGED breakerVars
    BY <1>3 DEF breakerVars, BreakerInv, BreakerTypeOK, ClosedBelowMax, RetriesLeft
  <1> QED
    BY <1>1, <1>2, <1>3, CallerKeeps DEF BreakerNext

\* The types of the breaker and of the calls that share it.
THEOREM BreakerTypes == BreakerSpec => []BreakerTypeOK
  <1>1. BreakerInv => BreakerTypeOK
    BY DEF BreakerInv
  <1> QED
    BY <1>1, BreakerInitHolds, BreakerNextKeeps, PTL DEF BreakerSpec

\* A closed breaker has seen fewer than MaxFailures failures since its last
\* success, for any number of callers (RecordFailure, handler.go:171-185).
THEOREM ClosedIsBelowMax == BreakerSpec => []ClosedBelowMax
  <1>1. BreakerInv => ClosedBelowMax
    BY DEF BreakerInv
  <1> QED
    BY <1>1, BreakerInitHolds, BreakerNextKeeps, PTL DEF BreakerSpec

\* An open breaker stays open until resetTimeout has passed since its latest
\* failure, and then becomes half open: Upgrade, which looks at the time again
\* under the write lock, is the only way out (handler.go:139-147, 163-185).
THEOREM OpenHolds == BreakerSpec => OpenLastsResetTimeout
  <1>1. ASSUME BreakerTypeOK, [BreakerNext]_breakerVars, state = "Open", state' # "Open"
        PROVE  elapsed /\ state' = "HalfOpen"
    <2>1. PICK c \in Callers : CallerStep(c)
      BY <1>1 DEF BreakerNext, Elapse, HealthChanges, breakerVars, breaker
    <2>2. Upgrade(c)
      BY <1>1, <2>1, MaxFailuresAssumption
      DEF CallerStep, Call, Allow, Recheck, OperationSucceeds, OperationFails,
          RecordSuccess, RecordFailure, BackoffEnds, breaker
    <2> QED
      BY <1>1, <2>2 DEF Upgrade
  <1>2. BreakerTypeOK /\ [BreakerNext]_breakerVars =>
            [state = "Open" /\ state' # "Open" => elapsed /\ state' = "HalfOpen"]_breakerVars
    BY <1>1
  <1> QED
    BY <1>2, BreakerTypes, PTL DEF BreakerSpec, OpenLastsResetTimeout

-----------------------------------------------------------------------------
(* The calls.                                                              *)

\* An attempt, with state t and result d, that failed or was given up.
Lost(o, t, d) ==
    \/ t = "ended" /\ d = "error"
    \/ o \in Timed /\ t \in {"late", "endedLate", "stuck"}

\* Attempts come one after the other: those before the last were lost, and
\* only a timed one is left to itself.
Tried(o, n, t, d) ==
    \A a \in G!Attempts :
        /\ a > n => t[a] = "none" /\ d[a] = "empty"
        /\ a < n => Lost(o, t[a], d[a])
        /\ d[a] # "empty" <=> t[a] \in {"ended", "endedLate"}
        /\ t[a] \in {"late", "endedLate"} => o \in Timed

\* How far a call is, and its answer, fit what its last attempt did.
Fits(o, place, n, t, d, result) ==
    /\ Tried(o, n, t, d)
    /\ place = "idle" <=> n = 0
    /\ place = "returned" <=> result # "none"
    /\ place = "sleeping" => o \in Retried /\ n <= Retries
    /\ place = "inside" =>
        t[n] \in {"running", "stuck"} \/ (t[n] = "ended" /\ o \in Timed)
    /\ place \in {"sleeping", "falling", "fallback"} \/ result \in {"error", "fallback"} =>
        Lost(o, t[n], d[n])
    /\ place \in {"falling", "fallback"} \/ result \in {"error", "fallback"} =>
        (o \in Retried => n = Retries + 1)
    /\ result = "ok" => t[n] = "ended" /\ d[n] = "ok"

\* The sets of values of G!TypeOK.
Places == {"idle", "inside", "sleeping", "falling", "fallback", "returned"}
TaskStates == {"none", "running", "stuck", "late", "ended", "endedLate"}
Outcomes == {"empty", "ok", "error"}
Replies == {"none", "ok", "error", "fallback"}

CallFits(o) == Fits(o, call[o], attempt[o], task[o], done[o], answer[o])

-----------------------------------------------------------------------------
(* The WaitGroup.                                                          *)

\* Where the goroutine of an operation is, and its call; whose errors were
\* collected.
Linked(o) ==
    /\ op[o] = "new" <=> call[o] = "idle"
    /\ op[o] = "running" <=> call[o] \notin {"idle", "returned"}
    /\ op[o] = "failed" => answer[o] = "error"
    /\ o \in errors =>
        answer[o] = "error" /\ op[o] \in {"leaving", "waking", "ended"}
    /\ answer[o] = "error" /\ op[o] \in {"leaving", "waking", "ended"} => o \in errors

\* Unless Go was called at zero beside a Wait: one goroutine wakes the
\* sleepers, while the counter is zero, and nobody sleeps beside one who woke.
Orderly ==
    ~raced =>
        /\ \A o \in Ops : op[o] = "waking" =>
            /\ counter = 0 /\ C!Asleep # {}
            /\ \A p \in Ops : op[p] = "waking" => p = o
            /\ \A w \in Waits : wait[w] # "woken"
        /\ \A w \in Waits : wait[w] = "woken" => counter = 0 /\ C!Asleep = {}
        /\ \A w \in Waits : wait[w] = "looking" =>
            \A o \in before[w] : op[o] \in {"waking", "ended"}

\* A Wait has to wait for operations that were started, and somebody called it.
Begun ==
    \A w \in Waits :
        /\ before[w] \subseteq C!Started
        /\ caller[w] = "idle" => wait[w] = "idle"

\* The inductive invariant.
CoordinatedInv ==
    /\ TypeOK /\ IsFiniteSet(C!Active)
    /\ \A o \in Ops : CallFits(o) /\ Linked(o)
    /\ Orderly /\ Begun /\ CrashOnlyByMisuse

-----------------------------------------------------------------------------
\* Attempts are counted from 1, the first, to the last retry.
LEMMA AttemptsFacts ==
    /\ Retries \in Nat /\ 1 \in G!Attempts
    /\ \A n \in 0 .. Retries + 1 : n # 0 <=> n \in G!Attempts
    /\ \A n \in G!Attempts : n \in 0 .. Retries + 1 /\ n \in Int
BY CoordinatedAssumption DEF G!Attempts

\* No call is begun, and none has attempts.
LEMMA CallsInit == G!Init => G!TypeOK /\ \A o \in Ops : CallFits(o)
<1> SUFFICES ASSUME G!Init PROVE G!TypeOK /\ \A o \in Ops : CallFits(o)
  OBVIOUS
<1>1. G!TypeOK
  BY CoordinatedAssumption DEF G!Init, G!Each, G!TypeOK
<1>2. ASSUME NEW o \in Ops PROVE CallFits(o)
  BY <1>2, AttemptsFacts DEF G!Init, G!Each, CallFits, Fits, Tried
<1> QED
  BY <1>1, <1>2

\* NextAttempt: the next attempt of a call that is begun, or woke up, is the
\* only one that runs; the one before was lost.
LEMMA NextFits ==
    ASSUME NEW o \in Ops, NEW place \in {"idle", "sleeping"}, NEW n \in 0 .. Retries + 1,
           NEW t \in [G!Attempts -> TaskStates], NEW d \in [G!Attempts -> Outcomes], NEW result,
           NEW how \in {"running", "stuck"},
           Fits(o, place, n, t, d, result)
    PROVE  /\ n + 1 \in G!Attempts
           /\ Fits(o, "inside", n + 1, [t EXCEPT ![n + 1] = how], d, result)
<1>1. n + 1 \in G!Attempts /\ n <= Retries /\ n \in Nat
  <2>1. n <= Retries
    BY AttemptsFacts DEF Fits
  <2> QED
    BY <2>1, AttemptsFacts DEF G!Attempts
<1>2. \A a \in G!Attempts : a < n + 1 => Lost(o, t[a], d[a])
  <2>1. ASSUME NEW a \in G!Attempts, a < n + 1 PROVE Lost(o, t[a], d[a])
    <3>1. CASE a < n
      BY <3>1 DEF Fits, Tried
    <3>2. CASE a = n
      BY <3>2, AttemptsFacts DEF Fits
    <3> QED
      BY <1>1, <2>1, <3>1, <3>2, AttemptsFacts
  <2> QED
    BY <2>1
<1>3. Tried(o, n + 1, [t EXCEPT ![n + 1] = how], d)
  <2>1. ASSUME NEW a \in G!Attempts, a # n + 1
        PROVE  /\ a > n + 1 => t[a] = "none" /\ d[a] = "empty"
               /\ d[a] # "empty" <=> t[a] \in {"ended", "endedLate"}
               /\ t[a] \in {"late", "endedLate"} => o \in Timed
    <3>1. a \in Int
      BY AttemptsFacts
    <3> QED
      BY <1>1, <3>1 DEF Fits, Tried
  <2>2. d[n + 1] = "empty"
    BY <1>1 DEF Fits, Tried
  <2> QED
    BY <1>1, <1>2, <2>1, <2>2, AttemptsFacts DEF Tried
<1>4. [t EXCEPT ![n + 1] = how][n + 1] = how
  BY <1>1
<1>5. result = "none" /\ n + 1 # 0
  BY <1>1 DEF Fits
<1> QED
  BY <1>1, <1>3, <1>4, <1>5 DEF Fits

\* Settle: a success is returned; after a loss the call sleeps, falls back or
\* returns an error, and it does one of the last two only when no attempt is
\* left.
LEMMA SettleFits ==
    ASSUME NEW o \in Ops, NEW n \in G!Attempts, NEW t, NEW d, NEW what,
           Tried(o, n, t, d),
           what = "ok" => t[n] = "ended" /\ d[n] = "ok",
           what # "ok" => Lost(o, t[n], d[n]),
           call \in [Ops -> {"idle", "inside", "sleeping", "falling", "fallback", "returned"}],
           answer \in [Ops -> {"none", "ok", "error", "fallback"}],
           answer[o] = "none", attempt[o] = n,
           G!Settle(o, what)
    PROVE  /\ call' \in [Ops -> {"idle", "inside", "sleeping", "falling", "fallback", "returned"}]
           /\ answer' \in [Ops -> {"none", "ok", "error", "fallback"}]
           /\ \A p \in Ops : p # o => call'[p] = call[p] /\ answer'[p] = answer[p]
           /\ call'[o] # "idle"
           /\ Fits(o, call'[o], n, t, d, answer'[o])
<1>1. n \in Int /\ n # 0 /\ n <= Retries + 1 /\ Retries \in Nat
  BY AttemptsFacts DEF G!Attempts
<1>2. CASE what = "ok"
  BY <1>1, <1>2 DEF G!Settle, G!Return, G!Goto, Fits
<1>3. CASE what # "ok" /\ o \in Retried /\ n <= Retries
  BY <1>1, <1>3 DEF G!Settle, G!Return, G!Goto, Fits
<1>4. CASE what # "ok" /\ ~(o \in Retried /\ n <= Retries)
  <2>1. o \in Retried => n = Retries + 1
    BY <1>1, <1>4
  <2>2. CASE o \in Recovered
    BY <1>1, <1>4, <2>1, <2>2 DEF G!Settle, G!Return, G!Goto, Fits
  <2>3. CASE o \notin Recovered
    BY <1>1, <1>4, <2>1, <2>3 DEF G!Settle, G!Return, G!Goto, Fits
  <2> QED
    BY <2>2, <2>3
<1> QED
  BY <1>2, <1>3, <1>4

\* An attempt that runs and was not given up is the last, and its call waits
\* for it.
LEMMA RunningIsLast ==
    ASSUME NEW o \in Ops, NEW place \in Places, NEW n \in 0 .. Retries + 1, NEW t, NEW d,
           NEW result \in Replies, Fits(o, place, n, t, d, result),
           NEW a \in G!Attempts, t[a] = "running"
    PROVE  a = n /\ place = "inside" /\ result = "none"
<1>1. a = n
  <2>1. ~(a > n) /\ ~(a < n)
    BY DEF Fits, Tried, Lost
  <2> QED
    BY <2>1, AttemptsFacts
<1>2. n # 0 /\ place # "idle"
  BY <1>1, AttemptsFacts DEF Fits
<1>3. ~Lost(o, t[n], d[n]) /\ t[n] # "ended"
  BY <1>1 DEF Lost
<1>4. result = "none"
  BY <1>3 DEF Fits, Replies
<1> QED
  BY <1>1, <1>2, <1>3, <1>4 DEF Fits, Places

\* The result of an attempt, to its own channel or to its caller.
LEMMA EndsTried ==
    ASSUME NEW o \in Ops, NEW n \in 0 .. Retries + 1,
           NEW t \in [G!Attempts -> TaskStates], NEW d \in [G!Attempts -> Outcomes],
           Tried(o, n, t, d), NEW a \in G!Attempts, NEW what \in {"ok", "error"},
           t[a] \in {"running", "late"}
    PROVE  Tried(o, n, [t EXCEPT ![a] = IF @ = "late" THEN "endedLate" ELSE "ended"],
                       [d EXCEPT ![a] = what])
<1> DEFINE now == IF t[a] = "late" THEN "endedLate" ELSE "ended"
<1>1. ~(a > n) /\ (a < n => t[a] = "late") /\ (t[a] = "late" => o \in Timed)
  BY DEF Tried, Lost
<1>2. a < n => Lost(o, now, what)
  BY <1>1 DEF Lost
<1>3. now \in {"ended", "endedLate"} /\ (now = "endedLate" => o \in Timed) /\ what # "empty"
  BY <1>1
<1> HIDE DEF now
<1>4. Tried(o, n, [t EXCEPT ![a] = now], [d EXCEPT ![a] = what])
  BY <1>1, <1>2, <1>3 DEF Tried
<1> QED
  BY <1>4 DEF now

\* A timed attempt ends: its result waits in its own channel, and if the
\* attempt was given up before it changes nothing for the call.
LEMMA EndsFits ==
    ASSUME NEW o \in Ops, o \in Timed, NEW place \in Places, NEW n \in 0 .. Retries + 1,
           NEW t \in [G!Attempts -> TaskStates], NEW d \in [G!Attempts -> Outcomes],
           NEW result \in Replies, Fits(o, place, n, t, d, result),
           NEW a \in G!Attempts, NEW what \in {"ok", "error"}, t[a] \in {"running", "late"}
    PROVE  Fits(o, place, n, [t EXCEPT ![a] = IF @ = "late" THEN "endedLate" ELSE "ended"],
                             [d EXCEPT ![a] = what], result)
<1> DEFINE now == IF t[a] = "late" THEN "endedLate" ELSE "ended"
           t2 == [t EXCEPT ![a] = now]
           d2 == [d EXCEPT ![a] = what]
<1> SUFFICES Fits(o, place, n, t2, d2, result)
  OBVIOUS
<1>1. Tried(o, n, t2, d2)
  BY EndsTried DEF Fits
<1>2. CASE a # n
  <2>1. t2[n] = t[n] /\ d2[n] = d[n]
    BY <1>2
  <2> HIDE DEF t2, d2
  <2> QED
    BY <1>1, <2>1 DEF Fits
<1>3. CASE a = n /\ t[a] = "running"
  <2>1. place = "inside" /\ result = "none"
    BY <1>3, RunningIsLast
  <2>2. t2[n] = "ended"
    BY <1>3
  <2>3. n # 0
    BY <1>3, AttemptsFacts
  <2> HIDE DEF t2, d2
  <2> QED
    BY <1>1, <2>1, <2>2, <2>3 DEF Fits
<1>4. CASE a = n /\ t[a] = "late"
  <2>1. t2[n] = "endedLate" /\ place # "inside" /\ result # "ok"
    BY <1>4 DEF Fits
  <2>2. Lost(o, t2[n], d2[n])
    BY <2>1 DEF Lost
  <2> HIDE DEF t2, d2
  <2> QED
    BY <1>1, <2>1, <2>2 DEF Fits
<1> QED
  BY <1>2, <1>3, <1>4

\* What a step of a call does, to this call and to the others.
Steps(o) == G!Begin(o) \/ G!CallStep(o) \/ G!TaskStep(o)

\* A step of one call keeps the types and the fit of every call; it touches no
\* other, and a returned call keeps its answer.
LEMMA GuardStep ==
    ASSUME G!TypeOK, \A p \in Ops : CallFits(p), NEW o \in Ops, Steps(o)
    PROVE  /\ G!TypeOK' /\ \A p \in Ops : CallFits(p)'
           /\ \A p \in Ops : p # o => call'[p] = call[p] /\ answer'[p] = answer[p]
           /\ call'[o] # "idle"
           /\ call[o] = "returned" => call'[o] = "returned" /\ answer'[o] = answer[o]
<1> DEFINE n == attempt[o]  t == task[o]  d == done[o]
<1>type. /\ call \in [Ops -> Places] /\ attempt \in [Ops -> 0 .. Retries + 1]
         /\ task \in [Ops -> [G!Attempts -> TaskStates]]
         /\ done \in [Ops -> [G!Attempts -> Outcomes]]
         /\ answer \in [Ops -> Replies]
  BY DEF G!TypeOK, Places, Replies, TaskStates, Outcomes
<1>row. /\ n \in 0 .. Retries + 1 /\ t \in [G!Attempts -> TaskStates]
        /\ d \in [G!Attempts -> Outcomes] /\ call[o] \in Places /\ answer[o] \in Replies
        /\ Fits(o, call[o], n, t, d, answer[o])
  BY <1>type DEF CallFits
\* It is enough to look at the call itself.
<1>one. ASSUME call' \in [Ops -> Places], attempt' \in [Ops -> 0 .. Retries + 1],
               task' \in [Ops -> [G!Attempts -> TaskStates]],
               done' \in [Ops -> [G!Attempts -> Outcomes]], answer' \in [Ops -> Replies],
               \A p \in Ops : p # o =>
                    /\ call'[p] = call[p] /\ attempt'[p] = attempt[p] /\ task'[p] = task[p]
                    /\ done'[p] = done[p] /\ answer'[p] = answer[p],
               Fits(o, call'[o], attempt'[o], task'[o], done'[o], answer'[o]),
               call'[o] # "idle",
               call[o] = "returned" => call'[o] = "returned" /\ answer'[o] = answer[o]
        PROVE  /\ G!TypeOK' /\ \A p \in Ops : CallFits(p)'
               /\ \A p \in Ops : p # o => call'[p] = call[p] /\ answer'[p] = answer[p]
               /\ call'[o] # "idle"
               /\ call[o] = "returned" => call'[o] = "returned" /\ answer'[o] = answer[o]
  <2>1. G!TypeOK'
    BY <1>one DEF G!TypeOK, Places, Replies, TaskStates, Outcomes
  <2>2. \A p \in Ops : CallFits(p)'
    BY <1>one DEF CallFits
  <2> QED
    BY <1>one, <2>1, <2>2
<1> HIDE DEF n, t, d
<1>1. ASSUME call[o] \in {"idle", "sleeping"}, G!NextAttempt(o), UNCHANGED <<done, answer>>
      PROVE  /\ G!TypeOK' /\ \A p \in Ops : CallFits(p)'
             /\ \A p \in Ops : p # o => call'[p] = call[p] /\ answer'[p] = answer[p]
             /\ call'[o] # "idle"
             /\ call[o] = "returned" => call'[o] = "returned" /\ answer'[o] = answer[o]
  <2>1. PICK how \in {"running", "stuck"} : task' = [task EXCEPT ![o][n + 1] = how]
    BY <1>1 DEF G!NextAttempt, n
  <2>2. n + 1 \in G!Attempts /\ Fits(o, "inside", n + 1, [t EXCEPT ![n + 1] = how], d, answer[o])
    BY <1>row, <1>1, NextFits
  <2>3. call' = [call EXCEPT ![o] = "inside"] /\ attempt' = [attempt EXCEPT ![o] = n + 1]
    BY <1>1 DEF G!NextAttempt, G!Goto, n
  <2>4. /\ call' \in [Ops -> Places] /\ call'[o] = "inside"
        /\ \A p \in Ops : p # o => call'[p] = call[p]
    BY <1>type, <2>3 DEF Places
  <2>5. /\ attempt' \in [Ops -> 0 .. Retries + 1] /\ attempt'[o] = n + 1
        /\ \A p \in Ops : p # o => attempt'[p] = attempt[p]
    BY <1>type, <2>2, <2>3, AttemptsFacts
  <2>6. /\ task' \in [Ops -> [G!Attempts -> TaskStates]] /\ task'[o] = [t EXCEPT ![n + 1] = how]
        /\ \A p \in Ops : p # o => task'[p] = task[p]
    BY <1>type, <2>1, <2>2 DEF TaskStates, t
  <2>7. done' \in [Ops -> [G!Attempts -> Outcomes]] /\ answer' \in [Ops -> Replies] /\ done'[o] = d
        /\ answer'[o] = answer[o] /\ \A p \in Ops : done'[p] = done[p] /\ answer'[p] = answer[p]
    BY <1>type, <1>1 DEF d
  <2> QED
    BY <1>one, <1>1, <2>2, <2>4, <2>5, <2>6, <2>7
<1>2. CASE G!Begin(o) \/ G!WakeUp(o)
  BY <1>1, <1>2 DEF G!Begin, G!WakeUp
\* A result, of the attempt or of its timer, that the call heeds.
<1>3. ASSUME NEW what, G!Settle(o, what), UNCHANGED attempt, n \in G!Attempts, answer[o] = "none",
             call[o] # "returned",
             task' \in [Ops -> [G!Attempts -> TaskStates]],
             done' \in [Ops -> [G!Attempts -> Outcomes]],
             \A p \in Ops : p # o => task'[p] = task[p] /\ done'[p] = done[p],
             Tried(o, n, task'[o], done'[o]),
             what = "ok" => task'[o][n] = "ended" /\ done'[o][n] = "ok",
             what # "ok" => Lost(o, task'[o][n], done'[o][n])
      PROVE  /\ G!TypeOK' /\ \A p \in Ops : CallFits(p)'
             /\ \A p \in Ops : p # o => call'[p] = call[p] /\ answer'[p] = answer[p]
             /\ call'[o] # "idle"
             /\ call[o] = "returned" => call'[o] = "returned" /\ answer'[o] = answer[o]
  <2>1. PICK t2, d2 : t2 = task'[o] /\ d2 = done'[o]
    OBVIOUS
  <2>2. /\ call' \in [Ops -> Places] /\ answer' \in [Ops -> Replies]
        /\ \A p \in Ops : p # o => call'[p] = call[p] /\ answer'[p] = answer[p]
        /\ call'[o] # "idle"
        /\ Fits(o, call'[o], n, t2, d2, answer'[o])
    <3>1. attempt[o] = n
      BY DEF n
    <3>2. PICK m \in G!Attempts : m = n
      BY <1>3
    <3>3. /\ Tried(o, m, t2, d2)
          /\ what = "ok" => t2[m] = "ended" /\ d2[m] = "ok"
          /\ what # "ok" => Lost(o, t2[m], d2[m])
      BY <1>3, <2>1, <3>2
    <3> QED
      BY <1>3, <1>type, <3>1, <3>2, <3>3, SettleFits DEF Places, Replies
  <2>3. /\ attempt' \in [Ops -> 0 .. Retries + 1] /\ attempt'[o] = n
        /\ \A p \in Ops : attempt'[p] = attempt[p]
    BY <1>type, <1>3 DEF n
  <2> QED
    BY <1>one, <1>3, <2>1, <2>2, <2>3
<1>4. ASSUME NEW a \in G!Attempts, NEW what \in {"ok", "error"}, G!Ends(o, a, what)
      PROVE  /\ G!TypeOK' /\ \A p \in Ops : CallFits(p)'
             /\ \A p \in Ops : p # o => call'[p] = call[p] /\ answer'[p] = answer[p]
             /\ call'[o] # "idle"
             /\ call[o] = "returned" => call'[o] = "returned" /\ answer'[o] = answer[o]
  <2> DEFINE t2 == [t EXCEPT ![a] = IF @ = "late" THEN "endedLate" ELSE "ended"]
             d2 == [d EXCEPT ![a] = what]
  <2>1. /\ t[a] \in {"running", "late"} /\ UNCHANGED attempt
        /\ task' = [task EXCEPT ![o][a] = IF @ = "late" THEN "endedLate" ELSE "ended"]
        /\ done' = [done EXCEPT ![o][a] = what]
        /\ IF o \in Timed THEN UNCHANGED <<call, answer>> ELSE G!Settle(o, what)
    BY <1>4 DEF G!Ends, G!MayEnd, G!EndsAs, t
  <2>2. /\ task' \in [Ops -> [G!Attempts -> TaskStates]] /\ task'[o] = t2
        /\ done' \in [Ops -> [G!Attempts -> Outcomes]] /\ done'[o] = d2
        /\ \A p \in Ops : p # o => task'[p] = task[p] /\ done'[p] = done[p]
    BY <1>type, <2>1 DEF TaskStates, Outcomes, t, d
  <2>3. call[o] # "idle"
    <3>1. n # 0
      BY <1>row, <2>1, AttemptsFacts DEF Fits, Tried
    <3> QED
      BY <1>row, <3>1 DEF Fits
  <2>4. CASE o \in Timed
    <3>1. Fits(o, call[o], n, t2, d2, answer[o])
      BY <1>row, <2>1, <2>4, EndsFits
    <3> HIDE DEF t2, d2
    <3>2. /\ call' \in [Ops -> Places] /\ answer' \in [Ops -> Replies]
          /\ attempt' \in [Ops -> 0 .. Retries + 1] /\ attempt'[o] = n
          /\ \A p \in Ops : call'[p] = call[p] /\ answer'[p] = answer[p] /\ attempt'[p] = attempt[p]
      BY <1>type, <2>1, <2>4 DEF n
    <3> QED
      BY <1>one, <2>2, <2>3, <3>1, <3>2
  <2>5. CASE o \notin Timed
    <3>1. t[a] = "running"
      BY <1>row, <2>1, <2>5 DEF Fits, Tried
    <3>2. a = n /\ call[o] = "inside" /\ answer[o] = "none"
      BY <1>row, <3>1, RunningIsLast
    <3>3. Tried(o, n, t2, d2)
      BY <1>row, <2>1, EndsTried DEF Fits
    <3>4. t2[n] = "ended" /\ d2[n] = what
      BY <1>row, <3>1, <3>2
    <3> HIDE DEF t2, d2
    <3>5. what # "ok" => Lost(o, t2[n], d2[n])
      BY <3>4 DEF Lost
    <3> QED
      BY <1>3, <2>1, <2>2, <2>5, <3>2, <3>3, <3>4, <3>5
  <2> QED
    BY <2>4, <2>5
<1>5. CASE G!Take(o)
  <2>1. /\ o \in Timed /\ call[o] = "inside" /\ d[n] # "empty"
        /\ G!Settle(o, d[n]) /\ UNCHANGED <<attempt, task, done>>
    BY <1>5 DEF G!Take, n, d
  <2>2. n \in G!Attempts /\ answer[o] = "none" /\ Tried(o, n, t, d)
    BY <1>row, <2>1, AttemptsFacts DEF Fits
  <2>3. t[n] = "ended"
    BY <1>row, <2>1, <2>2 DEF Fits, Tried
  <2>4. d[n] \in {"ok", "error"}
    BY <1>row, <2>1, <2>2 DEF Outcomes
  <2>5. d[n] # "ok" => Lost(o, t[n], d[n])
    BY <2>3, <2>4 DEF Lost
  <2>6. task'[o] = t /\ done'[o] = d
    BY <2>1 DEF t, d
  <2> QED
    BY <1>type, <1>3, <2>1, <2>2, <2>3, <2>5, <2>6
<1>6. CASE G!GiveUp(o)
  <2> DEFINE now == CASE t[n] = "running" -> "late" [] t[n] = "ended" -> "endedLate" [] OTHER -> t[n]
  <2>1. /\ o \in Timed /\ call[o] = "inside" /\ G!Settle(o, "timeout")
        /\ task' = [task EXCEPT ![o][n] = now] /\ UNCHANGED <<attempt, done>>
    BY <1>6 DEF G!GiveUp, n, t
  <2>2. n \in G!Attempts /\ answer[o] = "none" /\ Tried(o, n, t, d)
    BY <1>row, <2>1, AttemptsFacts DEF Fits
  <2>3. t[n] \in {"running", "stuck", "ended"}
    BY <1>row, <2>1, <2>2 DEF Fits
  <2>4. now \in {"late", "stuck", "endedLate"} /\ (now = "endedLate" <=> t[n] = "ended")
    BY <2>3
  <2> HIDE DEF now
  <2>5. /\ task' \in [Ops -> [G!Attempts -> TaskStates]] /\ task'[o] = [t EXCEPT ![n] = now]
        /\ \A p \in Ops : p # o => task'[p] = task[p]
    BY <1>type, <2>1, <2>2, <2>4 DEF TaskStates, t
  <2>6. Tried(o, n, [t EXCEPT ![n] = now], d)
    BY <1>row, <2>1, <2>2, <2>3, <2>4, AttemptsFacts DEF Tried
  <2>7. Lost(o, [t EXCEPT ![n] = now][n], d[n])
    BY <1>row, <2>1, <2>2, <2>4 DEF Lost
  <2>8. done'[o] = d
    BY <2>1 DEF d
  <2> QED
    BY <1>type, <1>3, <2>1, <2>2, <2>5, <2>6, <2>7, <2>8
<1>7. CASE G!LookUp(o) \/ G!FallbackEnds(o)
  <2>1. /\ call[o] \in {"falling", "fallback"} /\ UNCHANGED <<attempt, task, done>>
        /\ \/ call' = [call EXCEPT ![o] = "fallback"] /\ UNCHANGED answer
           \/ \E what \in {"fallback", "error"} :
                /\ call' = [call EXCEPT ![o] = "returned"]
                /\ answer' = [answer EXCEPT ![o] = what]
    BY <1>7 DEF G!LookUp, G!FallbackEnds, G!Goto, G!Return
  <2>2. /\ call' \in [Ops -> Places] /\ answer' \in [Ops -> Replies]
        /\ \A p \in Ops : p # o => call'[p] = call[p] /\ answer'[p] = answer[p]
        /\ \/ call'[o] = "fallback" /\ answer'[o] = answer[o]
           \/ call'[o] = "returned" /\ answer'[o] \in {"fallback", "error"}
    BY <1>type, <2>1 DEF Places, Replies
  <2>3. /\ attempt'[o] = n /\ task'[o] = t /\ done'[o] = d
        /\ attempt' \in [Ops -> 0 .. Retries + 1]
        /\ task' \in [Ops -> [G!Attempts -> TaskStates]]
        /\ done' \in [Ops -> [G!Attempts -> Outcomes]]
        /\ \A p \in Ops : attempt'[p] = attempt[p] /\ task'[p] = task[p] /\ done'[p] = done[p]
    BY <1>type, <2>1 DEF n, t, d
  <2>4. /\ answer[o] = "none" /\ n # 0 /\ Tried(o, n, t, d) /\ Lost(o, t[n], d[n])
        /\ o \in Retried => n = Retries + 1
    BY <1>row, <2>1 DEF Fits
  <2>5. Fits(o, call'[o], n, t, d, answer'[o])
    BY <2>2, <2>4 DEF Fits
  <2> QED
    BY <1>one, <2>1, <2>2, <2>3, <2>5
<1> QED
  BY <1>2, <1>4, <1>5, <1>6, <1>7 DEF Steps, G!CallStep, G!TaskStep

-----------------------------------------------------------------------------
\* A call that is not begun has nothing that could step.
LEMMA OnlyBegins ==
    ASSUME G!TypeOK, NEW o \in Ops, CallFits(o), G!CallStep(o) \/ G!TaskStep(o)
    PROVE  call[o] # "idle"
<1>1. CASE G!CallStep(o)
  BY <1>1 DEF G!CallStep, G!Take, G!GiveUp, G!WakeUp, G!LookUp, G!FallbackEnds
<1>2. ASSUME NEW a \in G!Attempts, NEW what \in {"ok", "error"}, G!Ends(o, a, what)
      PROVE  call[o] # "idle"
  <2>1. task[o][a] # "none"
    BY <1>2 DEF G!Ends, G!MayEnd
  <2>2. attempt[o] \in Int /\ ~(a > attempt[o])
    BY <2>1 DEF CallFits, Fits, Tried, G!TypeOK
  <2> QED
    BY <2>2, AttemptsFacts DEF CallFits, Fits, G!Attempts
<1> QED
  BY <1>1, <1>2 DEF G!TaskStep

\* The counter of the WaitGroup, as the set it counts changes.
LEMMA Counted ==
    ASSUME IsFiniteSet(C!Active), counter = Cardinality(C!Active)
    PROVE  /\ counter \in Nat /\ (counter = 0 <=> C!Active = {})
           /\ \A o \in Ops : o \in C!Active => counter # 0
BY FS_CardinalityType, FS_EmptySet

\* wg.Add(1), for a goroutine the counter did not count.
LEMMA OneMore ==
    ASSUME IsFiniteSet(C!Active), counter = Cardinality(C!Active), NEW o, o \notin C!Active,
           C!Active' = C!Active \cup {o}, counter' = counter + 1
    PROVE  IsFiniteSet(C!Active)' /\ counter' = Cardinality(C!Active)'
<1>1. IsFiniteSet(C!Active \cup {o}) /\ Cardinality(C!Active \cup {o}) = Cardinality(C!Active) + 1
  BY FS_AddElement
<1> HIDE DEF C!Active
<1> QED
  BY <1>1

\* wg.Done(), by one that it counted.
LEMMA OneLess ==
    ASSUME IsFiniteSet(C!Active), counter = Cardinality(C!Active), NEW o, o \in C!Active,
           C!Active' = C!Active \ {o}, counter' = counter - 1
    PROVE  IsFiniteSet(C!Active)' /\ counter' = Cardinality(C!Active)'
<1>1. IsFiniteSet(C!Active \ {o}) /\ Cardinality(C!Active \ {o}) = Cardinality(C!Active) - 1
  BY FS_RemoveElement
<1> QED
  BY <1>1

\* The Cardinality of the instance is the library's.
LEMMA SameCardinality == \A S : C!Cardinality(S) = Cardinality(S)
BY DEF C!Cardinality, Cardinality

\* The coordinator's types; what is counted is a finite set.
CTypes == C!TypeOK /\ IsFiniteSet(C!Active)

\* A new coordinator counts nothing.
LEMMA CoordinatorInit ==
    C!Init => CTypes /\ Orderly /\ Begun
<1> SUFFICES ASSUME C!Init PROVE CTypes /\ Orderly /\ Begun
  OBVIOUS
<1>1. C!Active = {} /\ counter = 0
  BY DEF C!Init, C!Active
<1>2. IsFiniteSet(C!Active) /\ Cardinality(C!Active) = counter
  BY <1>1, FS_EmptySet
<1>3. C!TypeOK
  BY <1>2, SameCardinality DEF C!Init, C!TypeOK, C!Active, C!Started
<1> QED
  BY <1>2, <1>3 DEF C!Init, CTypes, Orderly, Begun

\* Go: at a counter of zero there is nobody to disturb, or the race is
\* recorded.
LEMMA GoKeeps ==
    ASSUME CTypes, Orderly, Begun, NEW o \in Ops, C!Go(o)
    PROVE  CTypes' /\ Orderly' /\ Begun'
<1>type. /\ op \in [Ops -> {"new", "running", "failed", "leaving", "waking", "ended"}]
         /\ counter = Cardinality(C!Active) /\ IsFiniteSet(C!Active) /\ raced \in BOOLEAN
         /\ errors \subseteq C!Started /\ crash \in {"none", "WaitGroup", "operation"}
  BY SameCardinality DEF CTypes, C!TypeOK
<1>1. /\ op[o] = "new" /\ op' = [op EXCEPT ![o] = "running"] /\ counter' = counter + 1
      /\ raced' = (raced \/ (counter = 0 /\ C!UnderWay # {}))
      /\ UNCHANGED <<errors, cancelled, wait, caller, before>>
      /\ crash' \in {"none", "WaitGroup", "operation"}
  BY <1>type DEF C!Go
<1>2. C!Active' = C!Active \cup {o} /\ o \notin C!Active
  BY <1>type, <1>1 DEF C!Active
<1>3. IsFiniteSet(C!Active)' /\ counter' = Cardinality(C!Active)'
  BY <1>type, <1>1, <1>2, OneMore
<1>4. C!Started \subseteq C!Started'
  BY <1>type, <1>1 DEF C!Started
<1>5. CTypes'
  <2>1. /\ op' \in [Ops -> {"new", "running", "failed", "leaving", "waking", "ended"}]
        /\ raced' \in BOOLEAN
    BY <1>type, <1>1
  <2> QED
    BY <1>1, <1>3, <1>4, <2>1, SameCardinality DEF CTypes, C!TypeOK
<1>6. Begun'
  BY <1>1, <1>4 DEF Begun
<1>7. Orderly'
  <2> SUFFICES ASSUME ~raced' PROVE Orderly'
    BY DEF Orderly
  <2>1. ~raced /\ (counter # 0 \/ C!UnderWay = {})
    BY <1>type, <1>1
  <2>2. \A p \in Ops : op[p] # "waking"
    BY <2>1 DEF Orderly, C!UnderWay, C!Asleep
  <2>3. \A w \in Waits : wait[w] # "woken"
    BY <2>1 DEF Orderly, C!UnderWay
  <2>4. \A p \in Ops : op'[p] # "waking" /\ (op[p] \in {"waking", "ended"} => op'[p] = op[p])
    BY <1>type, <1>1, <2>2
  <2>5. \A w \in Waits : before[w] \subseteq Ops
    BY DEF Begun, C!Started
  <2> QED
    BY <1>1, <2>1, <2>3, <2>4, <2>5 DEF Orderly
<1> QED
  BY <1>5, <1>6, <1>7

\* A goroutine that has its call's result, or collected its error, is still
\* one of those the counter counts.
LEMMA StaysActive ==
    ASSUME CTypes, Orderly, Begun, NEW o \in Ops, NEW place \in {"failed", "leaving"},
           op[o] \in {"running", "failed"}, op' = [op EXCEPT ![o] = place],
           errors' \subseteq errors \cup {o},
           UNCHANGED <<counter, cancelled, wait, caller, before, raced, crash>>
    PROVE  CTypes' /\ Orderly' /\ Begun'
<1>type. /\ op \in [Ops -> {"new", "running", "failed", "leaving", "waking", "ended"}]
         /\ counter = Cardinality(C!Active) /\ IsFiniteSet(C!Active)
         /\ errors \subseteq C!Started
  BY SameCardinality DEF CTypes, C!TypeOK
<1>1. C!Active' = C!Active
  BY <1>type DEF C!Active
<1>2. C!Started' = C!Started /\ o \in C!Started
  BY <1>type DEF C!Started
<1>3. CTypes'
  <2>1. op' \in [Ops -> {"new", "running", "failed", "leaving", "waking", "ended"}]
    BY <1>type
  <2>2. counter' = Cardinality(C!Active)' /\ IsFiniteSet(C!Active)' /\ errors' \subseteq C!Started'
    BY <1>type, <1>1, <1>2
  <2> QED
    BY <2>1, <2>2, SameCardinality DEF CTypes, C!TypeOK
<1>4. Begun'
  BY <1>2 DEF Begun
<1>5. Orderly'
  <2>1. \A p \in Ops : (op'[p] = "waking" <=> op[p] = "waking")
                        /\ (op'[p] = "ended" <=> op[p] = "ended")
    BY <1>type
  <2>2. \A w \in Waits : before[w] \subseteq Ops
    BY DEF Begun, C!Started
  <2>3. C!Asleep' = C!Asleep
    BY DEF C!Asleep
  <2> QED
    BY <2>1, <2>2, <2>3 DEF Orderly
<1> QED
  BY <1>3, <1>4, <1>5

\* Done: only the last one finds a counter of 1, so that only one goroutine
\* wakes the sleepers.
LEMMA DoneKeeps ==
    ASSUME CTypes, Orderly, Begun, NEW o \in Ops, C!Done(o)
    PROVE  CTypes' /\ Orderly' /\ Begun'
<1>type. /\ op \in [Ops -> {"new", "running", "failed", "leaving", "waking", "ended"}]
         /\ counter = Cardinality(C!Active) /\ IsFiniteSet(C!Active)
         /\ errors \subseteq C!Started
  BY SameCardinality DEF CTypes, C!TypeOK
<1>1. /\ op[o] = "leaving" /\ counter' = counter - 1
      /\ op' = [op EXCEPT ![o] = IF counter = 1 /\ C!Asleep # {} THEN "waking" ELSE "ended"]
      /\ UNCHANGED <<errors, cancelled, wait, caller, before, raced, crash>>
  BY DEF C!Done
<1>2. /\ op'[o] \in {"waking", "ended"} /\ (op'[o] = "waking" => counter = 1 /\ C!Asleep # {})
      /\ \A p \in Ops : p # o => op'[p] = op[p]
      /\ op' \in [Ops -> {"new", "running", "failed", "leaving", "waking", "ended"}]
  BY <1>type, <1>1
<1>3. C!Active' = C!Active \ {o} /\ o \in C!Active
  BY <1>1, <1>2 DEF C!Active
<1>4. IsFiniteSet(C!Active)' /\ counter' = Cardinality(C!Active)'
  BY <1>type, <1>1, <1>3, OneLess
<1>5. C!Started' = C!Started
  BY <1>1, <1>2 DEF C!Started
<1>6. CTypes'
  BY <1>type, <1>1, <1>2, <1>4, <1>5, SameCardinality DEF CTypes, C!TypeOK
<1>7. Begun'
  BY <1>1, <1>5 DEF Begun
<1>8. Orderly'
  <2> SUFFICES ASSUME ~raced PROVE Orderly'
    BY <1>1 DEF Orderly
  <2>1. counter \in Nat /\ counter # 0
    BY <1>type, <1>3, Counted
  <2>2. (\A p \in Ops : op[p] # "waking") /\ (\A w \in Waits : wait[w] # "woken")
    BY <2>1 DEF Orderly
  <2>3. C!Asleep' = C!Asleep
    BY <1>1 DEF C!Asleep
  <2>4. \A p \in Ops : op'[p] = "waking" => p = o /\ counter' = 0 /\ C!Asleep' # {}
    BY <1>1, <1>2, <2>1, <2>2, <2>3
  <2>5. \A p \in Ops : op[p] \in {"waking", "ended"} => op'[p] \in {"waking", "ended"}
    BY <1>2
  <2>6. \A w \in Waits : before[w] \subseteq Ops
    BY DEF Begun, C!Started
  <2> QED
    BY <1>1, <2>2, <2>4, <2>5, <2>6 DEF Orderly
<1> QED
  BY <1>6, <1>7, <1>8

\* The goroutine that wakes the sleepers wakes them all, and is the only one.
LEMMA WakeKeeps ==
    ASSUME CTypes, Orderly, Begun, NEW o \in Ops, C!Wake(o)
    PROVE  CTypes' /\ Orderly' /\ Begun'
<1>type. /\ op \in [Ops -> {"new", "running", "failed", "leaving", "waking", "ended"}]
         /\ wait \in [Waits -> {"idle", "entering", "blocked", "woken", "looking", "ended"}]
         /\ counter = Cardinality(C!Active) /\ IsFiniteSet(C!Active)
         /\ errors \subseteq C!Started
  BY SameCardinality DEF CTypes, C!TypeOK
<1>1. /\ op[o] = "waking" /\ op' = [op EXCEPT ![o] = "ended"]
      /\ wait' = [w \in Waits |-> IF w \in C!Asleep THEN "woken" ELSE wait[w]]
      /\ UNCHANGED <<counter, errors, cancelled, caller, before, raced, crash>>
  BY DEF C!Wake
<1>2. C!Active' = C!Active /\ C!Started' = C!Started
  BY <1>type, <1>1 DEF C!Active, C!Started
<1>3. CTypes'
  <2>1. /\ op' \in [Ops -> {"new", "running", "failed", "leaving", "waking", "ended"}]
        /\ wait' \in [Waits -> {"idle", "entering", "blocked", "woken", "looking", "ended"}]
    BY <1>type, <1>1
  <2>2. counter' = Cardinality(C!Active)' /\ IsFiniteSet(C!Active)' /\ errors' \subseteq C!Started'
    BY <1>type, <1>1, <1>2
  <2> QED
    BY <1>1, <2>1, <2>2, SameCardinality DEF CTypes, C!TypeOK
<1>4. Begun'
  BY <1>type, <1>1, <1>2 DEF Begun, C!Asleep
<1>5. Orderly'
  <2> SUFFICES ASSUME ~raced PROVE Orderly'
    BY <1>1 DEF Orderly
  <2>1. counter = 0 /\ \A p \in Ops : op[p] = "waking" => p = o
    BY <1>1 DEF Orderly
  <2>2. \A p \in Ops : op'[p] # "waking" /\ (op[p] \in {"waking", "ended"} => op'[p] = "ended")
    BY <1>type, <1>1, <2>1
  <2>3. C!Asleep' = {}
    BY <1>type, <1>1 DEF C!Asleep
  <2>4. \A w \in Waits : wait'[w] = "looking" => wait[w] = "looking"
    BY <1>type, <1>1
  <2>5. \A w \in Waits : before[w] \subseteq Ops
    BY DEF Begun, C!Started
  <2> QED
    BY <1>1, <2>1, <2>2, <2>3, <2>4, <2>5 DEF Orderly
<1> QED
  BY <1>3, <1>4, <1>5

\* A Wait that moves, never to sleep at a counter of zero and, without a race,
\* never past the counter before it is zero.
LEMMA WaitMoves ==
    ASSUME CTypes, Orderly, Begun, NEW w \in Waits,
           NEW place \in {"entering", "blocked", "looking", "ended"},
           wait' = [wait EXCEPT ![w] = place], wait[w] # "blocked",
           UNCHANGED <<counter, op, errors, raced>>,
           {cancelled'} \subseteq BOOLEAN,
           crash' \in {"none", "WaitGroup", "operation"},
           caller' \in [Waits -> {"idle", "waiting", "answered", "timedOut"}],
           before' \in [Waits -> SUBSET Ops], before'[w] \subseteq C!Started,
           \A x \in Waits : x # w => before'[x] = before[x],
           caller'[w] # "idle", \A x \in Waits : x # w => caller'[x] = caller[x],
           place = "blocked" => counter # 0,
           place = "looking" /\ ~raced => counter = 0
    PROVE  CTypes' /\ Orderly' /\ Begun'
<1>type. /\ op \in [Ops -> {"new", "running", "failed", "leaving", "waking", "ended"}]
         /\ wait \in [Waits -> {"idle", "entering", "blocked", "woken", "looking", "ended"}]
         /\ counter = Cardinality(C!Active) /\ IsFiniteSet(C!Active)
         /\ errors \subseteq C!Started /\ raced \in BOOLEAN
  BY SameCardinality DEF CTypes, C!TypeOK
<1>1. C!Active' = C!Active /\ C!Started' = C!Started
  BY DEF C!Active, C!Started
<1>2. /\ wait' \in [Waits -> {"idle", "entering", "blocked", "woken", "looking", "ended"}]
      /\ wait'[w] = place /\ \A x \in Waits : x # w => wait'[x] = wait[x]
  BY <1>type
<1>3. CTypes'
  <2>1. counter' = Cardinality(C!Active)' /\ IsFiniteSet(C!Active)' /\ errors' \subseteq C!Started'
    BY <1>type, <1>1
  <2>2. {cancelled', raced'} \subseteq BOOLEAN
    BY <1>type
  <2> QED
    BY <1>type, <1>2, <2>1, <2>2, SameCardinality DEF CTypes, C!TypeOK
<1>4. Begun'
  <2>1. ASSUME NEW x \in Waits
        PROVE  before'[x] \subseteq C!Started /\ (caller'[x] = "idle" => wait'[x] = "idle")
    BY <1>2, <2>1 DEF Begun
  <2> QED
    BY <1>1, <2>1 DEF Begun
<1>5. Orderly'
  <2> SUFFICES ASSUME ~raced PROVE Orderly'
    BY DEF Orderly
  <2>1. \A x \in Waits : wait'[x] = "woken" <=> wait[x] = "woken" /\ x # w
    BY <1>2
  <2>2. C!Asleep \subseteq C!Asleep' /\ (counter = 0 => C!Asleep' = C!Asleep)
    BY <1>2 DEF C!Asleep
  <2>3. ASSUME NEW o \in Ops, op[o] = "waking"
        PROVE  /\ counter = 0 /\ C!Asleep' # {}
               /\ \A p \in Ops : op[p] = "waking" => p = o
               /\ \A x \in Waits : wait'[x] # "woken"
    BY <2>1, <2>2, <2>3 DEF Orderly
  <2>4. ASSUME NEW x \in Waits, wait'[x] = "woken" PROVE counter = 0 /\ C!Asleep' = {}
    BY <2>1, <2>2, <2>4 DEF Orderly
  <2>5. ASSUME NEW x \in Waits, wait'[x] = "looking", NEW o \in before'[x]
        PROVE  op[o] \in {"waking", "ended"}
    <3>1. CASE x # w
      BY <1>2, <2>5, <3>1 DEF Orderly
    <3>2. CASE x = w
      <4>1. counter = 0
        BY <1>2, <2>5, <3>2
      <4>2. C!Active = {}
        BY <1>type, <4>1, Counted
      <4>3. o \in Ops /\ op[o] # "new"
        BY <2>5, <3>2 DEF C!Started
      <4> QED
        BY <1>type, <4>2, <4>3 DEF C!Active
    <3> QED
      BY <3>1, <3>2
  <2> QED
    BY <2>3, <2>4, <2>5 DEF Orderly
<1> QED
  BY <1>3, <1>4, <1>5

\* Steps of the callers only.
LEMMA OnlyCallers ==
    ASSUME CTypes, Orderly, Begun,
           UNCHANGED <<counter, op, errors, wait, before, raced>>,
           {cancelled'} \subseteq BOOLEAN,
           crash' \in {"none", "WaitGroup", "operation"},
           caller' \in [Waits -> {"idle", "waiting", "answered", "timedOut"}],
           \A x \in Waits : caller'[x] = "idle" => caller[x] = "idle"
    PROVE  CTypes' /\ Orderly' /\ Begun'
<1>1. C!Active' = C!Active /\ C!Started' = C!Started /\ C!Asleep' = C!Asleep
  BY DEF C!Active, C!Started, C!Asleep
<1>2. raced \in BOOLEAN
  BY DEF CTypes, C!TypeOK
<1>3. {cancelled', raced'} \subseteq BOOLEAN
  BY <1>2
<1>4. counter' = Cardinality(C!Active)' /\ IsFiniteSet(C!Active)' /\ errors' \subseteq C!Started'
  BY <1>1, SameCardinality DEF CTypes, C!TypeOK
<1>5. CTypes'
  BY <1>3, <1>4, SameCardinality DEF CTypes, C!TypeOK
<1> QED
  BY <1>1, <1>5 DEF Orderly, Begun

\* Every step of a Wait and of its caller is such a move.
LEMMA WaitKeeps ==
    ASSUME CTypes, Orderly, Begun, NEW w \in Waits,
           C!CallWait(w) \/ C!WaitStep(w) \/ C!TimeOut(w)
    PROVE  CTypes' /\ Orderly' /\ Begun'
<1>type. /\ wait \in [Waits -> {"idle", "entering", "blocked", "woken", "looking", "ended"}]
         /\ caller \in [Waits -> {"idle", "waiting", "answered", "timedOut"}]
         /\ before \in [Waits -> SUBSET Ops] /\ C!Started \subseteq Ops
         /\ {cancelled} \subseteq BOOLEAN /\ crash \in {"none", "WaitGroup", "operation"}
  BY DEF CTypes, C!TypeOK, C!Started
<1>cnt. /\ counter \in Nat /\ before[w] \subseteq C!Started
        /\ caller[w] = "idle" => wait[w] = "idle"
  BY Counted, SameCardinality DEF CTypes, C!TypeOK, Begun
<1>1. CASE C!CallWait(w)
  <2>1. wait[w] # "blocked"
    BY <1>1, <1>cnt DEF C!CallWait
  <2>2. before' \in [Waits -> SUBSET Ops] /\ before'[w] = C!Started
        /\ \A x \in Waits : x # w => before'[x] = before[x]
    BY <1>1, <1>type DEF C!CallWait
  <2>3. /\ caller' \in [Waits -> {"idle", "waiting", "answered", "timedOut"}]
        /\ caller'[w] # "idle" /\ \A x \in Waits : x # w => caller'[x] = caller[x]
    BY <1>1, <1>type DEF C!CallWait
  <2> QED
    BY <1>1, <1>type, <2>1, <2>2, <2>3, WaitMoves DEF C!CallWait
<1>2. CASE C!Enter(w)
  <2>1. PICK place \in {"blocked", "looking"} :
            /\ wait' = [wait EXCEPT ![w] = place] /\ wait[w] # "blocked"
            /\ place = "blocked" <=> counter # 0
    BY <1>2 DEF C!Enter
  <2>3. caller[w] # "idle"
    BY <1>2, <1>cnt DEF C!Enter
  <2>2. UNCHANGED <<counter, op, errors, cancelled, caller, before, raced, crash>>
    BY <1>2 DEF C!Enter
  <2> QED
    BY <1>type, <1>cnt, <2>1, <2>2, <2>3, WaitMoves
<1>3. CASE C!Resume(w)
  <2>1. wait' = [wait EXCEPT ![w] = "looking"] /\ wait[w] = "woken"
        /\ UNCHANGED <<counter, op, errors, cancelled, caller, before, raced>>
        /\ crash' \in {"none", "WaitGroup", "operation"}
    BY <1>3, <1>type DEF C!Resume
  <2>2. (~raced => counter = 0) /\ caller[w] # "idle"
    BY <1>cnt, <2>1 DEF Orderly
  <2> QED
    BY <1>type, <1>cnt, <2>1, <2>2, WaitMoves
<1>4. CASE C!Look(w)
  <2>1. before' \in [Waits -> SUBSET Ops] /\ before'[w] = {}
        /\ \A x \in Waits : x # w => before'[x] = before[x]
    BY <1>4, <1>type DEF C!Look
  <2>2. /\ caller' \in [Waits -> {"idle", "waiting", "answered", "timedOut"}]
        /\ caller'[w] # "idle" /\ \A x \in Waits : x # w => caller'[x] = caller[x]
    BY <1>4, <1>type, <1>cnt DEF C!Look
  <2>3. wait' = [wait EXCEPT ![w] = "ended"] /\ wait[w] = "looking"
        /\ UNCHANGED <<counter, op, errors, cancelled, raced, crash>>
    BY <1>4 DEF C!Look
  <2> QED
    BY <1>type, <2>1, <2>2, <2>3, WaitMoves
<1>5. CASE C!Receive(w)
  <2>1. /\ caller' \in [Waits -> {"idle", "waiting", "answered", "timedOut"}]
        /\ \A x \in Waits : caller'[x] = "idle" => caller[x] = "idle"
    BY <1>5, <1>type DEF C!Receive
  <2> QED
    BY <1>5, <1>type, <2>1, OnlyCallers DEF C!Receive
<1>6. CASE C!TimeOut(w)
  <2>1. /\ caller' \in [Waits -> {"idle", "waiting", "answered", "timedOut"}]
        /\ \A x \in Waits : caller'[x] = "idle" => caller[x] = "idle"
    BY <1>6, <1>type DEF C!TimeOut
  <2> QED
    BY <1>6, <1>type, <2>1, OnlyCallers DEF C!TimeOut
<1> QED
  BY <1>1, <1>2, <1>3, <1>4, <1>5, <1>6 DEF C!WaitStep

\* Cancel and a panic leave the WaitGroup alone.
LEMMA CancelKeeps ==
    ASSUME CTypes, Orderly, Begun, C!Cancel \/ \E o \in Ops : C!Panics(o)
    PROVE  CTypes' /\ Orderly' /\ Begun'
<1>1. /\ caller \in [Waits -> {"idle", "waiting", "answered", "timedOut"}]
      /\ {cancelled} \subseteq BOOLEAN /\ crash \in {"none", "WaitGroup", "operation"}
  BY DEF CTypes, C!TypeOK
<1> QED
  BY <1>1, OnlyCallers DEF C!Cancel, C!Panics

-----------------------------------------------------------------------------
\* A step that moves one operation, its call or both.
LEMMA LinkOne ==
    ASSUME \A p \in Ops : Linked(p), NEW o \in Ops,
           \A p \in Ops : p # o =>
                /\ op'[p] = op[p] /\ call'[p] = call[p] /\ answer'[p] = answer[p]
                /\ p \in errors' <=> p \in errors,
           Linked(o)'
    PROVE  \A p \in Ops : Linked(p)'
BY DEF Linked

\* Neither an operation nor a call moves.
LEMMA LinkNone ==
    ASSUME \A p \in Ops : Linked(p), UNCHANGED <<op, errors, calls>>
    PROVE  \A p \in Ops : Linked(p)'
BY DEF Linked, calls

\* A goroutine that collects its error or leaves stays linked to its call.
LEMMA LinkedByOps ==
    ASSUME C!TypeOK, \A p \in Ops : Linked(p), NEW o \in Ops, OpStep(o)
    PROVE  \A p \in Ops : Linked(p)'
<1>1. op \in [Ops -> {"new", "running", "failed", "leaving", "waking", "ended"}]
  BY DEF C!TypeOK
<1>2. UNCHANGED calls
  BY DEF OpStep
<1>3. /\ \A p \in Ops : p # o => op'[p] = op[p] /\ (p \in errors' <=> p \in errors)
      /\ \/ op[o] = "failed" /\ op'[o] = "leaving" /\ o \in errors'
         \/ /\ op[o] \in {"leaving", "waking"} /\ op'[o] \in {"waking", "ended"}
            /\ errors' = errors
  BY <1>1 DEF OpStep, C!OpStep, C!Collect, C!Done, C!Wake
<1>4. Linked(o)'
  BY <1>2, <1>3 DEF Linked, calls
<1> QED
  BY <1>2, <1>3, <1>4, LinkOne DEF calls

\* A call that begins, moves or returns: its goroutine starts with it and has
\* its result, an error to collect or nothing, when it returns.
LEMMA LinkedByCalls ==
    ASSUME C!TypeOK, G!TypeOK, \A p \in Ops : CallFits(p) /\ Linked(p),
           NEW o \in Ops, Go(o) \/ CallStep(o)
    PROVE  /\ G!TypeOK' /\ \A p \in Ops : CallFits(p)' /\ Linked(p)'
           /\ \/ C!Go(o) \/ C!Returns(o, answer'[o] = "error") \/ UNCHANGED coordinator
<1>1. op \in [Ops -> {"new", "running", "failed", "leaving", "waking", "ended"}]
  BY DEF C!TypeOK
<1>2. Steps(o)
  BY DEF Go, CallStep, Steps
<1>3. /\ G!TypeOK' /\ \A p \in Ops : CallFits(p)'
      /\ \A p \in Ops : p # o => call'[p] = call[p] /\ answer'[p] = answer[p]
      /\ call'[o] # "idle"
      /\ call[o] = "returned" => call'[o] = "returned" /\ answer'[o] = answer[o]
  BY <1>2, GuardStep
<1>4. Linked(o) /\ CallFits(o)'
  BY <1>3
<1>5. CASE Go(o)
  <2>1. /\ op[o] = "new" /\ op' = [op EXCEPT ![o] = "running"] /\ errors' = errors /\ C!Go(o)
    BY <1>5 DEF Go, C!Go
  <2>2. call'[o] = "inside"
    BY <1>5 DEF Go, G!Begin, G!NextAttempt, G!Goto, G!TypeOK
  <2>3. op'[o] = "running" /\ \A p \in Ops : p # o => op'[p] = op[p]
    BY <1>1, <2>1
  <2>4. Linked(o)'
    BY <1>4, <2>1, <2>2, <2>3 DEF Linked
  <2> QED
    BY <1>3, <2>1, <2>3, <2>4, LinkOne
<1>6. CASE CallStep(o)
  <2>1. call[o] # "idle"
    BY <1>6, OnlyBegins DEF CallStep
  <2>2. CASE call[o] # "returned" /\ call'[o] = "returned"
    <3>1. C!Returns(o, answer'[o] = "error")
      BY <1>6, <2>2 DEF CallStep
    <3>2. /\ op[o] = "running" /\ errors' = errors
          /\ op'[o] = IF answer'[o] = "error" THEN "failed" ELSE "leaving"
          /\ \A p \in Ops : p # o => op'[p] = op[p]
      BY <1>1, <3>1 DEF C!Returns
    <3>3. Linked(o)'
      <4>1. o \notin errors
        BY <1>4, <3>2 DEF Linked
      <4>2. CASE answer'[o] = "error"
        BY <2>2, <3>2, <4>1, <4>2 DEF Linked
      <4>3. CASE answer'[o] # "error"
        BY <2>2, <3>2, <4>1, <4>3 DEF Linked
      <4> QED
        BY <4>2, <4>3
    <3> QED
      BY <1>3, <3>1, <3>2, <3>3, LinkOne
  <2>3. CASE ~(call[o] # "returned" /\ call'[o] = "returned")
    <3>1. UNCHANGED coordinator
      BY <1>6, <2>3 DEF CallStep
    <3>2. op' = op /\ errors' = errors
      BY <3>1 DEF coordinator
    <3>3. Linked(o)'
      <4>1. CASE call[o] = "returned"
        BY <1>3, <1>4, <3>2, <4>1 DEF Linked
      <4>2. CASE call[o] # "returned"
        <5>1. op[o] = "running" /\ o \notin errors
          BY <1>4, <2>1, <4>2 DEF Linked
        <5> QED
          BY <1>3, <2>3, <3>2, <4>2, <5>1 DEF Linked
      <4> QED
        BY <4>1, <4>2
    <3> QED
      BY <1>3, <3>1, <3>2, <3>3, LinkOne
  <2> QED
    BY <2>2, <2>3
<1> QED
  BY <1>5, <1>6

\* A WaitGroup that panics was misused; so is an operation nobody guards.
LEMMA CrashStep ==
    ASSUME CTypes, Orderly, CrashOnlyByMisuse, Next
    PROVE  CrashOnlyByMisuse'
<1>1. crash = "none"
  BY DEF Next, Running
<1>2. ASSUME NEW o \in Ops, Go(o) PROVE CrashOnlyByMisuse'
  <2>1. C!Asleep # {} => C!UnderWay # {}
    BY DEF C!Asleep, C!UnderWay
  <2>2. crash' \in {"none", "WaitGroup"} /\ (crash' = "WaitGroup" => raced')
    BY <1>1, <1>2, <2>1 DEF Go, C!Go
  <2> QED
    BY <2>2 DEF CrashOnlyByMisuse
<1>3. ASSUME NEW o \in Ops, Panics(o) PROVE CrashOnlyByMisuse'
  <2>1. /\ op'[o] = "running" /\ crash' = "operation"
        /\ o \notin Retried \cup Timed \/ call'[o] = "fallback"
    BY <1>3 DEF Panics, C!Panics, G!MayPanic, calls
  <2> QED
    BY <2>1 DEF CrashOnlyByMisuse
<1>4. ASSUME NEW w \in Waits, C!Resume(w) PROVE CrashOnlyByMisuse'
  <2>1. counter \in Nat
    BY Counted, SameCardinality DEF CTypes, C!TypeOK
  <2>2. counter > 0 \/ C!Asleep # {} => raced
    BY <1>4, <2>1 DEF Orderly, C!Resume
  <2>3. crash' \in {"none", "WaitGroup"} /\ (crash' = "WaitGroup" => raced')
    BY <1>1, <1>4, <2>2 DEF C!Resume
  <2> QED
    BY <2>3 DEF CrashOnlyByMisuse
<1>5. CASE crash' = crash
  BY <1>1, <1>5 DEF CrashOnlyByMisuse
<1>6. ASSUME NEW o \in Ops, CallStep(o) \/ OpStep(o) PROVE crash' = crash
  BY <1>6 DEF CallStep, C!Returns, coordinator, OpStep, C!OpStep, C!Collect, C!Done, C!Wake
<1>7. ASSUME NEW w \in Waits, CallWait(w) \/ WaitStep(w) \/ TimeOut(w), ~C!Resume(w)
      PROVE  crash' = crash
  BY <1>7 DEF CallWait, WaitStep, TimeOut, C!CallWait, C!WaitStep, C!TimeOut, C!Enter, C!Look,
              C!Receive
<1>8. CASE Cancel
  BY <1>5, <1>8 DEF Cancel, C!Cancel
<1> QED
  BY <1>2, <1>3, <1>4, <1>5, <1>6, <1>7, <1>8 DEF Next

-----------------------------------------------------------------------------
\* NewCoordinator establishes the invariant.
LEMMA CoordinatedInit == Init => CoordinatedInv
<1> SUFFICES ASSUME Init PROVE CoordinatedInv
  OBVIOUS
<1>1. C!Init /\ G!Init
  BY DEF Init
<1>2. CTypes /\ Orderly /\ Begun
  BY <1>1, CoordinatorInit
<1>3. G!TypeOK /\ \A o \in Ops : CallFits(o)
  BY <1>1, CallsInit
<1>4. \A o \in Ops : Linked(o)
  BY <1>1 DEF C!Init, G!Init, Linked
<1>5. CrashOnlyByMisuse
  BY <1>1 DEF C!Init, CrashOnlyByMisuse
<1> QED
  BY <1>2, <1>3, <1>4, <1>5 DEF CoordinatedInv, CTypes, TypeOK

\* Every step keeps it.
LEMMA CoordinatedStep == CoordinatedInv /\ [Next]_vars => CoordinatedInv'
<1> SUFFICES ASSUME CoordinatedInv, [Next]_vars PROVE CoordinatedInv'
  OBVIOUS
<1>inv. /\ CTypes /\ C!TypeOK /\ G!TypeOK /\ Orderly /\ Begun /\ CrashOnlyByMisuse
        /\ \A o \in Ops : CallFits(o) /\ Linked(o)
  BY DEF CoordinatedInv, CTypes, TypeOK
<1>all. ASSUME CTypes', Orderly', Begun', CrashOnlyByMisuse', G!TypeOK',
               \A o \in Ops : CallFits(o)' /\ Linked(o)'
        PROVE  CoordinatedInv'
  BY <1>all DEF CoordinatedInv, CTypes, TypeOK
\* The calls stay as they are.
<1>calm. ASSUME UNCHANGED calls PROVE G!TypeOK' /\ \A o \in Ops : CallFits(o)'
  BY <1>inv, <1>calm DEF G!TypeOK, CallFits, calls
<1>1. CASE UNCHANGED vars
  <2>1. UNCHANGED <<coordinator, calls>>
    BY <1>1 DEF vars
  <2>2. CTypes' /\ Orderly' /\ Begun'
    BY <1>inv, <2>1 DEF coordinator, CTypes, C!TypeOK, C!Active, C!Started, C!Asleep, Orderly, Begun
  <2>3. CrashOnlyByMisuse' /\ \A o \in Ops : Linked(o)'
    BY <1>inv, <2>1, LinkNone DEF coordinator, calls, CrashOnlyByMisuse
  <2> QED
    BY <1>all, <1>calm, <2>1, <2>2, <2>3
<1>2. CASE Next
  <2>1. CrashOnlyByMisuse'
    BY <1>inv, <1>2, CrashStep
  <2>2. ASSUME NEW o \in Ops, Go(o) \/ CallStep(o) PROVE CoordinatedInv'
    <3>1. /\ G!TypeOK' /\ \A p \in Ops : CallFits(p)' /\ Linked(p)'
          /\ \/ C!Go(o) \/ C!Returns(o, answer'[o] = "error") \/ UNCHANGED coordinator
      BY <1>inv, <2>2, LinkedByCalls
    <3>2. CASE C!Go(o)
      BY <1>inv, <1>all, <2>1, <3>1, <3>2, GoKeeps
    <3>3. CASE C!Returns(o, answer'[o] = "error")
      <4>1. PICK place \in {"failed", "leaving"} : op' = [op EXCEPT ![o] = place]
        BY <3>3 DEF C!Returns
      <4>2. CTypes' /\ Orderly' /\ Begun'
        BY <1>inv, <3>3, <4>1, StaysActive DEF C!Returns
      <4> QED
        BY <1>all, <2>1, <3>1, <4>2
    <3>4. CASE UNCHANGED coordinator
      <4>1. CTypes' /\ Orderly' /\ Begun'
        BY <1>inv, <3>4
           DEF coordinator, CTypes, C!TypeOK, C!Active, C!Started, C!Asleep, Orderly, Begun
      <4> QED
        BY <1>all, <2>1, <3>1, <4>1
    <3> QED
      BY <3>1, <3>2, <3>3, <3>4
  <2>3. ASSUME NEW o \in Ops, OpStep(o) PROVE CoordinatedInv'
    <3>1. UNCHANGED calls /\ \A p \in Ops : Linked(p)'
      BY <1>inv, <2>3, LinkedByOps DEF OpStep
    <3>2. CTypes' /\ Orderly' /\ Begun'
      <4>1. CASE C!Collect(o)
        BY <1>inv, <4>1, StaysActive DEF C!Collect
      <4> QED
        BY <1>inv, <2>3, <4>1, DoneKeeps, WakeKeeps DEF OpStep, C!OpStep
    <3> QED
      BY <1>all, <1>calm, <2>1, <3>1, <3>2
  <2>4. ASSUME NEW w \in Waits, CallWait(w) \/ WaitStep(w) \/ TimeOut(w) PROVE CoordinatedInv'
    <3>1. UNCHANGED calls /\ (C!CallWait(w) \/ C!WaitStep(w) \/ C!TimeOut(w))
      BY <2>4 DEF CallWait, WaitStep, TimeOut
    <3>2. CTypes' /\ Orderly' /\ Begun'
      BY <1>inv, <3>1, WaitKeeps
    <3>3. UNCHANGED <<op, errors>>
      BY <3>1 DEF C!CallWait, C!WaitStep, C!TimeOut, C!Enter, C!Resume, C!Look, C!Receive
    <3> QED
      BY <1>inv, <1>all, <1>calm, <2>1, <3>1, <3>2, <3>3, LinkNone
  <2>5. ASSUME Cancel \/ \E o \in Ops : Panics(o) PROVE CoordinatedInv'
    <3>1. UNCHANGED calls /\ (C!Cancel \/ \E o \in Ops : C!Panics(o))
      BY <2>5 DEF Cancel, Panics
    <3>2. CTypes' /\ Orderly' /\ Begun'
      BY <1>inv, <3>1, CancelKeeps
    <3>3. UNCHANGED <<op, errors>>
      BY <3>1 DEF C!Cancel, C!Panics
    <3> QED
      BY <1>inv, <1>all, <1>calm, <2>1, <3>1, <3>2, <3>3, LinkNone
  <2> QED
    BY <1>2, <2>2, <2>3, <2>4, <2>5 DEF Next
<1> QED
  BY <1>1, <1>2

\* CoordinatedInv is invariant: calls, goroutines, the WaitGroup and its Waits
\* fit together (sync/safe_operations.go:160-292,
\* errorhandling/handler.go:215-284).
THEOREM CoordinatedInvariant == Spec => []CoordinatedInv
BY CoordinatedInit, CoordinatedStep, PTL DEF Spec

\* The types; the counter of the WaitGroup is the number of goroutines that
\* have not called Done, so that it is never negative, which would panic
\* (sync/safe_operations.go:246-257).
THEOREM CoordinatedTypes == Spec => []TypeOK
<1>1. CoordinatedInv => TypeOK
  BY DEF CoordinatedInv
<1> QED
  BY <1>1, CoordinatedInvariant, PTL

\* However many operations and Waits there are, the WaitGroup panics only
\* after Go was called at zero beside a Wait, and an operation that panics
\* kills the process only where neither wrapper recovers
\* (sync/safe_operations.go:214-225, 252-258; errorhandling/handler.go:236,
\* 269-277).
THEOREM NoCrashUnlessMisused == Spec => []CrashOnlyByMisuse
<1>1. CoordinatedInv => CrashOnlyByMisuse
  BY DEF CoordinatedInv
<1> QED
  BY <1>1, CoordinatedInvariant, PTL

\* What the fit of a call says of its answer.
LEMMA FitsOwn ==
    ASSUME NEW o \in Ops, NEW place, NEW n \in 0 .. Retries + 1, NEW t, NEW d, NEW result,
           Fits(o, place, n, t, d, result)
    PROVE  /\ result = "ok" => t[n] = "ended" /\ d[n] = "ok"
           /\ result \in {"error", "fallback"} =>
                /\ o \in Retried => n = Retries + 1
                /\ \A a \in 1 .. n : Lost(o, t[a], d[a])
<1>1. ASSUME result \in {"error", "fallback"}, NEW a \in 1 .. n PROVE Lost(o, t[a], d[a])
  <2>1. a \in G!Attempts /\ (a < n \/ a = n)
    BY <1>1, AttemptsFacts DEF G!Attempts
  <2> QED
    BY <1>1, <2>1 DEF Fits, Tried
<1> QED
  BY <1>1 DEF Fits

\* For any number of calls and retries, a call returns the success of its last
\* attempt, and an error or a fallback only after all its attempts, each of
\* which failed or was given up (sync/safe_operations.go:182-211,
\* errorhandling/handler.go:215-244, 260-284).
THEOREM CallersGetTheirOwn == Spec => []AnswerIsOwn
<1>1. CoordinatedInv => AnswerIsOwn
  <2> SUFFICES ASSUME CoordinatedInv, NEW o \in Ops
               PROVE  /\ answer[o] = "ok" =>
                            task[o][attempt[o]] = "ended" /\ done[o][attempt[o]] = "ok"
                      /\ answer[o] \in {"error", "fallback"} =>
                            /\ o \in Retried => attempt[o] = Retries + 1
                            /\ \A a \in 1 .. attempt[o] : Lost(o, task[o][a], done[o][a])
    BY DEF AnswerIsOwn, Lost
  <2>1. Fits(o, call[o], attempt[o], task[o], done[o], answer[o]) /\ attempt[o] \in 0 .. Retries + 1
    BY DEF CoordinatedInv, CallFits, TypeOK, G!TypeOK
  <2> QED
    BY <2>1, FitsOwn
<1> QED
  BY <1>1, CoordinatedInvariant, PTL

\* For any operations and Waits, a Wait that was not raced returns after the
\* end of every operation started before it, with the error of each that
\* failed and no other (sync/safe_operations.go:248-270).
THEOREM WaitsSeeAll == Spec => WaitSeesAll
<1>1. ASSUME CoordinatedInv, NEW w \in Waits, wait[w] = "looking"
      PROVE  /\ errors \subseteq {o \in Ops : answer[o] = "error"}
             /\ ~raced => \A o \in before[w] :
                    /\ op[o] \in {"waking", "ended"}
                    /\ answer[o] = "error" => o \in errors
  <2>1. errors \subseteq Ops /\ before[w] \subseteq Ops /\ \A o \in Ops : Linked(o)
    BY <1>1 DEF CoordinatedInv, TypeOK, C!TypeOK, C!Started, Begun
  <2>2. ~raced => \A o \in before[w] : op[o] \in {"waking", "ended"}
    BY <1>1 DEF CoordinatedInv, Orderly
  <2> QED
    BY <2>1, <2>2 DEF Linked
<1>2. CoordinatedInv =>
        [\A w \in Waits : wait[w] = "looking" /\ wait'[w] = "ended" =>
            /\ errors \subseteq {o \in Ops : answer[o] = "error"}
            /\ ~raced => \A o \in before[w] :
                /\ op[o] \in {"waking", "ended"}
                /\ answer[o] = "error" => o \in errors]_vars
  BY <1>1
<1> QED
  BY <1>2, CoordinatedInvariant, PTL DEF WaitSeesAll

=============================================================================

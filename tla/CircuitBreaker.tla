--------------------------- MODULE CircuitBreaker ---------------------------
(***************************************************************************)
(* The circuit breaker of internal/errorhandling/handler.go and the calls  *)
(* of ExecuteWithRetry that share it.  Each caller makes one call after    *)
(* another; every section of code under the breaker's mutex is one step.   *)
(*                                                                         *)
(* Time is what the code asks of it: elapsed says that more than           *)
(* resetTimeout has passed since lastFailure.  failures stops counting at  *)
(* MaxFailures, which the code only compares it with.                      *)
(***************************************************************************)
EXTENDS Integers

CONSTANTS
    Callers,        \* goroutines that call ExecuteWithRetry
    MaxFailures,    \* cb.maxFailures
    MaxRetries      \* eh.maxRetries

ASSUME MaxFailuresAssumption == MaxFailures \in Nat \ {0}
ASSUME MaxRetriesAssumption == MaxRetries \in Nat

VARIABLES
    state,      \* cb.state
    failures,   \* cb.failures
    elapsed,    \* time.Since(cb.lastFailure) > cb.resetTimeout
    healthy,    \* environment: operations succeed
    pc,         \* where each caller is
    retries,    \* the retries of its call so far, attempt in the code
    lastErr,    \* the error of its last attempt: "none", "validation" or "other"
    outcome     \* what its last call returned

breaker == <<state, failures, elapsed>>
breakerVars == <<state, failures, elapsed, healthy, pc, retries, lastErr, outcome>>

BreakerInit ==
    /\ state = "Closed"
    /\ failures = 0
    /\ elapsed = TRUE          \* lastFailure is the zero time
    /\ healthy \in BOOLEAN
    /\ pc = [c \in Callers |-> "idle"]
    /\ retries = [c \in Callers |-> 0]
    /\ lastErr = [c \in Callers |-> "none"]
    /\ outcome = [c \in Callers |-> "none"]

-----------------------------------------------------------------------------
(* Environment.                                                            *)

Elapse ==
    /\ elapsed' = TRUE
    /\ UNCHANGED <<state, failures, healthy, pc, retries, lastErr, outcome>>

HealthChanges ==
    /\ healthy' = ~healthy
    /\ UNCHANGED <<breaker, pc, retries, lastErr, outcome>>

Call(c) ==
    /\ pc[c] = "idle"
    /\ pc' = [pc EXCEPT ![c] = "allow"]
    /\ retries' = [retries EXCEPT ![c] = 0]
    /\ lastErr' = [lastErr EXCEPT ![c] = "none"]
    /\ outcome' = [outcome EXCEPT ![c] = "none"]
    /\ UNCHANGED <<breaker, healthy>>

-----------------------------------------------------------------------------
(* Allow.                                                                  *)

Return(c, result) ==
    /\ pc' = [pc EXCEPT ![c] = "idle"]
    /\ outcome' = [outcome EXCEPT ![c] = result]

\* What the caller does with the answer of Allow.
Answer(c, allowed) ==
    IF allowed
    THEN pc' = [pc EXCEPT ![c] = "operating"] /\ UNCHANGED outcome
    ELSE Return(c, "rejected")

\* Under the read lock; an open breaker whose timeout has passed releases it.
Allow(c) ==
    /\ pc[c] = "allow"
    /\ \/ state \in {"Closed", "HalfOpen"} /\ Answer(c, TRUE)
       \/ state = "Open" /\ ~elapsed /\ Answer(c, FALSE)
       \/ state = "Open" /\ elapsed /\ pc' = [pc EXCEPT ![c] = "upgrade"]
          /\ UNCHANGED outcome
    /\ UNCHANGED <<breaker, healthy, retries, lastErr>>

UpgradeUnchecked(c) ==
    /\ pc[c] = "upgrade"
    /\ state' = IF state = "Open" THEN "HalfOpen" ELSE state
    /\ pc' = [pc EXCEPT ![c] = "recheck"]
    /\ UNCHANGED <<failures, elapsed, healthy, retries, lastErr, outcome>>

\* Under the write lock.
Upgrade(c) ==
    /\ pc[c] = "upgrade"
    /\ state' = IF state = "Open" /\ elapsed THEN "HalfOpen" ELSE state
    /\ pc' = [pc EXCEPT ![c] = "recheck"]
    /\ UNCHANGED <<failures, elapsed, healthy, retries, lastErr, outcome>>

\* Under the read lock again.
Recheck(c) ==
    /\ pc[c] = "recheck"
    /\ Answer(c, state = "HalfOpen")
    /\ UNCHANGED <<breaker, healthy, retries, lastErr>>

-----------------------------------------------------------------------------
(* The operation, and what ExecuteWithRetry makes of its result.           *)

OperationSucceeds(c) ==
    /\ pc[c] = "operating"
    /\ healthy
    /\ pc' = [pc EXCEPT ![c] = "succeeded"]
    /\ UNCHANGED <<breaker, healthy, retries, lastErr, outcome>>

OperationFails(c) ==
    /\ pc[c] = "operating"
    /\ ~healthy
    /\ pc' = [pc EXCEPT ![c] = "failed"]
    /\ \E err \in {"validation", "other"} : lastErr' = [lastErr EXCEPT ![c] = err]
    /\ UNCHANGED <<breaker, healthy, retries, outcome>>

\* Variant: a success that never closes.
RecordSuccessKeepsHalfOpen(c) ==
    /\ pc[c] = "succeeded"
    /\ failures' = 0
    /\ Return(c, "ok")
    /\ UNCHANGED <<state, elapsed, healthy, retries, lastErr>>

RecordSuccess(c) ==
    /\ pc[c] = "succeeded"
    /\ failures' = 0
    /\ state' = IF state = "HalfOpen" THEN "Closed" ELSE state
    /\ Return(c, "ok")
    /\ UNCHANGED <<elapsed, healthy, retries, lastErr>>

\* Variants: a breaker that opens one failure late; a retry loop that makes
\* one attempt too many.
RecordFailureLate(c) ==
    /\ pc[c] = "failed"
    /\ failures' = IF failures < MaxFailures THEN failures + 1 ELSE failures
    /\ state' = IF failures >= MaxFailures THEN "Open" ELSE state
    /\ elapsed' = FALSE
    /\ IF lastErr[c] # "validation" /\ retries[c] < MaxRetries
       THEN pc' = [pc EXCEPT ![c] = "backoff"] /\ UNCHANGED outcome
       ELSE Return(c, "failed")
    /\ UNCHANGED <<healthy, retries, lastErr>>

RecordFailureOneMore(c) ==
    /\ pc[c] = "failed"
    /\ failures' = IF failures < MaxFailures THEN failures + 1 ELSE failures
    /\ state' = IF failures' >= MaxFailures THEN "Open" ELSE state
    /\ elapsed' = FALSE
    /\ IF lastErr[c] # "validation" /\ retries[c] <= MaxRetries
       THEN pc' = [pc EXCEPT ![c] = "backoff"] /\ UNCHANGED outcome
       ELSE Return(c, "failed")
    /\ UNCHANGED <<healthy, retries, lastErr>>

RecordFailure(c) ==
    /\ pc[c] = "failed"
    /\ failures' = IF failures < MaxFailures THEN failures + 1 ELSE failures
    /\ state' = IF failures' >= MaxFailures THEN "Open" ELSE state
    /\ elapsed' = FALSE
    /\ IF lastErr[c] # "validation" /\ retries[c] < MaxRetries
       THEN pc' = [pc EXCEPT ![c] = "backoff"] /\ UNCHANGED outcome
       ELSE Return(c, "failed")
    /\ UNCHANGED <<healthy, retries, lastErr>>

\* The select between the timer and the caller's context.
BackoffEnds(c) ==
    /\ pc[c] = "backoff"
    /\ \/ /\ pc' = [pc EXCEPT ![c] = "allow"]
          /\ retries' = [retries EXCEPT ![c] = @ + 1]
          /\ UNCHANGED outcome
       \/ /\ Return(c, "ctx")
          /\ UNCHANGED retries
    /\ UNCHANGED <<breaker, healthy, lastErr>>

-----------------------------------------------------------------------------
CallerStep(c) ==
    \/ Call(c) \/ Allow(c) \/ Upgrade(c) \/ Recheck(c)
    \/ OperationSucceeds(c) \/ OperationFails(c)
    \/ RecordSuccess(c) \/ RecordFailure(c) \/ BackoffEnds(c)

BreakerNext == Elapse \/ HealthChanges \/ \E c \in Callers : CallerStep(c)

BreakerSpec == BreakerInit /\ [][BreakerNext]_breakerVars

\* Callers keep calling, the scheduler and timers run, operations return.
BreakerLiveSpec ==
    /\ BreakerSpec
    /\ \A c \in Callers : WF_breakerVars(CallerStep(c))
    /\ WF_breakerVars(Elapse)

-----------------------------------------------------------------------------
States == {"Closed", "Open", "HalfOpen"}
PCs == {"idle", "allow", "upgrade", "recheck", "operating", "succeeded",
        "failed", "backoff"}

BreakerTypeOK ==
    /\ state \in States
    /\ failures \in 0 .. MaxFailures
    /\ elapsed \in BOOLEAN
    /\ healthy \in BOOLEAN
    /\ pc \in [Callers -> PCs]
    /\ retries \in [Callers -> 0 .. MaxRetries]
    /\ lastErr \in [Callers -> {"none", "validation", "other"}]
    /\ outcome \in [Callers -> {"none", "ok", "rejected", "failed", "ctx"}]

\* A closed breaker has seen fewer than MaxFailures failures since its last
\* success, whatever the order in which concurrent callers record theirs
\* (RecordFailure, handler.go:171-185).
ClosedBelowMax == state = "Closed" => failures < MaxFailures

\* A breaker leaves Open only for HalfOpen, and only when resetTimeout has
\* passed since the latest failure, including one recorded while Allow had
\* given up its lock; so a success whose operation began before it opened
\* never closes it (handler.go:139-147, 163-167).
OpenLastsResetTimeout ==
    [][state = "Open" /\ state' # "Open" => elapsed /\ state' = "HalfOpen"]_breakerVars

\* Once operations succeed for good, the breaker closes for good: no order of
\* late failures, upgrades and rechecks leaves it open or half open.
Recovers == <>[]healthy => <>[](state = "Closed")

=============================================================================

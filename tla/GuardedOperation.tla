-------------------------- MODULE GuardedOperation --------------------------
(***************************************************************************)
(* The wrappers this code offers around one operation, from outside in:    *)
(* ErrorRecovery.ExecuteWithFallback and TimeoutHandler.ExecuteWithTimeout *)
(* of internal/errorhandling/handler.go, with SafeExecution.Execute of     *)
(* internal/sync/safe_operations.go between them.  A call may use any of   *)
(* them.  Who calls, and in which goroutine, is for the module that        *)
(* composes this one to say.                                               *)
(***************************************************************************)
EXTENDS Integers, FiniteSets

CONSTANTS
    Ops,            \* calls
    Recovered,      \* those inside ExecuteWithFallback
    Retried,        \* those inside SafeExecution.Execute
    Timed,          \* those inside ExecuteWithTimeout
    Hanging,        \* those that return only when their context is done
    Deaf,           \* those of which an attempt may never return
    Retries         \* of SafeExecution

Attempts == 1 .. Retries + 1

VARIABLES
    cancelled,      \* the caller's context is done
    call,           \* where each call is
    attempt,        \* the attempt it is in
    task,           \* the operation, for each attempt
    done,           \* what it sent, or returned
    answer          \* what the call returned

Each(value) == [o \in Ops |-> [a \in Attempts |-> value]]

Init ==
    /\ call = [o \in Ops |-> "idle"]
    /\ attempt = [o \in Ops |-> 0]
    /\ task = Each("none")
    /\ done = Each("empty")
    /\ answer = [o \in Ops |-> "none"]

Goto(o, place) == call' = [call EXCEPT ![o] = place]
Return(o, what) == Goto(o, "returned") /\ answer' = [answer EXCEPT ![o] = what]

-----------------------------------------------------------------------------
(* Attempts.  A timed one runs in a goroutine, the others in the caller's. *)

\* Each attempt inside Execute or ExecuteWithTimeout has a context of its own,
\* which may run out at any moment and ends with the attempt.
MayBeDone(o) == cancelled \/ o \in Retried \cup Timed

\* The operation begins; whether it will ever return is decided here.
NextAttempt(o) ==
    /\ Goto(o, "inside")
    /\ attempt' = [attempt EXCEPT ![o] = @ + 1]
    /\ \E how \in {"running"} \cup (IF o \in Deaf THEN {"stuck"} ELSE {}) :
        task' = [task EXCEPT ![o][attempt[o] + 1] = how]

Begin(o) ==
    /\ call[o] = "idle"
    /\ NextAttempt(o)
    /\ UNCHANGED <<done, answer>>

MayEnd(o, a) ==
    /\ task[o][a] \in {"running", "late"}
    /\ o \in Hanging => MayBeDone(o)

\* Execute tries again, but not at once; ExecuteWithFallback then falls back.
Settle(o, what) ==
    IF what = "ok" THEN Return(o, "ok")
    ELSE IF o \in Retried /\ attempt[o] <= Retries
         THEN Goto(o, "sleeping") /\ UNCHANGED answer
    ELSE IF o \in Recovered
         THEN Goto(o, "falling") /\ UNCHANGED answer
    ELSE Return(o, "error")

EndsAs(o, a, what) ==
    /\ task' = [task EXCEPT ![o][a] = IF @ = "late" THEN "endedLate" ELSE "ended"]
    /\ done' = [done EXCEPT ![o][a] = what]
    /\ IF o \in Timed THEN UNCHANGED <<call, answer>> ELSE Settle(o, what)
    /\ UNCHANGED attempt

\* Variant: a channel without room, which needs the caller in its select.
EndsUnbuffered(o, a, what) ==
    /\ MayEnd(o, a)
    /\ o \in Timed => call[o] = "inside" /\ a = attempt[o]
    /\ EndsAs(o, a, what)

\* The operation returns, to its caller or, if it is timed, by sending to done,
\* which has room for one.  A panic that executeWithRecover or the goroutine of
\* ExecuteWithTimeout recovers is an error.
Ends(o, a, what) ==
    /\ MayEnd(o, a)
    /\ EndsAs(o, a, what)

\* Variant: one channel for all attempts of a call.
TakeAny(o) ==
    /\ call[o] = "inside"
    /\ \E a \in Attempts : done[o][a] # "empty" /\ Settle(o, done[o][a])
    /\ UNCHANGED <<attempt, task, done>>

Take(o) ==
    /\ o \in Timed /\ call[o] = "inside"
    /\ done[o][attempt[o]] # "empty"
    /\ Settle(o, done[o][attempt[o]])
    /\ UNCHANGED <<attempt, task, done>>

\* The other branch of the select; the goroutine is left to itself.
GiveUp(o) ==
    /\ o \in Timed /\ call[o] = "inside"
    /\ Settle(o, "timeout")
    /\ task' = [task EXCEPT ![o][attempt[o]] =
                    CASE @ = "running" -> "late" [] @ = "ended" -> "endedLate"
                      [] OTHER -> @]
    /\ UNCHANGED <<attempt, done>>

\* time.Sleep between attempts, which heeds no context.
WakeUp(o) ==
    /\ call[o] = "sleeping"
    /\ NextAttempt(o)
    /\ UNCHANGED <<done, answer>>

-----------------------------------------------------------------------------
(* Fallbacks.                                                              *)

\* RegisterFallback may come at any moment, from anybody, so that the call
\* finds a handler or none.
LookUp(o) ==
    /\ call[o] = "falling"
    /\ \/ Goto(o, "fallback") /\ UNCHANGED answer
       \/ Return(o, "error")
    /\ UNCHANGED <<attempt, task, done>>

\* Nothing bounds or recovers a fallback.
FallbackEnds(o) ==
    /\ call[o] = "fallback"
    /\ \E what \in {"fallback", "error"} : Return(o, what)
    /\ UNCHANGED <<attempt, task, done>>

\* Variant: executeWithRecover and ExecuteWithTimeout without their recover.
MayPanicAnywhere(o) == \E a \in Attempts : MayEnd(o, a)

\* The operation itself, or the fallback, panics where nothing recovers.
MayPanic(o) ==
    \/ call[o] = "fallback"
    \/ o \notin Retried \cup Timed /\ call[o] = "inside" /\ MayEnd(o, attempt[o])

-----------------------------------------------------------------------------
TaskStep(o) == \E a \in Attempts : \E what \in {"ok", "error"} : Ends(o, a, what)
CallStep(o) == Take(o) \/ GiveUp(o) \/ WakeUp(o) \/ LookUp(o) \/ FallbackEnds(o)

TypeOK ==
    /\ call \in [Ops -> {"idle", "inside", "sleeping", "falling", "fallback", "returned"}]
    /\ attempt \in [Ops -> 0 .. Retries + 1]
    /\ task \in [Ops -> [Attempts ->
                    {"none", "running", "stuck", "late", "ended", "endedLate"}]]
    /\ done \in [Ops -> [Attempts -> {"empty", "ok", "error"}]]
    /\ answer \in [Ops -> {"none", "ok", "error", "fallback"}]

=============================================================================

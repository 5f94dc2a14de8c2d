----------------------- MODULE CoordinatedOperations ------------------------
(***************************************************************************)
(* A Coordinator whose operations are calls inside the wrappers of         *)
(* GuardedOperation.  The goroutine of Go runs the call; the coordinator's *)
(* context is the one each call is given.                                  *)
(***************************************************************************)
EXTENDS Integers, FiniteSets

CONSTANTS
    Ops, Waits, TimedWaits,                             \* of Coordinator
    Recovered, Retried, Timed, Hanging, Deaf, Retries   \* of GuardedOperation

ASSUME CoordinatedAssumption ==
    /\ TimedWaits \subseteq Waits
    /\ Recovered \cup Retried \cup Timed \cup Hanging \cup Deaf \subseteq Ops
    /\ Retries \in Nat

VARIABLES
    counter, op, errors, cancelled, wait, caller, before, raced, crash,
    call, attempt, task, done, answer

C == INSTANCE Coordinator
G == INSTANCE GuardedOperation

coordinator ==
    <<counter, op, errors, cancelled, wait, caller, before, raced, crash>>
calls == <<call, attempt, task, done, answer>>
vars == <<coordinator, calls>>

Init == C!Init /\ G!Init

\* Go, with the first attempt of the call it starts.
Go(o) == C!Go(o) /\ G!Begin(o)

\* A step of the call or of its operation, which may be the last of the call:
\* its goroutine then has the error.
CallStep(o) ==
    /\ G!CallStep(o) \/ G!TaskStep(o)
    /\ IF call[o] # "returned" /\ call'[o] = "returned"
       THEN C!Returns(o, answer'[o] = "error")
       ELSE UNCHANGED coordinator

Panics(o) == G!MayPanic(o) /\ C!Panics(o) /\ UNCHANGED calls

OpStep(o) == C!OpStep(o) /\ UNCHANGED calls
CallWait(w) == C!CallWait(w) /\ UNCHANGED calls
WaitStep(w) == C!WaitStep(w) /\ UNCHANGED calls
TimeOut(w) == C!TimeOut(w) /\ UNCHANGED calls
Cancel == C!Cancel /\ UNCHANGED calls

Running == crash = "none"

Next ==
    /\ Running
    /\ \/ \E o \in Ops :
            \/ Go(o) \/ CallStep(o) \/ Panics(o) \/ OpStep(o)
       \/ \E w \in Waits : CallWait(w) \/ WaitStep(w) \/ TimeOut(w)
       \/ Cancel

Spec == Init /\ [][Next]_vars

\* Goroutines run and timers fire, also the one of an attempt's context; an
\* operation ends unless it is stuck, or Hanging and its context is not done.
\* Nobody has to call Go, Wait or Cancel.  One fairness for all is enough: no
\* step is ever taken twice.
Fairness ==
    WF_vars(
        /\ Running
        /\ \/ \E o \in Ops : CallStep(o) \/ OpStep(o)
           \/ \E w \in Waits : WaitStep(w) \/ TimeOut(w))

LiveSpec == Spec /\ Fairness

-----------------------------------------------------------------------------
TypeOK == C!TypeOK /\ G!TypeOK

\* What a Wait returns comes after the end of every operation started before it
\* was called and has the error of each that failed, however they interleave
\* with one another and with operations started meanwhile; an operation that
\* succeeded leaves no error there.  The exception is a Go at a counter of zero
\* while a Wait is under way, which the WaitGroup forbids and a Wait left behind
\* by a timeout makes easy to do (sync/safe_operations.go:248-270).
WaitSeesAll ==
    [][\A w \in Waits : wait[w] = "looking" /\ wait'[w] = "ended" =>
        /\ errors \subseteq {o \in Ops : answer[o] = "error"}
        /\ ~raced => \A o \in before[w] :
            /\ op[o] \in {"waking", "ended"}
            /\ answer[o] = "error" => o \in errors]_vars

\* What a call returns is its own: success only if its last attempt succeeded,
\* although an attempt that was given up may answer later, beside the next
\* one; a failure or a fallback only when all its attempts were made and each
\* failed or ran out of time (sync/safe_operations.go:182-211,
\* errorhandling/handler.go:215-244, 260-284).
AnswerIsOwn ==
    \A o \in Ops :
        /\ answer[o] = "ok" =>
            task[o][attempt[o]] = "ended" /\ done[o][attempt[o]] = "ok"
        /\ answer[o] \in {"error", "fallback"} =>
            /\ o \in Retried => attempt[o] = Retries + 1
            /\ \A a \in 1 .. attempt[o] :
                \/ task[o][a] = "ended" /\ done[o][a] = "error"
                \/ o \in Timed /\ task[o][a] \in {"late", "endedLate", "stuck"}

\* The program dies of a panic only if an operation has neither wrapper that
\* recovers, a fallback panics, or the WaitGroup is misused; one that ran out
\* of time and panics later does not kill it (sync/safe_operations.go:214-225,
\* 252-258; handler.go:236, 269-277).
CrashOnlyByMisuse ==
    /\ crash = "WaitGroup" => raced
    /\ crash = "operation" => \E o \in Ops :
        op[o] = "running" /\ (o \notin Retried \cup Timed \/ call[o] = "fallback")

\* What is so once no goroutine has a step left to take.
AtRest ==
    /\ \A w \in TimedWaits : caller[w] # "waiting"
    /\ (\A o \in Ops : op[o] # "running") =>
        \A w \in Waits : wait[w] \in {"idle", "ended"}
    /\ cancelled \/ (\E w \in Waits : caller[w] = "timedOut") =>
        \A o \in Ops \ (Deaf \ Timed) :
            /\ op[o] \in {"new", "ended"}
            /\ \A a \in G!Attempts : task[o][a] \notin {"running", "late"}

\* In the end a WaitWithTimeout has returned, with whatever operations, and a
\* Wait too if the calls came to an end.  If one timed out, or
\* somebody else cancelled the coordinator, then every call that heeds its context or is
\* timed came to an end, with the attempts it gave up; only the goroutine of a
\* stuck one stays (sync/safe_operations.go:278-292, handler.go:259-284).
NothingLeftBehind == <>[](Running => AtRest)

=============================================================================

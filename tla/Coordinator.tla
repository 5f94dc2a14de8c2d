----------------------------- MODULE Coordinator -----------------------------
(***************************************************************************)
(* Coordinator and ErrorCollector of internal/sync/safe_operations.go: a   *)
(* WaitGroup, the errors its operations returned and a context.  What the  *)
(* operations do is for the module that composes this one with             *)
(* GuardedOperation to say; here one only returns.                         *)
(*                                                                         *)
(* The WaitGroup is the one of Go's library, which is a counter, the Waits *)
(* that sleep on it, and two panics when it is reused too early.           *)
(***************************************************************************)
EXTENDS Integers, FiniteSets

CONSTANTS
    Ops,            \* calls of Go, one for each operation
    Waits,          \* calls of Wait, or of WaitWithTimeout
    TimedWaits      \* those of WaitWithTimeout

VARIABLES
    counter,        \* of the WaitGroup
    op,             \* the goroutine Go starts for each operation
    errors,         \* c.errors: the operations whose error was added
    cancelled,      \* c.ctx is done
    wait,           \* where each call of Wait is
    caller,         \* who called Wait or WaitWithTimeout, and its answer
    before,         \* history: while it waits, the operations it has to wait for
    raced,          \* history: Go was called at zero while a Wait was under way
    crash           \* the panic nobody recovered

Init ==
    /\ counter = 0
    /\ op = [o \in Ops |-> "new"]
    /\ errors = {}
    /\ cancelled = FALSE
    /\ wait = [w \in Waits |-> "idle"]
    /\ caller = [w \in Waits |-> "idle"]
    /\ before = [w \in Waits |-> {}]
    /\ raced = FALSE
    /\ crash = "none"

Started == {o \in Ops : op[o] # "new"}
Active == {o \in Ops : op[o] \in {"running", "failed", "leaving"}}
Asleep == {w \in Waits : wait[w] = "blocked"}
UnderWay == {w \in Waits : wait[w] \in {"entering", "blocked", "woken"}}

-----------------------------------------------------------------------------
(* Go and its goroutine.                                                   *)

\* wg.Add panics in its caller when it finds sleepers at a counter of zero.
Go(o) ==
    /\ op[o] = "new"
    /\ op' = [op EXCEPT ![o] = "running"]
    /\ counter' = counter + 1
    /\ crash' = IF counter = 0 /\ Asleep # {} THEN "WaitGroup" ELSE crash
    /\ raced' = (raced \/ (counter = 0 /\ UnderWay # {}))
    /\ UNCHANGED <<errors, cancelled, wait, caller, before>>

Returns(o, failed) ==
    /\ op[o] = "running"
    /\ op' = [op EXCEPT ![o] = IF failed THEN "failed" ELSE "leaving"]
    /\ UNCHANGED <<counter, errors, cancelled, wait, caller, before, raced, crash>>

\* Nothing recovers in the goroutine of Go.
Panics(o) ==
    /\ op[o] = "running"
    /\ crash' = "operation"
    /\ UNCHANGED <<counter, op, errors, cancelled, wait, caller, before, raced>>

\* Variant: an append that overwrites another.
CollectLast(o) ==
    /\ op[o] = "failed"
    /\ errors' = {o}
    /\ op' = [op EXCEPT ![o] = "leaving"]
    /\ UNCHANGED <<counter, cancelled, wait, caller, before, raced, crash>>

\* errors.Add.
Collect(o) ==
    /\ op[o] = "failed"
    /\ errors' = errors \cup {o}
    /\ op' = [op EXCEPT ![o] = "leaving"]
    /\ UNCHANGED <<counter, cancelled, wait, caller, before, raced, crash>>

\* Variant: a goroutine that ends without calling Done.
DoneForgotten(o) ==
    /\ op[o] = "leaving"
    /\ op' = [op EXCEPT ![o] = "ended"]
    /\ UNCHANGED <<counter, errors, cancelled, wait, caller, before, raced, crash>>

\* The deferred wg.Done; the last one then wakes the sleepers.
Done(o) ==
    /\ op[o] = "leaving"
    /\ counter' = counter - 1
    /\ op' = [op EXCEPT ![o] =
                IF counter = 1 /\ Asleep # {} THEN "waking" ELSE "ended"]
    /\ UNCHANGED <<errors, cancelled, wait, caller, before, raced, crash>>

Wake(o) ==
    /\ op[o] = "waking"
    /\ op' = [op EXCEPT ![o] = "ended"]
    /\ wait' = [w \in Waits |-> IF w \in Asleep THEN "woken" ELSE wait[w]]
    /\ UNCHANGED <<counter, errors, cancelled, caller, before, raced, crash>>

-----------------------------------------------------------------------------
(* Wait, and the goroutine WaitWithTimeout gives it.                       *)

CallWait(w) ==
    /\ caller[w] = "idle"
    /\ caller' = [caller EXCEPT ![w] = "waiting"]
    /\ wait' = [wait EXCEPT ![w] = "entering"]
    /\ before' = [before EXCEPT ![w] = Started]
    /\ UNCHANGED <<counter, op, errors, cancelled, raced, crash>>

Enter(w) ==
    /\ wait[w] = "entering"
    /\ wait' = [wait EXCEPT ![w] = IF counter = 0 THEN "looking" ELSE "blocked"]
    /\ UNCHANGED <<counter, op, errors, cancelled, caller, before, raced, crash>>

\* A Wait that wakes panics when the WaitGroup is in use again.
Resume(w) ==
    /\ wait[w] = "woken"
    /\ wait' = [wait EXCEPT ![w] = "looking"]
    /\ crash' = IF counter > 0 \/ Asleep # {} THEN "WaitGroup" ELSE crash
    /\ UNCHANGED <<counter, op, errors, cancelled, caller, before, raced>>

\* HasErrors and GetErrors, between which nothing clears the collector: what
\* Wait returns are the errors of this moment.
Look(w) ==
    /\ wait[w] = "looking"
    /\ wait' = [wait EXCEPT ![w] = "ended"]
    /\ before' = [before EXCEPT ![w] = {}]
    /\ caller' = IF w \in TimedWaits THEN caller ELSE [caller EXCEPT ![w] = "answered"]
    /\ UNCHANGED <<counter, op, errors, cancelled, raced, crash>>

\* WaitWithTimeout receives from done, which has room for one.
Receive(w) ==
    /\ caller[w] = "waiting" /\ wait[w] = "ended"
    /\ caller' = [caller EXCEPT ![w] = "answered"]
    /\ UNCHANGED <<counter, op, errors, cancelled, wait, before, raced, crash>>

\* Cancel, or the end of the context the coordinator was made with.
Cancel ==
    /\ ~cancelled
    /\ cancelled' = TRUE
    /\ UNCHANGED <<counter, op, errors, wait, caller, before, raced, crash>>

\* Variant: a timeout that leaves the operations running.
TimeOutOnly(w) ==
    /\ w \in TimedWaits
    /\ caller[w] = "waiting"
    /\ caller' = [caller EXCEPT ![w] = "timedOut"]
    /\ UNCHANGED <<counter, op, errors, cancelled, wait, before, raced, crash>>

TimeOut(w) ==
    /\ w \in TimedWaits
    /\ caller[w] = "waiting"
    /\ caller' = [caller EXCEPT ![w] = "timedOut"]
    /\ cancelled' = TRUE
    /\ UNCHANGED <<counter, op, errors, wait, before, raced, crash>>

-----------------------------------------------------------------------------
OpStep(o) == Collect(o) \/ Done(o) \/ Wake(o)
WaitStep(w) == Enter(w) \/ Resume(w) \/ Look(w) \/ Receive(w)

TypeOK ==
    /\ counter = Cardinality(Active)
    /\ op \in [Ops -> {"new", "running", "failed", "leaving", "waking", "ended"}]
    /\ errors \subseteq Started
    /\ {cancelled, raced} \subseteq BOOLEAN
    /\ crash \in {"none", "WaitGroup", "operation"}
    /\ wait \in [Waits -> {"idle", "entering", "blocked", "woken", "looking", "ended"}]
    /\ caller \in [Waits -> {"idle", "waiting", "answered", "timedOut"}]
    /\ before \in [Waits -> SUBSET Ops]

=============================================================================

----------------------------- MODULE WorkerPool -----------------------------
(***************************************************************************)
(* The worker pool of internal/workerpool/pool.go, with the part of        *)
(* internal/monitoring/goroutine_monitor.go it drives: Start, Stop, the    *)
(* submitters, the workers, the goroutine that runs each task, the         *)
(* goroutine that waits on the WaitGroup for Stop, and the callers that    *)
(* read the result channels.                                               *)
(*                                                                         *)
(* A channel is a sequence plus a closed flag.  A panic that the code      *)
(* recovers ends the goroutine that recovers it; a panic nobody recovers   *)
(* ends the process, which is the value of crash.                          *)
(***************************************************************************)
EXTENDS Integers, Sequences, FiniteSets

CONSTANTS
    Requested,    \* the argument of NewWorkerPool
    Jobs,         \* the jobs callers submit, each once
    RawJobs,      \* jobs handed to Submit by a caller that shares one Result channel
    Background,   \* jobs whose context is never done (context.Background())
    Hanging,      \* jobs whose task may never return
    SharedCh,     \* the channel the RawJobs share
    SharedCap,    \* its capacity
    NoJob,        \* "no job": what an idle worker holds
    MaxStarts     \* bound: how many times Start finds the pool stopped

ASSUME RequestedAssumption == Requested \in Int
ASSUME JobsAssumption ==
    /\ RawJobs \subseteq Jobs
    /\ Background \subseteq Jobs
    /\ Hanging \subseteq Jobs
    /\ SharedCh \notin Jobs
    /\ NoJob \notin Jobs
ASSUME BoundsAssumption ==
    /\ SharedCap \in Nat \ {0}
    /\ MaxStarts \in Nat \ {0}

Size == IF Requested <= 0 THEN 10 ELSE Requested
QueueCap == 2 * Size

\* A worker goroutine: the Start that created it, and its index.
Goroutines == (1 .. MaxStarts) \X (1 .. Size)

\* The channel a job's result goes to: SubmitTask makes one per job.
Channels == Jobs \cup {SharedCh}
ChanOf(j) == IF j \in RawJobs THEN SharedCh ELSE j
Cap(c) == IF c = SharedCh THEN SharedCap ELSE 1

\* A JobResult: "task" is what the task returned, its error or its panic;
\* "ctx" the context's error; "refused" the error of a failed submission.
Results == [job : Jobs, kind : {"task", "ctx", "refused"}]
Nothing == [job |-> NoJob, kind |-> "nothing"]
ZeroResult == [job |-> NoJob, kind |-> "zero"]    \* read from a closed, empty channel

VARIABLES
    isRunning,    \* wp.isRunning
    starts,       \* how many times Start started workers
    stopper,      \* the call of Stop that holds wp.mu: "idle" or "waiting"
    quitClosed,   \* wp.quit is closed
    waiter,       \* the goroutine of Stop that calls wp.wg.Wait
    wg,           \* the counter of wp.wg
    active,       \* wp.monitor.activeGoroutines["worker"]
    monLoop,      \* monitorLoop is running
    monCancelled, \* the monitor's context is cancelled
    queue,        \* wp.jobs
    pc,           \* where each worker is
    holding,      \* the job in each worker's hands
    task,         \* the goroutine running each job's task
    ctxDone,      \* each job's context is done
    chan,         \* the results buffered in each channel
    closed,       \* each channel is closed
    caller,       \* each job's caller: "new", "waiting", "refused" or "answered"
    got,          \* what the caller read
    refusing,     \* the goroutine that reports a failed submission is running
    crash         \* "no", or the unrecovered panic that ended the process

poolVars == <<isRunning, starts, stopper, quitClosed, waiter>>
monVars == <<monLoop, monCancelled>>
workerVars == <<pc, holding, wg, active>>
jobVars == <<task, ctxDone>>
chanVars == <<chan, closed>>
callerVars == <<caller, got, refusing>>
vars == <<poolVars, monVars, workerVars, queue, jobVars, chanVars, callerVars, crash>>

Init ==
    /\ isRunning = FALSE
    /\ starts = 0
    /\ stopper = "idle"
    /\ quitClosed = FALSE
    /\ waiter = "none"
    /\ wg = 0
    /\ active = 0
    /\ monLoop = FALSE
    /\ monCancelled = FALSE
    /\ queue = <<>>
    /\ pc = [w \in Goroutines |-> "unborn"]
    /\ holding = [w \in Goroutines |-> NoJob]
    /\ task = [j \in Jobs |-> "none"]
    /\ ctxDone = [j \in Jobs |-> FALSE]
    /\ chan = [c \in Channels |-> <<>>]
    /\ closed = [c \in Channels |-> FALSE]
    /\ caller = [j \in Jobs |-> "new"]
    /\ got = [j \in Jobs |-> Nothing]
    /\ refusing = [j \in Jobs |-> FALSE]
    /\ crash = "no"

-----------------------------------------------------------------------------
(* Start and Stop.  Both hold wp.mu from their first line to their return; *)
(* a second Start while running, or a Stop while not, changes nothing.     *)

\* Variants with a slip (each module keeps them beside the definition they
\* vary; they are not part of the specification).
StartResetsWaitGroup ==
    /\ stopper = "idle"
    /\ ~isRunning
    /\ starts < MaxStarts
    /\ isRunning' = TRUE
    /\ starts' = starts + 1
    /\ monLoop' = TRUE
    /\ wg' = Size
    /\ active' = active + Size
    /\ pc' = [w \in Goroutines |-> IF w[1] = starts + 1 THEN "select" ELSE pc[w]]
    /\ UNCHANGED <<stopper, quitClosed, waiter, monCancelled, queue, holding,
                   jobVars, chanVars, callerVars, crash>>

Start ==
    /\ stopper = "idle"
    /\ ~isRunning
    /\ starts < MaxStarts
    /\ isRunning' = TRUE
    /\ starts' = starts + 1
    /\ monLoop' = TRUE
    /\ wg' = wg + Size
    /\ active' = active + Size
    /\ pc' = [w \in Goroutines |-> IF w[1] = starts + 1 THEN "select" ELSE pc[w]]
    /\ UNCHANGED <<stopper, quitClosed, waiter, monCancelled, queue, holding,
                   jobVars, chanVars, callerVars, crash>>

\* Nothing recreates wp.quit, so the second Stop that gets here closes a
\* closed channel, a panic in the caller's goroutine.
StopBegin ==
    /\ stopper = "idle"
    /\ isRunning
    /\ IF quitClosed
       THEN /\ crash' = "closeOfClosedQuit"
            /\ UNCHANGED <<quitClosed, stopper, waiter>>
       ELSE /\ quitClosed' = TRUE
            /\ stopper' = "waiting"
            /\ waiter' = "starting"
            /\ UNCHANGED crash
    /\ UNCHANGED <<isRunning, starts, monVars, workerVars, queue, jobVars,
                   chanVars, callerVars>>

WaiterNeverBlocks ==
    /\ waiter = "starting"
    /\ waiter' = "returned"
    /\ UNCHANGED <<isRunning, starts, stopper, quitClosed, monVars, workerVars,
                   queue, jobVars, chanVars, callerVars, crash>>

\* wg.Wait: return at once at zero, else block until the counter reaches it.
WaiterBlocks ==
    /\ waiter = "starting"
    /\ waiter' = IF wg = 0 THEN "returned" ELSE "blocked"
    /\ UNCHANGED <<isRunning, starts, stopper, quitClosed, monVars, workerVars,
                   queue, jobVars, chanVars, callerVars, crash>>

\* Once woken, Wait panics if the counter is not zero any more.
WaiterReturns ==
    /\ waiter = "woken"
    /\ IF wg = 0
       THEN waiter' = "returned" /\ UNCHANGED crash
       ELSE crash' = "waitGroupReused" /\ UNCHANGED waiter
    /\ UNCHANGED <<isRunning, starts, stopper, quitClosed, monVars, workerVars,
                   queue, jobVars, chanVars, callerVars>>

\* The end of Stop; monitor.Stop cancels the monitor and waits for its loop.
FinishStop ==
    /\ isRunning' = FALSE
    /\ stopper' = "idle"
    /\ monCancelled' = TRUE
    /\ monLoop' = FALSE
    /\ UNCHANGED <<starts, quitClosed, waiter, workerVars, queue, jobVars,
                   chanVars, callerVars, crash>>

StopGraceful == stopper = "waiting" /\ waiter = "returned" /\ FinishStop
StopTimeout == stopper = "waiting" /\ FinishStop

\* A monitorLoop started with a cancelled context returns.
MonitorExits ==
    /\ monLoop /\ monCancelled
    /\ monLoop' = FALSE
    /\ UNCHANGED <<poolVars, monCancelled, workerVars, queue, jobVars, chanVars,
                   callerVars, crash>>

-----------------------------------------------------------------------------
(* Callers.                                                                *)

AcceptsOneMore == isRunning /\ Len(queue) <= QueueCap
AcceptsWhenStopped == Len(queue) < QueueCap

\* Submit under the read lock, and what SubmitTask makes of its answer.
Accepts == isRunning /\ Len(queue) < QueueCap

SubmitAlwaysReports(j) ==
    /\ stopper = "idle"
    /\ caller[j] = "new"
    /\ queue' = IF Accepts THEN Append(queue, j) ELSE queue
    /\ caller' = [caller EXCEPT ![j] = "waiting"]
    /\ refusing' = [refusing EXCEPT ![j] = j \notin RawJobs]
    /\ UNCHANGED <<poolVars, monVars, workerVars, jobVars, chanVars, got, crash>>

Submit(j) ==
    /\ stopper = "idle"
    /\ caller[j] = "new"
    /\ IF Accepts
       THEN /\ queue' = Append(queue, j)
            /\ caller' = [caller EXCEPT ![j] = "waiting"]
            /\ UNCHANGED refusing
       ELSE /\ caller' = [caller EXCEPT ![j] =
                             IF j \in RawJobs THEN "refused" ELSE "waiting"]
            /\ refusing' = [refusing EXCEPT ![j] = j \notin RawJobs]
            /\ UNCHANGED queue
    /\ UNCHANGED <<poolVars, monVars, workerVars, jobVars, chanVars, got, crash>>

\* The goroutine of SubmitTask that reports a failed submission.
Refuse(j) ==
    /\ refusing[j]
    /\ chan' = [chan EXCEPT ![j] = Append(@, [job |-> j, kind |-> "refused"])]
    /\ closed' = [closed EXCEPT ![j] = TRUE]
    /\ refusing' = [refusing EXCEPT ![j] = FALSE]
    /\ UNCHANGED <<poolVars, monVars, workerVars, queue, jobVars, caller, got, crash>>

CtxDone(j) ==
    /\ j \notin Background
    /\ ~ctxDone[j]
    /\ ctxDone' = [ctxDone EXCEPT ![j] = TRUE]
    /\ UNCHANGED <<poolVars, monVars, workerVars, queue, task, chanVars,
                   callerVars, crash>>

\* The caller's one read of its channel; a closed and drained channel yields
\* the zero JobResult.
Receive(j) ==
    LET c == ChanOf(j) IN
    /\ caller[j] = "waiting"
    /\ \/ /\ chan[c] # <<>>
          /\ got' = [got EXCEPT ![j] = Head(chan[c])]
          /\ chan' = [chan EXCEPT ![c] = Tail(@)]
       \/ /\ chan[c] = <<>> /\ closed[c]
          /\ got' = [got EXCEPT ![j] = ZeroResult]
          /\ UNCHANGED chan
    /\ caller' = [caller EXCEPT ![j] = "answered"]
    /\ UNCHANGED <<poolVars, monVars, workerVars, queue, jobVars, closed,
                   refusing, crash>>

-----------------------------------------------------------------------------
(* Workers, and the goroutine that runs a task.                            *)

TakeJob(w) ==
    /\ pc[w] = "select"
    /\ queue # <<>>
    /\ queue' = Tail(queue)
    /\ holding' = [holding EXCEPT ![w] = Head(queue)]
    /\ task' = [task EXCEPT ![Head(queue)] = "running"]
    /\ pc' = [pc EXCEPT ![w] = "running"]
    /\ UNCHANGED <<poolVars, monVars, wg, active, ctxDone, chanVars, callerVars, crash>>

TaskEndsUnbuffered(j) ==
    /\ task[j] = "running"
    /\ j \notin Hanging
    /\ \E w \in Goroutines : pc[w] = "running" /\ holding[w] = j
    /\ task' = [task EXCEPT ![j] = "ended"]
    /\ UNCHANGED <<poolVars, monVars, workerVars, queue, ctxDone, chanVars,
                   callerVars, crash>>

\* The task returns, fails or panics; the buffer of one of the channel done
\* lets its goroutine end although its worker may have left.
TaskEnds(j) ==
    /\ task[j] = "running"
    /\ task' = [task EXCEPT ![j] = "ended"]
    /\ UNCHANGED <<poolVars, monVars, workerVars, queue, ctxDone, chanVars,
                   callerVars, crash>>

\* The select that sends the result: a closed channel panics, in the send and
\* again in the recovering handler, which ends the worker; a full one drops it.
Send(w, kind) ==
    LET j == holding[w]
        c == ChanOf(j)
    IN  \/ /\ closed[c]
           /\ pc' = [pc EXCEPT ![w] = "leaving"]
           /\ holding' = [holding EXCEPT ![w] = NoJob]
           /\ UNCHANGED chan
        \/ /\ ~closed[c] /\ Len(chan[c]) < Cap(c)
           /\ chan' = [chan EXCEPT ![c] = Append(@, [job |-> j, kind |-> kind])]
           /\ pc' = [pc EXCEPT ![w] = "closing"]
           /\ UNCHANGED holding
        \/ /\ ~closed[c] /\ Len(chan[c]) >= Cap(c)
           /\ pc' = [pc EXCEPT ![w] = "select"]
           /\ holding' = [holding EXCEPT ![w] = NoJob]
           /\ UNCHANGED chan

WorkerGetsTaskEarly(w) ==
    /\ pc[w] = "running"
    /\ Send(w, "task")
    /\ UNCHANGED <<poolVars, monVars, wg, active, queue, jobVars, closed,
                   callerVars, crash>>

WorkerSeesCtxSilently(w) ==
    /\ pc[w] = "running"
    /\ ctxDone[holding[w]]
    /\ pc' = [pc EXCEPT ![w] = "select"]
    /\ holding' = [holding EXCEPT ![w] = NoJob]
    /\ UNCHANGED <<poolVars, monVars, wg, active, queue, jobVars, chanVars,
                   callerVars, crash>>

WorkerIgnoresCtx(w) == FALSE

\* The two branches of the select of processJobSafely.
WorkerGetsTask(w) ==
    /\ pc[w] = "running"
    /\ task[holding[w]] = "ended"
    /\ Send(w, "task")
    /\ UNCHANGED <<poolVars, monVars, wg, active, queue, jobVars, closed,
                   callerVars, crash>>

WorkerSeesCtx(w) ==
    /\ pc[w] = "running"
    /\ ctxDone[holding[w]]
    /\ Send(w, "ctx")
    /\ UNCHANGED <<poolVars, monVars, wg, active, queue, jobVars, closed,
                   callerVars, crash>>

\* close(job.Result): closing a closed channel panics, and so does the send
\* in the handler that recovers it.
CloseResult(w) ==
    LET c == ChanOf(holding[w]) IN
    /\ pc[w] = "closing"
    /\ closed' = [closed EXCEPT ![c] = TRUE]
    /\ pc' = [pc EXCEPT ![w] = IF closed[c] THEN "leaving" ELSE "select"]
    /\ holding' = [holding EXCEPT ![w] = NoJob]
    /\ UNCHANGED <<poolVars, monVars, wg, active, queue, jobVars, chan,
                   callerVars, crash>>

SeeQuitWhileStopping(w) ==
    /\ pc[w] = "select"
    /\ quitClosed /\ stopper = "waiting"
    /\ pc' = [pc EXCEPT ![w] = "leaving"]
    /\ UNCHANGED <<poolVars, monVars, wg, active, holding, queue, jobVars,
                   chanVars, callerVars, crash>>

SeeQuit(w) ==
    /\ pc[w] = "select"
    /\ quitClosed
    /\ pc' = [pc EXCEPT ![w] = "leaving"]
    /\ UNCHANGED <<poolVars, monVars, wg, active, holding, queue, jobVars,
                   chanVars, callerVars, crash>>

\* The deferred function of worker: TrackGoroutineEnd, then wg.Done.
WorkerUntracked(w) ==
    /\ pc[w] = "leaving"
    /\ active' = IF active > 0 THEN active - 1 ELSE active
    /\ pc' = [pc EXCEPT ![w] = "untracked"]
    /\ UNCHANGED <<poolVars, monVars, wg, holding, queue, jobVars, chanVars,
                   callerVars, crash>>

WorkerDone(w) ==
    /\ pc[w] = "untracked"
    /\ wg' = wg - 1
    /\ waiter' = IF wg = 1 /\ waiter = "blocked" THEN "woken" ELSE waiter
    /\ pc' = [pc EXCEPT ![w] = "dead"]
    /\ UNCHANGED <<isRunning, starts, stopper, quitClosed, monVars, active, holding,
                   queue, jobVars, chanVars, callerVars, crash>>

-----------------------------------------------------------------------------
Lifecycle ==
    \/ Start \/ StopBegin \/ WaiterBlocks \/ WaiterReturns
    \/ StopGraceful \/ StopTimeout \/ MonitorExits

CallerStep(j) == Submit(j) \/ Refuse(j) \/ CtxDone(j) \/ Receive(j) \/ TaskEnds(j)

WorkerStep(w) ==
    \/ TakeJob(w) \/ WorkerGetsTask(w) \/ WorkerSeesCtx(w) \/ CloseResult(w)
    \/ SeeQuit(w) \/ WorkerUntracked(w) \/ WorkerDone(w)

Next ==
    /\ crash = "no"
    /\ \/ Lifecycle
       \/ \E j \in Jobs : CallerStep(j)
       \/ \E w \in Goroutines : WorkerStep(w)

Spec == Init /\ [][Next]_vars

(* The Go scheduler runs every goroutine that can run, timers fire, and a  *)
(* caller that holds a channel reads it.  Nothing forces a call of Start,  *)
(* Stop or Submit, nor a context to be done unless it carries a deadline.  *)
(* No sequence of steps comes back to where it was, so that one fairness   *)
(* for all of them says as much as one for each goroutine.                 *)
MustGoOn ==
    \/ \E w \in Goroutines : WorkerStep(w)
    \/ \E j \in Jobs : Refuse(j) \/ Receive(j) \/ CtxDone(j)
    \/ \E j \in Jobs \ Hanging : TaskEnds(j)
    \/ WaiterBlocks \/ WaiterReturns \/ StopGraceful \/ StopTimeout \/ MonitorExits

Fairness == WF_vars(crash = "no" /\ MustGoOn)

LiveSpec == Spec /\ Fairness

-----------------------------------------------------------------------------
(* Type invariant.                                                         *)

PCs == {"unborn", "select", "running", "closing", "leaving", "untracked", "dead"}

\* A worker holds a job between taking it and closing its channel.
HandsMatch ==
    \A w \in Goroutines : pc[w] \in {"running", "closing"} <=> holding[w] \in Jobs

\* The workers that exist are those of the Starts so far.
GenerationsMatch == \A w \in Goroutines : pc[w] = "unborn" <=> w[1] > starts

TypeOK ==
    /\ isRunning \in BOOLEAN
    /\ starts \in 0 .. MaxStarts
    /\ stopper \in {"idle", "waiting"}
    /\ quitClosed \in BOOLEAN
    /\ waiter \in {"none", "starting", "blocked", "woken", "returned"}
    /\ wg \in Int
    /\ active \in Nat
    /\ monLoop \in BOOLEAN
    /\ monCancelled \in BOOLEAN
    /\ queue \in Seq(Jobs)
    /\ Len(queue) <= QueueCap
    /\ pc \in [Goroutines -> PCs]
    /\ holding \in [Goroutines -> Jobs \cup {NoJob}]
    /\ HandsMatch
    /\ GenerationsMatch
    /\ task \in [Jobs -> {"none", "running", "ended"}]
    /\ ctxDone \in [Jobs -> BOOLEAN]
    /\ chan \in [Channels -> Seq(Results)]
    /\ closed \in [Channels -> BOOLEAN]
    /\ caller \in [Jobs -> {"new", "waiting", "refused", "answered"}]
    /\ got \in [Jobs -> Results \cup {Nothing, ZeroResult}]
    /\ refusing \in [Jobs -> BOOLEAN]
    /\ crash \in {"no", "closeOfClosedQuit", "waitGroupReused"}

-----------------------------------------------------------------------------
(* Safety.                                                                 *)

Leaving == {"leaving", "untracked", "dead"}
Alive == {w \in Goroutines : pc[w] \notin {"unborn", "dead"}}
Tracked == {w \in Goroutines : pc[w] \notin {"unborn", "untracked", "dead"}}
OwnJobs == Jobs \ RawJobs

\* The places a job with a channel of its own can be between its submission
\* and the read of its result: the queue, a worker that has not sent, the
\* goroutine that reports the refusal, the channel.
Copies(j) ==
    Cardinality({i \in DOMAIN queue : queue[i] = j})
    + Cardinality({w \in Goroutines : holding[w] = j /\ pc[w] = "running"})
    + (IF refusing[j] THEN 1 ELSE 0)
    + Len(chan[j])

\* A job whose caller waits is in exactly one of these places, any other job
\* in none: no interleaving of submitters, workers, contexts and Stop loses a
\* job or answers it twice (Submit, processJobSafely, pool.go:116-180, 267-294).
ExactlyOneCopy ==
    \A j \in OwnJobs : Copies(j) = IF caller[j] = "waiting" THEN 1 ELSE 0

\* What the caller of j may be told: a result of its own job, never the zero
\* result of a closed channel; a refusal only of a job that never ran, a task
\* result only of a task that ended, a context error only of a done context.
Honest(j, r) ==
    /\ r.job = j
    /\ r.kind = "refused" <=> task[j] = "none"
    /\ r.kind = "task" => task[j] = "ended"
    /\ r.kind = "ctx" => ctxDone[j]

\* Every answer the caller of SubmitTask reads is honest (processJobSafely
\* and SubmitTask, pool.go:134-180, 235-294).
HonestAnswer ==
    \A j \in OwnJobs : caller[j] = "answered" => Honest(j, got[j])

\* The pool keeps all its workers until it is stopped: processing a job, its
\* panics and a full result channel included, never ends the worker ("proper
\* error handling and recovery", pool.go:209).  The one exception is a Result
\* channel that callers share: once a worker closed it, the next send panics,
\* and panics again in the handler that recovers (pool.go:219-229, 284-294).
WorkersSurvive ==
    \A w \in Goroutines : pc[w] \in Leaving => quitClosed \/ closed[SharedCh]

\* Nothing has been sent to the caller of j, and its channel is open.
Unanswered(j) == chan[j] = <<>> /\ ~closed[j] /\ caller[j] # "answered"

QueueInv ==
    \A i \in DOMAIN queue :
        /\ \A k \in DOMAIN queue : queue[i] = queue[k] => i = k
        /\ task[queue[i]] = "none"
        /\ caller[queue[i]] # "new"
        /\ ~refusing[queue[i]]
        /\ queue[i] \in OwnJobs => Unanswered(queue[i])

HandsInv ==
    \A w \in Goroutines : holding[w] \in Jobs =>
        /\ \A v \in Goroutines : holding[v] = holding[w] => v = w
        /\ task[holding[w]] # "none"
        /\ holding[w] \in OwnJobs =>
            /\ ~closed[holding[w]]
            /\ pc[w] = "running" => Unanswered(holding[w])
            /\ caller[holding[w]] = "waiting" /\ pc[w] = "closing" =>
                   chan[holding[w]] # <<>>

RefusalInv ==
    \A j \in Jobs : caller[j] = "new" \/ refusing[j] =>
        /\ ~(caller[j] = "new" /\ refusing[j])
        /\ task[j] = "none"
        /\ j \in OwnJobs => Unanswered(j)

AnswerInv ==
    \A j \in OwnJobs :
        /\ caller[j] = "waiting" /\ closed[j] => chan[j] # <<>>
        /\ \A i \in DOMAIN chan[j] : Honest(j, chan[j][i])
        /\ caller[j] = "answered" => Honest(j, got[j])

\* A job is queued once, run by one worker, or refused, never two of these; a
\* channel of its own is written and closed by whoever has the job, after the
\* job left the queue, so no worker ever meets a channel another one closed
\* (pool.go:116-180, 282-294).
JobsInPlace == QueueInv /\ HandsInv /\ RefusalInv /\ AnswerInv

\* The WaitGroup counts exactly the workers that have not finished, and the
\* monitor's counter those that have not untracked themselves, so its clamp
\* at zero (goroutine_monitor.go:66) never hides a missing decrement.
CountersExact ==
    /\ wg = Cardinality(Alive)
    /\ active = Cardinality(Tracked)

\* When Stop returns because its WaitGroup drained, no worker is left, in the
\* pool or in the monitor's books, and no job is in a worker's hands.
GracefulStopIsClean ==
    [][stopper = "waiting" /\ stopper' = "idle" /\ waiter = "returned"
        => Alive = {} /\ active = 0 /\ \A w \in Goroutines : holding[w] = NoJob]_vars

-----------------------------------------------------------------------------
(* Liveness.                                                               *)

\* A worker whose task never returns and whose context has no deadline: the
\* one case in which processJobSafely never comes back.
Wedged(w) == holding[w] \in Hanging \cap Background

\* A caller that waits is answered unless the pool is stopped, its own job has
\* wedged a worker or every worker is wedged: no worker is blocked for ever by a
\* channel, by a task that never returns but whose context has a deadline, or by
\* another job (pool.go:209-310).
AnsweredWhileRunning ==
    <>[](isRunning => \A j \in OwnJobs : caller[j] = "waiting" =>
            \/ \E w \in Alive : holding[w] = j /\ Wedged(w)
            \/ Alive # {} /\ \A w \in Alive : Wedged(w))

\* After Stop closed quit every worker that is not wedged ends, also those of
\* a Stop that timed out.  The goroutine of a task that returns ends, also when
\* its worker left it because the context was done first (the buffer of done,
\* pool.go:242).
NothingLeftBehind ==
    <>[](crash = "no" =>
            /\ quitClosed => \A w \in Alive : Wedged(w)
            /\ \A j \in Jobs \ Hanging : task[j] # "running")

-----------------------------------------------------------------------------
(* Refinement: the pool implements the service for the jobs of SubmitTask. *)

RefusedSoFar(j) ==
    \/ refusing[j]
    \/ got[j].kind = "refused"
    \/ \E i \in DOMAIN chan[j] : chan[j][i].kind = "refused"

Service == INSTANCE JobService WITH
    Jobs <- OwnJobs,
    open <- isRunning,
    verdict <- [j \in OwnJobs |->
        IF caller[j] = "new" THEN "none"
        ELSE IF RefusedSoFar(j) THEN "refused" ELSE "accepted"],
    executed <- [j \in OwnJobs |-> task[j] # "none"],
    answer <- [j \in OwnJobs |->
        IF got[j].kind = "nothing" THEN "none" ELSE got[j].kind]

ImplementsService == Service!Spec

=============================================================================

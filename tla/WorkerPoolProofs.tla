-------------------------- MODULE WorkerPoolProofs --------------------------
(***************************************************************************)
(* Theorems about WorkerPool, for every number of workers, jobs and        *)
(* restarts.                                                               *)
(***************************************************************************)
EXTENDS WorkerPool, TLAPS, FiniteSetTheorems

\* The pool has at least one worker, whatever NewWorkerPool was given
\* (pool.go:43-45).
LEMMA SizePositive == Size \in Nat \ {0}
BY RequestedAssumption DEF Size

\* Facts about the constants that every step needs.
LEMMA ChanOfType == \A j \in Jobs : ChanOf(j) \in Channels
BY DEF ChanOf, Channels

LEMMA ResultType ==
    ASSUME NEW j \in Jobs, NEW kind \in {"task", "ctx", "refused"}
    PROVE  [job |-> j, kind |-> kind] \in Results
BY DEF Results

LEMMA TypeInit == Init => TypeOK
<1> SUFFICES ASSUME Init PROVE TypeOK
  OBVIOUS
<1> USE DEF Init
<1>1. isRunning \in BOOLEAN /\ quitClosed \in BOOLEAN /\ monLoop \in BOOLEAN
      /\ monCancelled \in BOOLEAN
  OBVIOUS
<1>2. /\ starts \in 0 .. MaxStarts /\ wg \in Int /\ active \in Nat
  BY BoundsAssumption
<1>3. queue \in Seq(Jobs) /\ Len(queue) <= QueueCap
  BY SizePositive DEF QueueCap
<1>4. /\ pc \in [Goroutines -> PCs]
      /\ holding \in [Goroutines -> Jobs \cup {NoJob}]
      /\ HandsMatch /\ GenerationsMatch
  BY JobsAssumption, SizePositive, BoundsAssumption
     DEF PCs, HandsMatch, GenerationsMatch, Goroutines
<1>5. /\ task \in [Jobs -> {"none", "running", "ended"}]
      /\ caller \in [Jobs -> {"new", "waiting", "refused", "answered"}]
      /\ got \in [Jobs -> Results \cup {Nothing, ZeroResult}]
  OBVIOUS
<1>6. ctxDone \in [Jobs -> BOOLEAN] /\ refusing \in [Jobs -> BOOLEAN]
      /\ closed \in [Channels -> BOOLEAN]
  OBVIOUS
<1>7. chan \in [Channels -> Seq(Results)]
  OBVIOUS
<1> QED
  BY <1>1, <1>2, <1>3, <1>4, <1>5, <1>6, <1>7 DEF TypeOK

LEMMA GoroutineIndex == \A w \in Goroutines : w[1] \in Nat
BY BoundsAssumption, SizePositive DEF Goroutines

LEMMA TypeStep == TypeOK /\ [Next]_vars => TypeOK'
<1> SUFFICES ASSUME TypeOK, [Next]_vars PROVE TypeOK'
  OBVIOUS
<1> USE SizePositive, JobsAssumption, BoundsAssumption
<1>nat. starts \in 0 .. MaxStarts /\ wg \in Int /\ active \in Nat
  BY DEF TypeOK
<1>queue. queue \in Seq(Jobs) /\ Len(queue) <= QueueCap
  BY DEF TypeOK
<1>chan. chan \in [Channels -> Seq(Results)] /\ got \in [Jobs -> Results \cup {Nothing, ZeroResult}]
  BY DEF TypeOK
<1>pc. pc \in [Goroutines -> PCs] /\ holding \in [Goroutines -> Jobs \cup {NoJob}]
  BY DEF TypeOK
<1>hands. /\ \A w \in Goroutines : pc[w] \in {"running", "closing"} <=> holding[w] \in Jobs
          /\ \A w \in Goroutines : pc[w] = "unborn" <=> w[1] > starts
  BY DEF TypeOK, HandsMatch, GenerationsMatch
<1>1. CASE Start
  <2>1. pc' \in [Goroutines -> PCs]
    BY <1>1 DEF Start, PCs, TypeOK
  <2>2. ASSUME NEW w \in Goroutines
        PROVE  /\ (pc[w] \in {"running", "closing"} <=> holding[w] \in Jobs)'
               /\ (pc[w] = "unborn" <=> w[1] > starts)'
    <3>1. w[1] \in Nat /\ starts \in Nat
      BY GoroutineIndex, <1>nat
    <3>2. /\ pc[w] \in {"running", "closing"} <=> holding[w] \in Jobs
          /\ pc[w] = "unborn" <=> w[1] > starts
          /\ pc'[w] = IF w[1] = starts + 1 THEN "select" ELSE pc[w]
          /\ holding' = holding /\ starts' = starts + 1
      BY <1>1, <1>hands, <1>pc DEF Start
    <3> QED
      BY <3>1, <3>2
  <2>3. /\ isRunning' \in BOOLEAN /\ monLoop' \in BOOLEAN
        /\ starts' \in 0 .. MaxStarts /\ wg' \in Int /\ active' \in Nat
    BY <1>1, <1>nat DEF Start
  <2>4. UNCHANGED <<stopper, quitClosed, waiter, monCancelled, holding,
     queue, task, ctxDone, chan, closed, caller, got, refusing, crash>>
    BY <1>1 DEF Start, jobVars, chanVars, callerVars
  <2> QED
    BY <2>1, <2>2, <2>3, <2>4 DEF TypeOK, HandsMatch, GenerationsMatch
<1>2. CASE StopBegin
  BY <1>2 DEF StopBegin, TypeOK, HandsMatch, GenerationsMatch, poolVars, monVars, workerVars, jobVars, chanVars, callerVars
<1>3. CASE WaiterBlocks
  BY <1>3 DEF WaiterBlocks, TypeOK, HandsMatch, GenerationsMatch, poolVars, monVars, workerVars, jobVars, chanVars, callerVars
<1>4. CASE WaiterReturns
  BY <1>4 DEF WaiterReturns, TypeOK, HandsMatch, GenerationsMatch, poolVars, monVars, workerVars, jobVars, chanVars, callerVars
<1>5. CASE StopGraceful
  BY <1>5 DEF StopGraceful, FinishStop, TypeOK, HandsMatch, GenerationsMatch, poolVars, monVars, workerVars, jobVars, chanVars, callerVars
<1>6. CASE StopTimeout
  BY <1>6 DEF StopTimeout, FinishStop, TypeOK, HandsMatch, GenerationsMatch, poolVars, monVars, workerVars, jobVars, chanVars, callerVars
<1>7. CASE MonitorExits
  BY <1>7 DEF MonitorExits, TypeOK, HandsMatch, GenerationsMatch, poolVars, monVars, workerVars, jobVars, chanVars, callerVars
<1>8. ASSUME NEW j \in Jobs, Submit(j) PROVE TypeOK'
  <2>1. queue' \in Seq(Jobs) /\ Len(queue') <= QueueCap
    BY <1>8, <1>queue DEF Submit, Accepts, QueueCap
  <2>2. caller' \in [Jobs -> {"new", "waiting", "refused", "answered"}]
    BY <1>8 DEF Submit, TypeOK
  <2>3. refusing' \in [Jobs -> BOOLEAN]
    BY <1>8 DEF Submit, TypeOK
  <2>4. UNCHANGED <<isRunning, starts, stopper, quitClosed, waiter, monLoop,
     monCancelled, pc, holding, wg, active, task, ctxDone, chan, closed,
     got, crash>>
    BY <1>8 DEF Submit, poolVars, monVars, workerVars, jobVars, chanVars, callerVars
  <2> QED
    BY <2>1, <2>2, <2>3, <2>4 DEF TypeOK, HandsMatch, GenerationsMatch
<1>9. ASSUME NEW j \in Jobs, Refuse(j) PROVE TypeOK'
  <2>1. [job |-> j, kind |-> "refused"] \in Results
    BY ResultType
  <2>2. chan' \in [Channels -> Seq(Results)]
    <3> DEFINE r == [job |-> j, kind |-> "refused"]
    <3>1. chan' = [chan EXCEPT ![j] = Append(chan[j], r)] /\ j \in Channels
      BY <1>9 DEF Refuse, Channels
    <3>2. r \in Results
      BY <2>1
    <3> HIDE DEF r
    <3>3. Append(chan[j], r) \in Seq(Results)
      BY <1>chan, <3>1, <3>2
    <3> QED
      BY <1>chan, <3>1, <3>3
  <2>3. closed' \in [Channels -> BOOLEAN] /\ refusing' \in [Jobs -> BOOLEAN]
    BY <1>9 DEF Refuse, TypeOK
  <2>4. UNCHANGED <<isRunning, starts, stopper, quitClosed, waiter, monLoop,
     monCancelled, pc, holding, wg, active, queue, task, ctxDone, caller,
     got, crash>>
    BY <1>9 DEF Refuse, poolVars, monVars, workerVars, jobVars, chanVars, callerVars
  <2> QED
    BY <2>1, <2>2, <2>3, <2>4 DEF TypeOK, HandsMatch, GenerationsMatch
<1>10. ASSUME NEW j \in Jobs, CtxDone(j) PROVE TypeOK'
  <2>1. ctxDone' \in [Jobs -> BOOLEAN]
    BY <1>10 DEF CtxDone, TypeOK
  <2>2. UNCHANGED <<isRunning, starts, stopper, quitClosed, waiter, monLoop,
     monCancelled, pc, holding, wg, active, queue, task, chan, closed,
     caller, got, refusing, crash>>
    BY <1>10 DEF CtxDone, poolVars, monVars, workerVars, jobVars, chanVars, callerVars
  <2> QED
    BY <2>1, <2>2 DEF TypeOK, HandsMatch, GenerationsMatch
<1>11. ASSUME NEW j \in Jobs, Receive(j) PROVE TypeOK'
  <2>1. ChanOf(j) \in Channels
    BY ChanOfType
  <2>2. got' \in [Jobs -> Results \cup {Nothing, ZeroResult}]
    BY <1>11, <1>chan, <2>1 DEF Receive
  <2>3. chan' \in [Channels -> Seq(Results)]
    <3> DEFINE c == ChanOf(j)
    <3>1. \/ chan' = chan
          \/ chan' = [chan EXCEPT ![c] = Tail(chan[c])] /\ chan[c] # <<>>
      BY <1>11 DEF Receive
    <3>2. c \in Channels
      BY <2>1
    <3> HIDE DEF c
    <3>3. chan[c] # <<>> => Tail(chan[c]) \in Seq(Results)
      BY <1>chan, <3>2
    <3> QED
      BY <1>chan, <3>1, <3>2, <3>3
  <2>4. caller' \in [Jobs -> {"new", "waiting", "refused", "answered"}]
    BY <1>11 DEF Receive, TypeOK
  <2>5. UNCHANGED <<isRunning, starts, stopper, quitClosed, waiter, monLoop,
     monCancelled, pc, holding, wg, active, queue, task, ctxDone, closed,
     refusing, crash>>
    BY <1>11 DEF Receive, poolVars, monVars, workerVars, jobVars, chanVars, callerVars
  <2> QED
    BY <2>1, <2>2, <2>3, <2>4, <2>5 DEF TypeOK, HandsMatch, GenerationsMatch
<1>12. ASSUME NEW j \in Jobs, TaskEnds(j) PROVE TypeOK'
  <2>1. task' \in [Jobs -> {"none", "running", "ended"}]
    BY <1>12 DEF TaskEnds, TypeOK
  <2>2. UNCHANGED <<isRunning, starts, stopper, quitClosed, waiter, monLoop,
     monCancelled, pc, holding, wg, active, queue, ctxDone, chan, closed,
     caller, got, refusing, crash>>
    BY <1>12 DEF TaskEnds, poolVars, monVars, workerVars, jobVars, chanVars, callerVars
  <2> QED
    BY <2>1, <2>2 DEF TypeOK, HandsMatch, GenerationsMatch
<1>13. ASSUME NEW w \in Goroutines, TakeJob(w) PROVE TypeOK'
  <2>1. Head(queue) \in Jobs /\ queue' \in Seq(Jobs) /\ Len(queue') <= QueueCap
    BY <1>13, <1>queue DEF TakeJob, QueueCap
  <2>2. /\ pc' \in [Goroutines -> PCs]
        /\ holding' \in [Goroutines -> Jobs \cup {NoJob}]
        /\ task' \in [Jobs -> {"none", "running", "ended"}]
    BY <1>13, <2>1 DEF TakeJob, PCs, TypeOK
  <2>3. HandsMatch' /\ GenerationsMatch'
    BY <1>13, <1>pc, <1>hands, <2>1 DEF TakeJob, HandsMatch, GenerationsMatch, poolVars
  <2>4. UNCHANGED <<isRunning, starts, stopper, quitClosed, waiter, monLoop,
     monCancelled, wg, active, ctxDone, chan, closed, caller, got, refusing,
     crash>>
    BY <1>13 DEF TakeJob, poolVars, monVars, workerVars, jobVars, chanVars, callerVars
  <2> QED
    BY <2>1, <2>2, <2>3, <2>4 DEF TypeOK, HandsMatch, GenerationsMatch
<1>14. ASSUME NEW w \in Goroutines, NEW kind \in {"task", "ctx"},
              pc[w] = "running", Send(w, kind), starts' = starts
       PROVE  /\ pc' \in [Goroutines -> PCs]
              /\ holding' \in [Goroutines -> Jobs \cup {NoJob}]
              /\ chan' \in [Channels -> Seq(Results)]
              /\ HandsMatch' /\ GenerationsMatch'
  <2>1. holding[w] \in Jobs
    BY <1>14 DEF TypeOK, HandsMatch
  <2>2. ChanOf(holding[w]) \in Channels
    BY <2>1, ChanOfType
  <2>3. [job |-> holding[w], kind |-> kind] \in Results
    BY <2>1, ResultType
  <2>4. pc' \in [Goroutines -> PCs] /\ holding' \in [Goroutines -> Jobs \cup {NoJob}]
    BY <1>14 DEF Send, PCs, TypeOK
  <2>5. chan' \in [Channels -> Seq(Results)]
    <3> DEFINE c == ChanOf(holding[w])
               r == [job |-> holding[w], kind |-> kind]
    <3>1. c \in Channels /\ r \in Results
      BY <2>2, <2>3
    <3>2. chan' = [chan EXCEPT ![c] = Append(chan[c], r)] \/ chan' = chan
      BY <1>14 DEF Send
    <3> HIDE DEF c, r
    <3>3. Append(chan[c], r) \in Seq(Results)
      BY <1>chan, <3>1
    <3> QED
      BY <1>chan, <3>1, <3>2, <3>3
  <2>6. HandsMatch' /\ GenerationsMatch'
    BY <1>14, <1>pc, <1>hands, <2>1 DEF Send, HandsMatch, GenerationsMatch
  <2> QED
    BY <2>4, <2>5, <2>6
<1>15. ASSUME NEW w \in Goroutines, WorkerGetsTask(w) \/ WorkerSeesCtx(w) PROVE TypeOK'
  <2>1. PICK kind \in {"task", "ctx"} : Send(w, kind)
    BY <1>15 DEF WorkerGetsTask, WorkerSeesCtx
  <2>2. pc[w] = "running" /\ starts' = starts
    BY <1>15 DEF WorkerGetsTask, WorkerSeesCtx, poolVars
  <2>3. /\ pc' \in [Goroutines -> PCs]
        /\ holding' \in [Goroutines -> Jobs \cup {NoJob}]
        /\ chan' \in [Channels -> Seq(Results)]
        /\ HandsMatch' /\ GenerationsMatch'
    BY <1>14, <2>1, <2>2
  <2>4. UNCHANGED <<isRunning, starts, stopper, quitClosed, waiter, monLoop,
     monCancelled, wg, active, queue, task, ctxDone, closed, caller, got,
     refusing, crash>>
    BY <1>15 DEF WorkerGetsTask, WorkerSeesCtx, poolVars, monVars, workerVars, jobVars, chanVars, callerVars
  <2> QED
    BY <2>3, <2>4 DEF TypeOK, HandsMatch, GenerationsMatch
<1>16. ASSUME NEW w \in Goroutines, CloseResult(w) PROVE TypeOK'
  <2>1. /\ pc' \in [Goroutines -> PCs]
        /\ holding' \in [Goroutines -> Jobs \cup {NoJob}]
        /\ closed' \in [Channels -> BOOLEAN]
    BY <1>16 DEF CloseResult, PCs, TypeOK
  <2>2. HandsMatch' /\ GenerationsMatch'
    BY <1>16 DEF CloseResult, poolVars, TypeOK, HandsMatch, GenerationsMatch
  <2>3. UNCHANGED <<isRunning, starts, stopper, quitClosed, waiter, monLoop,
     monCancelled, wg, active, queue, task, ctxDone, chan, caller, got,
     refusing, crash>>
    BY <1>16 DEF CloseResult, poolVars, monVars, workerVars, jobVars, chanVars, callerVars
  <2> QED
    BY <2>1, <2>2, <2>3 DEF TypeOK, HandsMatch, GenerationsMatch
<1>17. ASSUME NEW w \in Goroutines, SeeQuit(w) PROVE TypeOK'
  <2>1. /\ pc' \in [Goroutines -> PCs]
        /\ HandsMatch' /\ GenerationsMatch'
    BY <1>17 DEF SeeQuit, PCs, poolVars, TypeOK, HandsMatch, GenerationsMatch
  <2>2. UNCHANGED <<isRunning, starts, stopper, quitClosed, waiter, monLoop,
     monCancelled, holding, wg, active, queue, task, ctxDone, chan, closed,
     caller, got, refusing, crash>>
    BY <1>17 DEF SeeQuit, poolVars, monVars, workerVars, jobVars, chanVars, callerVars
  <2> QED
    BY <2>1, <2>2 DEF TypeOK, HandsMatch, GenerationsMatch
<1>18. ASSUME NEW w \in Goroutines, WorkerUntracked(w) PROVE TypeOK'
  <2>1. active' \in Nat
    BY <1>18, <1>nat DEF WorkerUntracked
  <2>2. /\ pc' \in [Goroutines -> PCs]
        /\ HandsMatch' /\ GenerationsMatch'
    BY <1>18 DEF WorkerUntracked, PCs, poolVars, TypeOK, HandsMatch, GenerationsMatch
  <2>3. UNCHANGED <<isRunning, starts, stopper, quitClosed, waiter, monLoop,
     monCancelled, holding, wg, queue, task, ctxDone, chan, closed, caller,
     got, refusing, crash>>
    BY <1>18 DEF WorkerUntracked, poolVars, monVars, workerVars, jobVars, chanVars, callerVars
  <2> QED
    BY <2>1, <2>2, <2>3 DEF TypeOK, HandsMatch, GenerationsMatch
<1>19. ASSUME NEW w \in Goroutines, WorkerDone(w) PROVE TypeOK'
  <2>0. wg \in Int /\ waiter \in {"none", "starting", "blocked", "woken", "returned"}
    BY DEF TypeOK
  <2>1. /\ pc' \in [Goroutines -> PCs]
        /\ HandsMatch' /\ GenerationsMatch'
    BY <1>19 DEF WorkerDone, PCs, poolVars, TypeOK, HandsMatch, GenerationsMatch
  <2>2. wg' \in Int /\ waiter' \in {"none", "starting", "blocked", "woken", "returned"}
    BY <1>19, <2>0 DEF WorkerDone
  <2>3. UNCHANGED <<isRunning, starts, stopper, quitClosed, monLoop,
     monCancelled, holding, active, queue, task, ctxDone, chan, closed,
     caller, got, refusing, crash>>
    BY <1>19 DEF WorkerDone, poolVars, monVars, workerVars, jobVars, chanVars, callerVars
  <2> QED
    BY <2>1, <2>2, <2>3 DEF TypeOK, HandsMatch, GenerationsMatch
<1>20. CASE UNCHANGED vars
  BY <1>20 DEF vars, TypeOK, HandsMatch, GenerationsMatch, poolVars, monVars, workerVars, jobVars, chanVars, callerVars
<1> QED
  BY <1>1, <1>2, <1>3, <1>4, <1>5, <1>6, <1>7, <1>8, <1>9, <1>10, <1>11, <1>12,
     <1>13, <1>15, <1>16, <1>17, <1>18, <1>19, <1>20
     DEF Next, Lifecycle, CallerStep, WorkerStep

\* Type correctness of every reachable state of the pool.
THEOREM TypeCorrect == Spec => []TypeOK
<1>1. Init => TypeOK
  BY TypeInit
<1>2. TypeOK /\ [Next]_vars => TypeOK'
  BY TypeStep
<1> QED
  BY <1>1, <1>2, PTL DEF Spec

-----------------------------------------------------------------------------
(* The jobs.  JobsInPlace is inductive given TypeOK; HonestAnswer is one   *)
(* of its conjuncts, and WorkersSurvive follows from it.                   *)

\* What the handlers do to a channel or to the queue.
LEMMA AppendFacts ==
    ASSUME NEW S, NEW s \in Seq(S), NEW e \in S
    PROVE  /\ DOMAIN Append(s, e) = 1 .. Len(s) + 1
           /\ DOMAIN s = 1 .. Len(s) /\ Len(s) \in Nat
           /\ \A i \in DOMAIN s : Append(s, e)[i] = s[i]
           /\ Append(s, e)[Len(s) + 1] = e
           /\ Append(s, e) # <<>>
OBVIOUS

LEMMA TailFacts ==
    ASSUME NEW S, NEW s \in Seq(S), s # <<>>
    PROVE  /\ Len(s) \in Nat \ {0} /\ DOMAIN s = 1 .. Len(s)
           /\ DOMAIN Tail(s) = 1 .. Len(s) - 1
           /\ Head(s) = s[1] /\ 1 \in DOMAIN s
           /\ \A i \in DOMAIN Tail(s) : Tail(s)[i] = s[i + 1] /\ i + 1 \in DOMAIN s
OBVIOUS

\* An answer appended to the empty channel of a job of its own.
LEMMA OneElement ==
    ASSUME NEW S, NEW e \in S
    PROVE  Append(<<>>, e) # <<>> /\ Len(Append(<<>>, e)) = 1
OBVIOUS

LEMMA JobsInit == Init => JobsInPlace
<1> SUFFICES ASSUME Init PROVE JobsInPlace
  OBVIOUS
<1>1. QueueInv
  BY DEF Init, QueueInv
<1>2. HandsInv
  BY JobsAssumption DEF Init, HandsInv
<1>3. RefusalInv /\ AnswerInv
  BY DEF Init, RefusalInv, AnswerInv, Unanswered, OwnJobs, Channels
<1> QED
  BY <1>1, <1>2, <1>3 DEF JobsInPlace

\* Steps of Start, Stop and the monitor, and of workers without a job.
LEMMA JobsUntouched ==
    ASSUME JobsInPlace,
           UNCHANGED <<queue, holding, jobVars, chanVars, callerVars>>,
           \A w \in Goroutines : holding[w] \in Jobs => pc'[w] = pc[w]
    PROVE  JobsInPlace'
<1>1. UNCHANGED <<queue, holding, task, ctxDone, chan, closed, caller, got, refusing>>
  BY DEF jobVars, chanVars, callerVars
<1>2. QueueInv'
  BY <1>1 DEF JobsInPlace, QueueInv, Unanswered
<1>3. HandsInv'
  BY <1>1 DEF JobsInPlace, HandsInv, Unanswered
<1>4. RefusalInv'
  BY <1>1 DEF JobsInPlace, RefusalInv, Unanswered
<1>5. AnswerInv'
  BY <1>1 DEF JobsInPlace, AnswerInv, Honest
<1> QED
  BY <1>2, <1>3, <1>4, <1>5 DEF JobsInPlace

LEMMA JobsStep == TypeOK /\ JobsInPlace /\ [Next]_vars => JobsInPlace'
<1> SUFFICES ASSUME TypeOK, JobsInPlace, [Next]_vars PROVE JobsInPlace'
  OBVIOUS
<1> USE JobsAssumption
<1>inv. QueueInv /\ HandsInv /\ RefusalInv /\ AnswerInv
  BY DEF JobsInPlace
<1>type. /\ queue \in Seq(Jobs)
         /\ task \in [Jobs -> {"none", "running", "ended"}]
         /\ ctxDone \in [Jobs -> BOOLEAN] /\ refusing \in [Jobs -> BOOLEAN]
         /\ chan \in [Channels -> Seq(Results)] /\ closed \in [Channels -> BOOLEAN]
         /\ caller \in [Jobs -> {"new", "waiting", "refused", "answered"}]
         /\ got \in [Jobs -> Results \cup {Nothing, ZeroResult}]
         /\ pc \in [Goroutines -> PCs]
         /\ holding \in [Goroutines -> Jobs \cup {NoJob}]
  BY DEF TypeOK
<1>hands. \A w \in Goroutines : pc[w] \in {"running", "closing"} <=> holding[w] \in Jobs
  BY DEF TypeOK, HandsMatch
<1>born. \A w \in Goroutines : pc[w] = "unborn" <=> w[1] > starts
  BY DEF TypeOK, GenerationsMatch
<1>own. /\ OwnJobs \subseteq Jobs /\ OwnJobs \subseteq Channels
        /\ \A j \in OwnJobs : ChanOf(j) = j /\ Cap(j) = 1
        /\ \A j \in Jobs \ OwnJobs : ChanOf(j) = SharedCh
        /\ SharedCh \notin OwnJobs
        /\ \A j \in Jobs : j \in Channels
  BY DEF OwnJobs, Channels, ChanOf, Cap
<1>queue. DOMAIN queue = 1 .. Len(queue) /\ Len(queue) \in Nat
          /\ \A i \in DOMAIN queue : queue[i] \in Jobs
  BY <1>type
<1>1. CASE Start
  <2>1. \A w \in Goroutines : holding[w] \in Jobs => pc'[w] = pc[w]
    <3> SUFFICES ASSUME NEW w \in Goroutines, holding[w] \in Jobs PROVE pc'[w] = pc[w]
      OBVIOUS
    <3>0. pc[w] # "unborn"
      BY <1>hands
    <3>1. w[1] \in Nat /\ starts \in 0 .. MaxStarts
      BY GoroutineIndex DEF TypeOK
    <3>2. ~(w[1] > starts)
      BY <3>0, <1>born
    <3> QED
      BY <1>1, <3>1, <3>2, <1>type, BoundsAssumption DEF Start
  <2> QED
    BY <1>1, <2>1, JobsUntouched DEF Start
<1>2. CASE StopBegin \/ WaiterBlocks \/ WaiterReturns \/ StopGraceful \/ StopTimeout \/ MonitorExits
  BY <1>2, JobsUntouched
     DEF StopBegin, WaiterBlocks, WaiterReturns, StopGraceful, StopTimeout, FinishStop,
         MonitorExits, workerVars
<1>3. ASSUME NEW w \in Goroutines, SeeQuit(w) \/ WorkerUntracked(w) \/ WorkerDone(w)
      PROVE  JobsInPlace'
  <2>1. \A v \in Goroutines : holding[v] \in Jobs => pc'[v] = pc[v]
    BY <1>3, <1>hands, <1>type DEF SeeQuit, WorkerUntracked, WorkerDone
  <2> QED
    BY <1>3, <2>1, JobsUntouched DEF SeeQuit, WorkerUntracked, WorkerDone
<1>4. CASE UNCHANGED vars
  BY <1>4, JobsUntouched DEF vars, workerVars
<1>5. ASSUME NEW j \in Jobs, Submit(j) PROVE JobsInPlace'
  <2>1. /\ caller[j] = "new" /\ task[j] = "none" /\ ~refusing[j]
        /\ j \in OwnJobs => Unanswered(j)
    BY <1>5, <1>inv DEF Submit, RefusalInv
  <2>2. UNCHANGED <<pc, holding, task, ctxDone, chan, closed, got>>
    BY <1>5 DEF Submit, workerVars, jobVars, chanVars
  <2>3. \/ queue' = Append(queue, j) /\ refusing' = refusing
           /\ caller' = [caller EXCEPT ![j] = "waiting"]
        \/ /\ queue' = queue /\ refusing' = [refusing EXCEPT ![j] = j \notin RawJobs]
           /\ \E x \in {"waiting", "refused"} : caller' = [caller EXCEPT ![j] = x]
           /\ j \notin RawJobs => caller' = [caller EXCEPT ![j] = "waiting"]
    BY <1>5 DEF Submit
  <2>4. \A i \in DOMAIN queue : queue[i] # j
    BY <1>inv, <2>1 DEF QueueInv
  <2>5. \A k \in Jobs : k # j => caller'[k] = caller[k] /\ refusing'[k] = refusing[k]
    BY <2>3, <1>type
  <2>6. caller'[j] \in {"waiting", "refused"}
    BY <2>3, <1>type
  <2>7. QueueInv'
    <3>1. CASE queue' = Append(queue, j) /\ refusing' = refusing
      <4>1. /\ DOMAIN queue' = 1 .. Len(queue) + 1
            /\ \A i \in DOMAIN queue : queue'[i] = queue[i]
            /\ queue'[Len(queue) + 1] = j
        BY <3>1, <1>type, AppendFacts
      <4>2. \A i \in DOMAIN queue' : i \in DOMAIN queue \/ i = Len(queue) + 1
        BY <4>1, <1>queue
      <4>3. Len(queue) + 1 \notin DOMAIN queue
        BY <1>queue
      <4>4. \A i, k \in DOMAIN queue' : queue'[i] = queue'[k] => i = k
        BY <4>1, <4>2, <4>3, <2>4, <1>inv DEF QueueInv
      <4>5. \A i \in DOMAIN queue' :
              /\ task'[queue'[i]] = "none"
              /\ caller'[queue'[i]] # "new"
              /\ ~refusing'[queue'[i]]
              /\ queue'[i] \in OwnJobs => Unanswered(queue[i])'
        BY <4>1, <4>2, <3>1, <2>1, <2>2, <2>4, <2>5, <2>6, <1>inv, <1>queue
           DEF QueueInv, Unanswered
      <4> QED
        BY <4>4, <4>5 DEF QueueInv
    <3>2. CASE queue' = queue
      BY <3>2, <2>2, <2>4, <2>5, <1>inv, <1>queue DEF QueueInv, Unanswered
    <3> QED
      BY <2>3, <3>1, <3>2
  <2>8. HandsInv'
    BY <2>1, <2>2, <2>5, <1>inv, <1>own DEF HandsInv, Unanswered
  <2>9. RefusalInv'
    BY <2>1, <2>2, <2>3, <2>5, <2>6, <1>inv, <1>type DEF RefusalInv, Unanswered
  <2>10. AnswerInv'
    BY <2>1, <2>2, <2>5, <2>6, <1>inv, <1>own DEF AnswerInv, Honest, Unanswered
  <2> QED
    BY <2>7, <2>8, <2>9, <2>10 DEF JobsInPlace
<1>6. ASSUME NEW j \in Jobs, Refuse(j) PROVE JobsInPlace'
  <2> DEFINE r == [job |-> j, kind |-> "refused"]
  <2>1. /\ refusing[j] /\ task[j] = "none" /\ caller[j] # "new"
        /\ j \in OwnJobs => Unanswered(j)
    BY <1>6, <1>inv DEF Refuse, RefusalInv
  <2>2. UNCHANGED <<queue, pc, holding, task, ctxDone, caller, got>>
    BY <1>6 DEF Refuse, workerVars, jobVars
  <2>3. r \in Results /\ r.job = j /\ r.kind = "refused"
    BY ResultType
  <2>4. /\ chan' = [chan EXCEPT ![j] = Append(chan[j], r)]
        /\ closed' = [closed EXCEPT ![j] = TRUE]
        /\ refusing' = [refusing EXCEPT ![j] = FALSE]
    BY <1>6 DEF Refuse
  <2> HIDE DEF r
  <2>5. /\ \A k \in Jobs : k # j => /\ chan'[k] = chan[k] /\ closed'[k] = closed[k]
                                    /\ refusing'[k] = refusing[k]
        /\ chan'[j] = Append(chan[j], r) /\ closed'[j] = TRUE /\ ~refusing'[j]
    BY <2>4, <1>type, <1>own
  <2>6. \A i \in DOMAIN queue : queue[i] # j
    BY <1>inv, <2>1 DEF QueueInv
  <2>7. \A w \in Goroutines : holding[w] # j
    BY <1>inv, <2>1 DEF HandsInv
  <2>8. QueueInv'
    BY <2>2, <2>5, <2>6, <1>inv, <1>queue DEF QueueInv, Unanswered
  <2>9. HandsInv'
    BY <2>2, <2>5, <2>7, <1>inv DEF HandsInv, Unanswered
  <2>10. RefusalInv'
    BY <2>1, <2>2, <2>5, <1>inv DEF RefusalInv, Unanswered
  <2>11. AnswerInv'
    <3> SUFFICES ASSUME NEW k \in OwnJobs
                 PROVE  /\ (caller[k] = "waiting" /\ closed[k] => chan[k] # <<>>)'
                        /\ \A i \in DOMAIN chan'[k] : Honest(k, chan[k][i])'
                        /\ (caller[k] = "answered" => Honest(k, got[k]))'
      BY DEF AnswerInv
    <3>1. CASE k # j
      BY <3>1, <2>2, <2>5, <1>inv, <1>own DEF AnswerInv, Honest
    <3>2. CASE k = j
      <4>1. chan[j] \in Seq(Results) /\ chan[j] = <<>> /\ caller[j] # "answered"
        BY <3>2, <2>1, <1>type, <1>own DEF Unanswered
      <4>2. chan'[j] # <<>> /\ \A i \in DOMAIN chan'[j] : chan'[j][i] = r
        BY <4>1, <2>3, <2>5
      <4> QED
        BY <3>2, <4>1, <4>2, <2>1, <2>2, <2>3 DEF Honest
    <3> QED
      BY <3>1, <3>2
  <2> QED
    BY <2>8, <2>9, <2>10, <2>11 DEF JobsInPlace
<1>7. ASSUME NEW j \in Jobs, CtxDone(j) PROVE JobsInPlace'
  <2>1. /\ ctxDone' = [ctxDone EXCEPT ![j] = TRUE]
        /\ UNCHANGED <<queue, pc, holding, task, chan, closed, caller, got, refusing>>
    BY <1>7 DEF CtxDone, workerVars, chanVars, callerVars
  <2>2. \A k \in Jobs : ctxDone[k] => ctxDone'[k]
    BY <2>1, <1>type
  <2>3. QueueInv' /\ RefusalInv'
    BY <2>1, <1>inv DEF QueueInv, RefusalInv, Unanswered
  <2>4. HandsInv'
    BY <2>1, <1>inv DEF HandsInv, Unanswered
  <2>5. AnswerInv'
    BY <2>1, <2>2, <1>inv, <1>own DEF AnswerInv, Honest
  <2> QED
    BY <2>3, <2>4, <2>5 DEF JobsInPlace
<1>8. ASSUME NEW j \in Jobs, TaskEnds(j) PROVE JobsInPlace'
  <2>1. /\ task[j] = "running" /\ task' = [task EXCEPT ![j] = "ended"]
        /\ UNCHANGED <<queue, pc, holding, ctxDone, chan, closed, caller, got, refusing>>
    BY <1>8 DEF TaskEnds, workerVars, chanVars, callerVars
  <2>2. /\ \A k \in Jobs : k # j => task'[k] = task[k]
        /\ task'[j] = "ended"
    BY <2>1, <1>type
  <2>3. QueueInv'
    BY <2>1, <2>2, <1>inv, <1>queue DEF QueueInv, Unanswered
  <2>4. HandsInv'
    BY <2>1, <2>2, <1>inv DEF HandsInv, Unanswered
  <2>5. RefusalInv'
    BY <2>1, <2>2, <1>inv DEF RefusalInv, Unanswered
  <2>6. AnswerInv'
    BY <2>1, <2>2, <1>inv, <1>own DEF AnswerInv, Honest
  <2> QED
    BY <2>3, <2>4, <2>5, <2>6 DEF JobsInPlace
<1>9. ASSUME NEW j \in Jobs, Receive(j) PROVE JobsInPlace'
  <2> DEFINE c == ChanOf(j)
  <2>1. /\ caller[j] = "waiting" /\ caller' = [caller EXCEPT ![j] = "answered"]
        /\ UNCHANGED <<queue, pc, holding, task, ctxDone, closed, refusing>>
        /\ \/ /\ chan[c] # <<>> /\ chan' = [chan EXCEPT ![c] = Tail(chan[c])]
              /\ got' = [got EXCEPT ![j] = Head(chan[c])]
           \/ /\ chan[c] = <<>> /\ closed[c] /\ chan' = chan
              /\ got' = [got EXCEPT ![j] = ZeroResult]
    BY <1>9 DEF Receive, workerVars, jobVars
  <2>2. c \in Channels /\ (j \in OwnJobs => c = j) /\ (j \notin OwnJobs => c \notin OwnJobs)
    BY ChanOfType, <1>own
  <2> HIDE DEF c
  <2>3. \A k \in Jobs : k # j => caller'[k] = caller[k] /\ got'[k] = got[k]
    BY <2>1, <1>type
  <2>4. caller'[j] = "answered"
    BY <2>1, <1>type
  <2>5. \A k \in OwnJobs : k # j => chan'[k] = chan[k]
    BY <2>1, <2>2, <1>type, <1>own
  <2>6. j \in OwnJobs => chan[j] # <<>>
    BY <2>1, <2>2, <1>inv DEF AnswerInv
  <2>7. QueueInv'
    BY <2>1, <2>3, <2>4, <2>5, <2>6, <1>inv, <1>queue, <1>own DEF QueueInv, Unanswered
  <2>8. HandsInv'
    <3> SUFFICES ASSUME NEW w \in Goroutines, holding[w] \in Jobs
                 PROVE  /\ \A v \in Goroutines : holding[v] = holding[w] => v = w
                        /\ task[holding[w]] # "none"
                        /\ holding[w] \in OwnJobs =>
                             /\ ~closed[holding[w]]
                             /\ pc[w] = "running" => Unanswered(holding[w])'
                             /\ caller'[holding[w]] = "waiting" /\ pc[w] = "closing"
                                  => chan'[holding[w]] # <<>>
      BY <2>1 DEF HandsInv
    <3>1. CASE holding[w] # j
      BY <3>1, <2>1, <2>3, <2>5, <1>inv DEF HandsInv, Unanswered
    <3>2. CASE holding[w] = j
      BY <3>2, <2>1, <2>4, <2>6, <1>inv DEF HandsInv, Unanswered
    <3> QED
      BY <3>1, <3>2
  <2>9. RefusalInv'
    BY <2>1, <2>3, <2>4, <2>5, <2>6, <1>inv DEF RefusalInv, Unanswered
  <2>10. AnswerInv'
    <3> SUFFICES ASSUME NEW k \in OwnJobs
                 PROVE  /\ (caller[k] = "waiting" /\ closed[k] => chan[k] # <<>>)'
                        /\ \A i \in DOMAIN chan'[k] : Honest(k, chan[k][i])'
                        /\ (caller[k] = "answered" => Honest(k, got[k]))'
      BY DEF AnswerInv
    <3>1. CASE k # j
      BY <3>1, <2>1, <2>3, <2>5, <1>inv, <1>own DEF AnswerInv, Honest
    <3>2. CASE k = j
      <4>1. /\ chan[j] # <<>> /\ c = j /\ j \in Channels /\ chan[j] \in Seq(Results)
            /\ \A i \in DOMAIN chan[j] : Honest(j, chan[j][i])
        BY <3>2, <2>2, <2>6, <1>inv, <1>type, <1>own DEF AnswerInv
      <4>2. chan'[j] = Tail(chan[j]) /\ got'[j] = Head(chan[j])
        BY <4>1, <2>1, <1>type
      <4>3. /\ Head(chan[j]) = chan[j][1] /\ 1 \in DOMAIN chan[j]
            /\ \A i \in DOMAIN Tail(chan[j]) :
                 Tail(chan[j])[i] = chan[j][i + 1] /\ i + 1 \in DOMAIN chan[j]
        BY <4>1, TailFacts
      <4>4. \A x : Honest(j, x) => Honest(j, x)'
        BY <2>1 DEF Honest
      <4>5. Honest(j, got[j])'
        BY <4>1, <4>2, <4>3, <4>4
      <4>6. \A i \in DOMAIN chan'[j] : Honest(j, chan[j][i])'
        BY <4>1, <4>2, <4>3, <4>4
      <4> QED
        BY <3>2, <2>4, <4>5, <4>6
    <3> QED
      BY <3>1, <3>2
  <2> QED
    BY <2>7, <2>8, <2>9, <2>10 DEF JobsInPlace
<1>10. ASSUME NEW w \in Goroutines, TakeJob(w) PROVE JobsInPlace'
  <2>0. PICK j : j = Head(queue)
    OBVIOUS
  <2>1. /\ queue # <<>> /\ pc[w] = "select" /\ queue' = Tail(queue)
        /\ holding' = [holding EXCEPT ![w] = j]
        /\ task' = [task EXCEPT ![j] = "running"]
        /\ pc' = [pc EXCEPT ![w] = "running"]
        /\ UNCHANGED <<ctxDone, chan, closed, caller, got, refusing>>
    BY <1>10, <2>0 DEF TakeJob, chanVars, callerVars
  <2>2. /\ DOMAIN Tail(queue) = 1 .. Len(queue) - 1
        /\ j = queue[1] /\ 1 \in DOMAIN queue
        /\ \A i \in DOMAIN Tail(queue) :
             Tail(queue)[i] = queue[i + 1] /\ i + 1 \in DOMAIN queue
    BY <2>0, <2>1, <1>type, TailFacts
  <2>3. /\ j \in Jobs /\ task[j] = "none" /\ caller[j] # "new" /\ ~refusing[j]
        /\ j \in OwnJobs => Unanswered(j)
    BY <2>2, <1>queue, <1>inv DEF QueueInv
  <2>4. \A v \in Goroutines : holding[v] # j
    BY <2>3, <1>inv DEF HandsInv
  <2>5. /\ \A k \in Jobs : k # j => task'[k] = task[k]
        /\ task'[j] = "running"
        /\ \A v \in Goroutines : v # w => holding'[v] = holding[v] /\ pc'[v] = pc[v]
        /\ holding'[w] = j /\ pc'[w] = "running"
    BY <2>1, <2>3, <1>type
  <2>6. QueueInv'
    <3>1. \A i \in DOMAIN queue' : /\ queue'[i] = queue[i + 1] /\ i + 1 \in DOMAIN queue
                                   /\ i \in Nat /\ i >= 1
      BY <2>1, <2>2, <1>queue
    <3>2. \A i, k \in DOMAIN queue' : queue'[i] = queue'[k] => i = k
      <4> SUFFICES ASSUME NEW i \in DOMAIN queue', NEW k \in DOMAIN queue',
                          queue'[i] = queue'[k]
                   PROVE  i = k
        OBVIOUS
      <4>1. i + 1 = k + 1
        BY <3>1, <1>inv DEF QueueInv
      <4> QED
        BY <4>1, <3>1
    <3>3. \A i \in DOMAIN queue' : queue'[i] # j
      <4> SUFFICES ASSUME NEW i \in DOMAIN queue', queue'[i] = j PROVE FALSE
        OBVIOUS
      <4>1. i + 1 = 1
        BY <3>1, <2>2, <1>inv DEF QueueInv
      <4> QED
        BY <4>1, <3>1
    <3>4. \A i \in DOMAIN queue' :
            /\ task'[queue'[i]] = "none"
            /\ caller'[queue'[i]] # "new"
            /\ ~refusing'[queue'[i]]
            /\ queue'[i] \in OwnJobs => Unanswered(queue[i])'
      BY <3>1, <3>3, <2>1, <2>5, <1>inv, <1>queue DEF QueueInv, Unanswered
    <3> QED
      BY <3>2, <3>4 DEF QueueInv
  <2>7. HandsInv'
    <3> SUFFICES ASSUME NEW u \in Goroutines, holding'[u] \in Jobs
                 PROVE  /\ \A v \in Goroutines : holding'[v] = holding'[u] => v = u
                        /\ task'[holding'[u]] # "none"
                        /\ holding'[u] \in OwnJobs =>
                             /\ ~closed[holding'[u]]
                             /\ pc'[u] = "running" => Unanswered(holding[u])'
                             /\ caller[holding'[u]] = "waiting" /\ pc'[u] = "closing"
                                  => chan[holding'[u]] # <<>>
      BY <2>1 DEF HandsInv
    <3>1. CASE u # w
      BY <3>1, <2>1, <2>4, <2>5, <1>inv DEF HandsInv, Unanswered
    <3>2. CASE u = w
      BY <3>2, <2>1, <2>3, <2>4, <2>5 DEF Unanswered
    <3> QED
      BY <3>1, <3>2
  <2>8. RefusalInv'
    BY <2>1, <2>3, <2>5, <1>inv DEF RefusalInv, Unanswered
  <2>9. AnswerInv'
    <3> SUFFICES ASSUME NEW k \in OwnJobs
                 PROVE  /\ (caller[k] = "waiting" /\ closed[k] => chan[k] # <<>>)'
                        /\ \A i \in DOMAIN chan'[k] : Honest(k, chan[k][i])'
                        /\ (caller[k] = "answered" => Honest(k, got[k]))'
      BY DEF AnswerInv
    <3>1. CASE k # j
      BY <3>1, <2>1, <2>5, <1>inv, <1>own DEF AnswerInv, Honest
    <3>2. CASE k = j
      BY <3>2, <2>1, <2>3 DEF Unanswered
    <3> QED
      BY <3>1, <3>2
  <2> QED
    BY <2>6, <2>7, <2>8, <2>9 DEF JobsInPlace
<1>11. ASSUME NEW w \in Goroutines, WorkerGetsTask(w) \/ WorkerSeesCtx(w) PROVE JobsInPlace'
  <2>0. PICK j : j = holding[w]
    OBVIOUS
  <2> DEFINE c == ChanOf(j)
  <2>1. /\ pc[w] = "running" /\ j \in Jobs
        /\ UNCHANGED <<queue, task, ctxDone, closed, caller, got, refusing>>
    BY <1>11, <2>0, <1>hands DEF WorkerGetsTask, WorkerSeesCtx, jobVars, callerVars
  <2>2. PICK kind \in {"task", "ctx"} :
          /\ Send(w, kind)
          /\ kind = "task" => task[j] = "ended"
          /\ kind = "ctx" => ctxDone[j]
    BY <1>11, <2>0 DEF WorkerGetsTask, WorkerSeesCtx
  <2> DEFINE r == [job |-> j, kind |-> kind]
  <2>3. r \in Results /\ r.job = j /\ r.kind = kind
    BY <2>1, ResultType
  <2>4. /\ task[j] # "none"
        /\ \A v \in Goroutines : holding[v] = j => v = w
        /\ j \in OwnJobs => Unanswered(j)
    BY <2>0, <2>1, <1>inv DEF HandsInv
  <2>5. c \in Channels /\ (j \in OwnJobs => c = j) /\ (j \notin OwnJobs => c \notin OwnJobs)
    BY <2>1, ChanOfType, <1>own
  <2>6. \/ /\ closed[c] /\ chan' = chan
           /\ pc' = [pc EXCEPT ![w] = "leaving"] /\ holding' = [holding EXCEPT ![w] = NoJob]
        \/ /\ ~closed[c] /\ chan' = [chan EXCEPT ![c] = Append(chan[c], r)]
           /\ pc' = [pc EXCEPT ![w] = "closing"] /\ holding' = holding
        \/ /\ Len(chan[c]) >= Cap(c) /\ chan' = chan
           /\ pc' = [pc EXCEPT ![w] = "select"] /\ holding' = [holding EXCEPT ![w] = NoJob]
    BY <2>0, <2>2 DEF Send
  <2> HIDE DEF c, r
  <2>7. j \in OwnJobs => /\ chan' = [chan EXCEPT ![j] = Append(chan[j], r)]
                         /\ pc' = [pc EXCEPT ![w] = "closing"] /\ holding' = holding
    <3> SUFFICES ASSUME j \in OwnJobs
                 PROVE  /\ chan' = [chan EXCEPT ![j] = Append(chan[j], r)]
                        /\ pc' = [pc EXCEPT ![w] = "closing"] /\ holding' = holding
      OBVIOUS
    <3>1. c = j /\ ~closed[j] /\ chan[j] = <<>> /\ Cap(j) = 1
      BY <2>4, <2>5, <1>own DEF Unanswered
    <3>2. ~(Len(chan[c]) >= Cap(c))
      BY <3>1
    <3> QED
      BY <2>6, <3>1, <3>2
  <2>8. \A k \in OwnJobs : k # j => chan'[k] = chan[k]
    BY <2>5, <2>6, <1>own, <1>type
  <2>9. j \in OwnJobs => chan'[j] # <<>> /\ \A i \in DOMAIN chan'[j] : chan'[j][i] = r
    <3> SUFFICES ASSUME j \in OwnJobs
                 PROVE  chan'[j] # <<>> /\ \A i \in DOMAIN chan'[j] : chan'[j][i] = r
      OBVIOUS
    <3>1. chan[j] = <<>> /\ j \in Channels
      BY <2>4, <1>own DEF Unanswered
    <3>2. chan'[j] = Append(<<>>, r)
      BY <3>1, <2>7, <1>type
    <3> QED
      BY <3>2, <2>3
  <2>10. /\ \A v \in Goroutines : v # w => holding'[v] = holding[v] /\ pc'[v] = pc[v]
         /\ holding'[w] \in {j, NoJob} /\ pc'[w] # "running"
    BY <2>0, <2>6, <1>type
  <2>11. \A i \in DOMAIN queue : queue[i] # j
    BY <2>4, <1>inv DEF QueueInv
  <2>12. QueueInv'
    BY <2>1, <2>8, <2>11, <1>inv, <1>queue DEF QueueInv, Unanswered
  <2>13. HandsInv'
    <3> SUFFICES ASSUME NEW u \in Goroutines, holding'[u] \in Jobs
                 PROVE  /\ \A v \in Goroutines : holding'[v] = holding'[u] => v = u
                        /\ task[holding'[u]] # "none"
                        /\ holding'[u] \in OwnJobs =>
                             /\ ~closed[holding'[u]]
                             /\ pc'[u] = "running" => Unanswered(holding[u])'
                             /\ caller[holding'[u]] = "waiting" /\ pc'[u] = "closing"
                                  => chan'[holding'[u]] # <<>>
      BY <2>1 DEF HandsInv
    <3>1. CASE u # w
      <4>1. holding'[u] = holding[u] /\ holding[u] # j /\ pc'[u] = pc[u]
        BY <3>1, <2>4, <2>10
      <4>2. \A v \in Goroutines : holding'[v] = holding[u] => v = u
        BY <3>1, <4>1, <2>1, <2>10, <1>inv DEF HandsInv
      <4> QED
        BY <4>1, <4>2, <2>1, <2>8, <1>inv DEF HandsInv, Unanswered
    <3>2. CASE u = w
      <4>1. holding'[w] = j
        BY <3>2, <2>10
      <4>2. \A v \in Goroutines : holding'[v] = j => v = w
        BY <2>4, <2>10
      <4> QED
        BY <3>2, <4>1, <4>2, <2>4, <2>9, <2>10 DEF Unanswered
    <3> QED
      BY <3>1, <3>2
  <2>14. RefusalInv'
    BY <2>1, <2>4, <2>8, <1>inv DEF RefusalInv, Unanswered
  <2>15. AnswerInv'
    <3> SUFFICES ASSUME NEW k \in OwnJobs
                 PROVE  /\ (caller[k] = "waiting" /\ closed[k] => chan[k] # <<>>)'
                        /\ \A i \in DOMAIN chan'[k] : Honest(k, chan[k][i])'
                        /\ (caller[k] = "answered" => Honest(k, got[k]))'
      BY DEF AnswerInv
    <3>1. CASE k # j
      BY <3>1, <2>1, <2>8, <1>inv DEF AnswerInv, Honest
    <3>2. CASE k = j
      <4>1. Honest(j, r)'
        BY <2>1, <2>2, <2>3, <2>4 DEF Honest
      <4> QED
        BY <3>2, <4>1, <2>1, <2>4, <2>9 DEF Unanswered
    <3> QED
      BY <3>1, <3>2
  <2> QED
    BY <2>12, <2>13, <2>14, <2>15 DEF JobsInPlace
<1>12. ASSUME NEW w \in Goroutines, CloseResult(w) PROVE JobsInPlace'
  <2>0. PICK j : j = holding[w]
    OBVIOUS
  <2> DEFINE c == ChanOf(j)
  <2>1. /\ pc[w] = "closing" /\ j \in Jobs
        /\ closed' = [closed EXCEPT ![c] = TRUE]
        /\ holding' = [holding EXCEPT ![w] = NoJob]
        /\ UNCHANGED <<queue, task, ctxDone, chan, caller, got, refusing>>
        /\ pc' = [pc EXCEPT ![w] = IF closed[c] THEN "leaving" ELSE "select"]
    BY <1>12, <2>0, <1>hands DEF CloseResult, jobVars, callerVars
  <2>2. /\ task[j] # "none"
        /\ \A v \in Goroutines : holding[v] = j => v = w
        /\ j \in OwnJobs /\ caller[j] = "waiting" => chan[j] # <<>>
    BY <2>0, <2>1, <1>inv DEF HandsInv
  <2>3. c \in Channels /\ (j \in OwnJobs => c = j) /\ (j \notin OwnJobs => c \notin OwnJobs)
    BY <2>1, ChanOfType, <1>own
  <2> HIDE DEF c
  <2>4. \A k \in OwnJobs : k # j => closed'[k] = closed[k]
    BY <2>1, <2>3, <1>own, <1>type
  <2>5. /\ \A v \in Goroutines : v # w => holding'[v] = holding[v] /\ pc'[v] = pc[v]
        /\ holding'[w] = NoJob
    BY <2>1, <1>type
  <2>6. \A i \in DOMAIN queue : queue[i] # j
    BY <2>2, <1>inv DEF QueueInv
  <2>7. QueueInv'
    BY <2>1, <2>4, <2>6, <1>inv, <1>queue DEF QueueInv, Unanswered
  <2>8. HandsInv'
    <3> SUFFICES ASSUME NEW u \in Goroutines, holding'[u] \in Jobs
                 PROVE  /\ \A v \in Goroutines : holding'[v] = holding'[u] => v = u
                        /\ task[holding'[u]] # "none"
                        /\ holding'[u] \in OwnJobs =>
                             /\ ~closed'[holding'[u]]
                             /\ pc'[u] = "running" => Unanswered(holding[u])'
                             /\ caller[holding'[u]] = "waiting" /\ pc'[u] = "closing"
                                  => chan[holding'[u]] # <<>>
      BY <2>1 DEF HandsInv
    <3>1. /\ u # w /\ holding'[u] = holding[u] /\ holding[u] # j /\ pc'[u] = pc[u]
      BY <2>2, <2>5
    <3>2. \A v \in Goroutines : holding'[v] = holding[u] => v = u
      BY <3>1, <2>5, <1>inv DEF HandsInv
    <3> QED
      BY <3>1, <3>2, <2>1, <2>4, <1>inv DEF HandsInv, Unanswered
  <2>9. RefusalInv'
    BY <2>1, <2>2, <2>4, <1>inv DEF RefusalInv, Unanswered
  <2>10. AnswerInv'
    <3> SUFFICES ASSUME NEW k \in OwnJobs
                 PROVE  /\ (caller[k] = "waiting" /\ closed[k] => chan[k] # <<>>)'
                        /\ \A i \in DOMAIN chan'[k] : Honest(k, chan[k][i])'
                        /\ (caller[k] = "answered" => Honest(k, got[k]))'
      BY DEF AnswerInv
    <3>0. UNCHANGED <<task, ctxDone, chan, caller, got>>
      BY <2>1
    <3>1. CASE k # j
      <4>1. closed'[k] = closed[k]
        BY <3>1, <2>4
      <4> QED
        BY <4>1, <3>0, <1>inv DEF AnswerInv, Honest
    <3>2. CASE k = j
      BY <3>0, <3>2, <2>2, <1>inv DEF AnswerInv, Honest
    <3> QED
      BY <3>1, <3>2
  <2> QED
    BY <2>7, <2>8, <2>9, <2>10 DEF JobsInPlace
<1> QED
  BY <1>1, <1>2, <1>3, <1>4, <1>5, <1>6, <1>7, <1>8, <1>9, <1>10, <1>11, <1>12
     DEF Next, Lifecycle, CallerStep, WorkerStep

\* Every job is in at most one place, and every answer on its way or read is
\* an answer of the job that asked.
THEOREM JobsStayInPlace == Spec => []JobsInPlace
<1>1. Init => TypeOK /\ JobsInPlace
  BY TypeInit, JobsInit
<1>2. (TypeOK /\ JobsInPlace) /\ [Next]_vars => (TypeOK /\ JobsInPlace)'
  BY TypeStep, JobsStep
<1> QED
  BY <1>1, <1>2, PTL DEF Spec

\* A caller of SubmitTask only ever reads the truth about its own job, for any
\* mixture with jobs that share a channel, restarts and panics included.
THEOREM AnswersAreHonest == Spec => []HonestAnswer
<1>1. JobsInPlace => HonestAnswer
  BY DEF JobsInPlace, AnswerInv, HonestAnswer
<1> QED
  BY <1>1, JobsStayInPlace, PTL

\* No worker ends before Stop closed quit, unless callers share a Result
\* channel that was closed: the recovering handlers never panic again.
THEOREM WorkersOutliveJobs == Spec => []WorkersSurvive
<1> DEFINE Inv == TypeOK /\ JobsInPlace /\ WorkersSurvive
<1>1. Init => WorkersSurvive
  BY DEF Init, WorkersSurvive, Leaving
<1>2. Inv /\ [Next]_vars => WorkersSurvive'
  <2> SUFFICES ASSUME Inv, [Next]_vars, NEW v \in Goroutines, pc'[v] \in Leaving
               PROVE  quitClosed' \/ closed'[SharedCh]
    BY DEF WorkersSurvive
  <2>1. pc \in [Goroutines -> PCs] /\ (pc[v] \in Leaving => quitClosed \/ closed[SharedCh])
    BY DEF TypeOK, WorkersSurvive
  <2>2. \A w \in Goroutines : holding[w] \in Jobs =>
          \/ ChanOf(holding[w]) = SharedCh
          \/ ~closed[ChanOf(holding[w])]
    BY DEF JobsInPlace, HandsInv, OwnJobs, ChanOf
  <2>3. \A w \in Goroutines : pc[w] \in {"running", "closing"} => holding[w] \in Jobs
    BY DEF TypeOK, HandsMatch
  <2>4. quitClosed => quitClosed'
    BY DEF Next, Lifecycle, Start, StopBegin, WaiterBlocks, WaiterReturns, StopGraceful,
           StopTimeout, FinishStop, MonitorExits, CallerStep, Submit, Refuse, CtxDone, Receive,
           TaskEnds, WorkerStep, TakeJob, WorkerGetsTask, WorkerSeesCtx, CloseResult,
           SeeQuit, WorkerUntracked, WorkerDone, vars, poolVars
  <2>7. closed[SharedCh] => closed'[SharedCh]
    <3>1. closed \in [Channels -> BOOLEAN] /\ SharedCh \in Channels
      BY DEF TypeOK, Channels
    <3>2. closed' = closed \/ \E c \in Channels : closed' = [closed EXCEPT ![c] = TRUE]
      <4>1. ASSUME NEW j \in Jobs, Refuse(j)
            PROVE  \E c \in Channels : closed' = [closed EXCEPT ![c] = TRUE]
        BY <4>1 DEF Refuse, Channels
      <4>2. ASSUME NEW w \in Goroutines, CloseResult(w)
            PROVE  \E c \in Channels : closed' = [closed EXCEPT ![c] = TRUE]
        <5>1. ChanOf(holding[w]) \in Channels
          BY <4>2, <2>3 DEF CloseResult, ChanOf, Channels
        <5> QED
          BY <4>2, <5>1 DEF CloseResult
      <4>3. CASE ~(\E j \in Jobs : Refuse(j)) /\ ~(\E w \in Goroutines : CloseResult(w))
        BY <4>3 DEF Next, Lifecycle, Start, StopBegin, WaiterBlocks, WaiterReturns,
           StopGraceful, StopTimeout, FinishStop, MonitorExits, CallerStep, Submit,
           CtxDone, Receive, TaskEnds, WorkerStep, TakeJob, WorkerGetsTask,
           WorkerSeesCtx, SeeQuit, WorkerUntracked, WorkerDone, vars, chanVars
      <4> QED
        BY <4>1, <4>2, <4>3
    <3> QED
      BY <3>1, <3>2
  <2>5. CASE pc[v] \in Leaving
    BY <2>1, <2>4, <2>5, <2>7
  <2>6. CASE pc[v] \notin Leaving
    <3>1. CASE Lifecycle \/ UNCHANGED vars
      BY <3>1, <2>1, <2>6 DEF Lifecycle, Start, StopBegin, WaiterBlocks, WaiterReturns,
         StopGraceful, StopTimeout, FinishStop, MonitorExits, vars, workerVars, Leaving
    <3>2. ASSUME NEW j \in Jobs, CallerStep(j) PROVE quitClosed' \/ closed'[SharedCh]
      BY <3>2, <2>1, <2>6 DEF CallerStep, Submit, Refuse, CtxDone, Receive, TaskEnds, workerVars
    <3>3. ASSUME NEW w \in Goroutines, WorkerGetsTask(w) \/ WorkerSeesCtx(w) PROVE quitClosed' \/ closed'[SharedCh]
      <4>1. PICK kind : Send(w, kind) /\ pc[w] = "running"
        BY <3>3 DEF WorkerGetsTask, WorkerSeesCtx
      <4>2. closed[SharedCh] \/ ~closed[ChanOf(holding[w])]
        BY <4>1, <2>2, <2>3
      <4> QED
        BY <4>1, <4>2, <2>1, <2>6, <2>7 DEF Send, Leaving
    <3>4. ASSUME NEW w \in Goroutines, CloseResult(w) PROVE quitClosed' \/ closed'[SharedCh]
      <4>1. closed[SharedCh] \/ ~closed[ChanOf(holding[w])]
        BY <3>4, <2>2, <2>3 DEF CloseResult
      <4> QED
        BY <3>4, <4>1, <2>1, <2>6, <2>7 DEF CloseResult, Leaving
    <3>5. ASSUME NEW w \in Goroutines, TakeJob(w) PROVE quitClosed' \/ closed'[SharedCh]
      BY <3>5, <2>1, <2>6 DEF TakeJob, Leaving
    <3>6. ASSUME NEW w \in Goroutines, SeeQuit(w) PROVE quitClosed' \/ closed'[SharedCh]
      BY <3>6, <2>4 DEF SeeQuit
    <3>7. ASSUME NEW w \in Goroutines, WorkerUntracked(w) \/ WorkerDone(w) PROVE quitClosed' \/ closed'[SharedCh]
      BY <3>7, <2>1, <2>6 DEF WorkerUntracked, WorkerDone, Leaving
    <3> QED
      BY <3>1, <3>2, <3>3, <3>4, <3>5, <3>6, <3>7 DEF Next, WorkerStep
  <2> QED
    BY <2>5, <2>6
<1>3. Spec => []TypeOK
  BY TypeCorrect
<1>4. Spec => []JobsInPlace
  BY JobsStayInPlace
<1> QED
  BY <1>1, <1>2, <1>3, <1>4, PTL DEF Spec

-----------------------------------------------------------------------------
(* The counters.  CountersExact is inductive given TypeOK, because          *)
(* GenerationsMatch makes the workers of a new Start distinct from all     *)
(* earlier ones and no worker passes the decrements twice.                 *)

\* Sets of workers are finite, and each Start adds Size of them.
LEMMA WorkersFinite ==
    ASSUME NEW S \in SUBSET Goroutines
    PROVE  IsFiniteSet(S) /\ Cardinality(S) \in Nat
<1>1. IsFiniteSet(1 .. MaxStarts) /\ IsFiniteSet(1 .. Size)
  BY FS_Interval, BoundsAssumption, SizePositive
<1>2. IsFiniteSet(Goroutines)
  BY <1>1, FS_Product DEF Goroutines
<1>3. IsFiniteSet(S)
  BY <1>2, FS_Subset
<1> QED
  BY <1>3, FS_CardinalityType

\* A new generation of workers, counted.
LEMMA GenerationCount ==
    ASSUME NEW n \in 1 .. MaxStarts, NEW S \in SUBSET Goroutines,
           \A w \in S : w[1] # n
    PROVE  LET T == {w \in Goroutines : w[1] = n \/ w \in S}
           IN  Cardinality(T) = Cardinality(S) + Size
<1> DEFINE G == {n} \X (1 .. Size)
<1>1. IsFiniteSet({n}) /\ Cardinality({n}) = 1
  BY FS_Singleton
<1>2. IsFiniteSet(1 .. Size) /\ Cardinality(1 .. Size) = Size
  BY FS_Interval, SizePositive
<1>3. IsFiniteSet(G) /\ Cardinality(G) = Size
  <2>1. Cardinality(G) = Cardinality({n}) * Cardinality(1 .. Size) /\ IsFiniteSet(G)
    BY <1>1, <1>2, FS_Product
  <2> QED
    BY <1>1, <1>2, <2>1, SizePositive
<1>4. IsFiniteSet(S) /\ Cardinality(S) \in Nat
  BY WorkersFinite
<1>5. G \cap S = {}
  OBVIOUS
<1>6. {w \in Goroutines : w[1] = n \/ w \in S} = S \cup G
  BY DEF Goroutines
<1> HIDE DEF G
<1>7. Cardinality(S \cup G) = Cardinality(S) + Cardinality(G) - Cardinality(S \cap G)
  BY <1>3, <1>4, FS_Union
<1>8. Cardinality(S \cap G) = 0
  BY <1>5, FS_EmptySet
<1>9. Cardinality(S \cup G) = Cardinality(S) + Size
  BY <1>3, <1>4, <1>7, <1>8, SizePositive
<1> QED
  BY <1>6, <1>9

LEMMA CountersInit == Init => CountersExact
<1> SUFFICES ASSUME Init PROVE CountersExact
  OBVIOUS
<1>1. Alive = {} /\ Tracked = {}
  BY DEF Init, Alive, Tracked
<1> QED
  BY <1>1, FS_EmptySet DEF Init, CountersExact

\* Each step adds one generation to both sets, removes one worker from one of
\* them, or leaves both alone, and moves the counters by as much.
LEMMA CountersStep == TypeOK /\ CountersExact /\ [Next]_vars => CountersExact'
<1> SUFFICES ASSUME TypeOK, CountersExact, [Next]_vars PROVE CountersExact'
  OBVIOUS
<1>pc. pc \in [Goroutines -> PCs] /\ starts \in 0 .. MaxStarts
  BY DEF TypeOK
<1>1. CASE Start
  <2>1. starts + 1 \in 1 .. MaxStarts
    BY <1>1, <1>pc, BoundsAssumption DEF Start
  <2>2. \A w \in Goroutines : w[1] = starts + 1 => pc[w] = "unborn"
    <3>1. \A w \in Goroutines : pc[w] = "unborn" <=> w[1] > starts
      BY DEF TypeOK, GenerationsMatch
    <3> QED
      BY <1>pc, <3>1, GoroutineIndex, BoundsAssumption
  <2>3. /\ Alive' = {w \in Goroutines : w[1] = starts + 1 \/ w \in Alive}
        /\ Tracked' = {w \in Goroutines : w[1] = starts + 1 \/ w \in Tracked}
    BY <1>1, <1>pc DEF Start, Alive, Tracked
  <2>4. /\ Alive \in SUBSET Goroutines /\ \A w \in Alive : w[1] # starts + 1
        /\ Tracked \in SUBSET Goroutines /\ \A w \in Tracked : w[1] # starts + 1
    BY <2>2 DEF Alive, Tracked
  <2>5. Cardinality(Alive') = wg + Size
    BY <2>1, <2>3, <2>4, GenerationCount DEF CountersExact
  <2>6. Cardinality(Tracked') = active + Size
    BY <2>1, <2>3, <2>4, GenerationCount DEF CountersExact
  <2> QED
    BY <1>1, <2>5, <2>6 DEF Start, CountersExact
<1>2. ASSUME UNCHANGED <<wg, active>>,
             \A w \in Goroutines :
                \/ pc'[w] = pc[w]
                \/ /\ pc[w] \in {"select", "running", "closing"}
                   /\ pc'[w] \in {"select", "running", "closing", "leaving"}
      PROVE  CountersExact'
  <2>1. Alive' = Alive /\ Tracked' = Tracked
    BY <1>2 DEF Alive, Tracked
  <2> QED
    BY <1>2, <2>1 DEF CountersExact
<1>3. CASE StopBegin \/ WaiterBlocks \/ WaiterReturns \/ StopGraceful \/ StopTimeout
           \/ MonitorExits \/ UNCHANGED vars
  BY <1>2, <1>3 DEF StopBegin, WaiterBlocks, WaiterReturns, StopGraceful, StopTimeout,
     FinishStop, MonitorExits, workerVars, vars
<1>4. ASSUME NEW j \in Jobs, CallerStep(j) PROVE CountersExact'
  BY <1>2, <1>4 DEF CallerStep, Submit, Refuse, CtxDone, Receive, TaskEnds, workerVars
<1>5. ASSUME NEW w \in Goroutines, TakeJob(w) \/ CloseResult(w) \/ SeeQuit(w)
      PROVE  CountersExact'
  BY <1>2, <1>5, <1>pc DEF TakeJob, CloseResult, SeeQuit
<1>6. ASSUME NEW w \in Goroutines, WorkerGetsTask(w) \/ WorkerSeesCtx(w)
      PROVE  CountersExact'
  <2>1. PICK kind : Send(w, kind)
    BY <1>6 DEF WorkerGetsTask, WorkerSeesCtx
  <2>2. pc[w] = "running" /\ UNCHANGED <<wg, active>>
    BY <1>6 DEF WorkerGetsTask, WorkerSeesCtx
  <2> QED
    BY <1>2, <1>pc, <2>1, <2>2 DEF Send
<1>7. ASSUME NEW w \in Goroutines, WorkerUntracked(w) PROVE CountersExact'
  <2>1. Alive' = Alive /\ Tracked' = Tracked \ {w} /\ w \in Tracked /\ wg' = wg
    BY <1>7, <1>pc DEF WorkerUntracked, Alive, Tracked
  <2>2. IsFiniteSet(Tracked) /\ Cardinality(Tracked) \in Nat
    BY WorkersFinite DEF Tracked
  <2>3. Cardinality(Tracked') = active - 1 /\ active # 0
    BY <2>1, <2>2, FS_RemoveElement, FS_EmptySet DEF CountersExact
  <2> QED
    BY <1>7, <2>1, <2>2, <2>3 DEF CountersExact, WorkerUntracked
<1>8. ASSUME NEW w \in Goroutines, WorkerDone(w) PROVE CountersExact'
  <2>1. Tracked' = Tracked /\ Alive' = Alive \ {w} /\ w \in Alive /\ active' = active
    BY <1>8, <1>pc DEF WorkerDone, Alive, Tracked
  <2>2. IsFiniteSet(Alive)
    BY WorkersFinite DEF Alive
  <2>3. Cardinality(Alive') = wg - 1
    BY <2>1, <2>2, FS_RemoveElement DEF CountersExact
  <2> QED
    BY <1>8, <2>1, <2>3 DEF CountersExact, WorkerDone
<1> QED
  BY <1>1, <1>3, <1>4, <1>5, <1>6, <1>7, <1>8 DEF Next, Lifecycle, WorkerStep

\* The WaitGroup and the monitor's counter are exact in every reachable state,
\* however the workers of several Starts are interleaved.
THEOREM CountersStayExact == Spec => []CountersExact
<1>1. (TypeOK /\ CountersExact) /\ [Next]_vars => (TypeOK /\ CountersExact)'
  BY TypeStep, CountersStep
<1> QED
  BY <1>1, TypeInit, CountersInit, PTL DEF Spec

\* Once the wait of the Stop that holds wp.mu has ended no worker is left: the
\* counter was zero then, and Start cannot run before Stop returns.
DrainedInv == stopper = "waiting" /\ waiter = "returned" => Alive = {}

LEMMA DrainedStep == TypeOK /\ CountersExact /\ DrainedInv /\ [Next]_vars => DrainedInv'
<1> SUFFICES ASSUME TypeOK, CountersExact, DrainedInv, [Next]_vars,
                    stopper' = "waiting", waiter' = "returned"
             PROVE  Alive' = {}
  BY DEF DrainedInv
<1>pc. pc \in [Goroutines -> PCs]
  BY DEF TypeOK
<1>1. wg = 0 => Alive = {}
  BY FS_EmptySet, WorkersFinite DEF CountersExact, Alive
<1>2. CASE WaiterBlocks \/ WaiterReturns
  BY <1>1, <1>2 DEF WaiterBlocks, WaiterReturns, DrainedInv, workerVars, Alive
<1>3. CASE Start \/ StopBegin \/ StopGraceful \/ StopTimeout
  BY <1>3 DEF Start, StopBegin, StopGraceful, StopTimeout, FinishStop, DrainedInv,
     workerVars, Alive
<1>4. CASE MonitorExits \/ UNCHANGED vars
  BY <1>4 DEF MonitorExits, DrainedInv, workerVars, poolVars, vars, Alive
<1>5. ASSUME NEW j \in Jobs, CallerStep(j) PROVE Alive' = {}
  BY <1>5 DEF CallerStep, Submit, Refuse, CtxDone, Receive, TaskEnds, DrainedInv,
     workerVars, poolVars, Alive
<1>6. ASSUME NEW w \in Goroutines, WorkerStep(w) PROVE Alive' = {}
  <2>1. w \in Alive
    BY <1>6 DEF WorkerStep, TakeJob, WorkerGetsTask, WorkerSeesCtx, CloseResult, SeeQuit,
       WorkerUntracked, WorkerDone, Alive
  <2>2. stopper = "waiting" /\ waiter = "returned"
    BY <1>6 DEF WorkerStep, TakeJob, WorkerGetsTask, WorkerSeesCtx, CloseResult, SeeQuit,
       WorkerUntracked, WorkerDone, poolVars
  <2> QED
    BY <2>1, <2>2 DEF DrainedInv
<1> QED
  BY <1>2, <1>3, <1>4, <1>5, <1>6 DEF Next, Lifecycle

\* A Stop that its WaitGroup ends leaves no worker, no count in the monitor and no
\* job in anyone's hands, for any number of restarts (Stop, pool.go:82-113).
THEOREM GracefulStopsAreClean == Spec => GracefulStopIsClean
<1>1. Init => DrainedInv
  BY DEF Init, DrainedInv
<1>2. TypeOK /\ CountersExact /\ DrainedInv /\ [Next]_vars =>
        [stopper = "waiting" /\ stopper' = "idle" /\ waiter = "returned"
          => Alive = {} /\ active = 0 /\ \A w \in Goroutines : holding[w] = NoJob]_vars
  <2> SUFFICES ASSUME TypeOK, CountersExact, Alive = {}
               PROVE  active = 0 /\ \A w \in Goroutines : holding[w] = NoJob
    BY DEF DrainedInv
  <2>1. Tracked = {}
    BY DEF Alive, Tracked
  <2>2. active = 0
    BY <2>1, FS_EmptySet DEF CountersExact
  <2>3. ASSUME NEW w \in Goroutines PROVE holding[w] = NoJob
    <3>1. pc[w] \notin {"running", "closing"}
      BY DEF Alive
    <3> QED
      BY <3>1 DEF TypeOK, HandsMatch
  <2> QED
    BY <2>2, <2>3
<1>3. Spec => []DrainedInv
  BY <1>1, DrainedStep, TypeCorrect, CountersStayExact, PTL DEF Spec
<1> QED
  BY <1>2, <1>3, TypeCorrect, CountersStayExact, PTL DEF Spec, GracefulStopIsClean

-----------------------------------------------------------------------------
(* The places of a job.  JobsInPlace says that they exclude each other;    *)
(* PlacesInv adds that a job whose caller waits is at one of them, and     *)
(* together they are the count of ExactlyOneCopy.                          *)

Queued(j) == \E i \in DOMAIN queue : queue[i] = j
InHands(j) == \E w \in Goroutines : holding[w] = j /\ pc[w] = "running"

\* What JobsInPlace does not say: a job whose caller waits is somewhere, and
\* nothing is left in the channel of a caller that was answered.
PlacesInv ==
    \A j \in Jobs :
        /\ caller[j] # "answered" => got[j] = Nothing
        /\ j \in OwnJobs =>
            /\ Len(chan[j]) <= 1
            /\ caller[j] # "refused"
            /\ caller[j] = "answered" => chan[j] = <<>>
            /\ caller[j] = "waiting" =>
                   Queued(j) \/ InHands(j) \/ refusing[j] \/ chan[j] # <<>>

LEMMA PlacesInit == Init => PlacesInv
BY DEF Init, PlacesInv, Channels, OwnJobs

\* Each handler moves a job of its own channel from one place to the next.
LEMMA PlacesStep == TypeOK /\ JobsInPlace /\ PlacesInv /\ [Next]_vars => PlacesInv'
<1> SUFFICES ASSUME TypeOK, JobsInPlace, PlacesInv, [Next]_vars PROVE PlacesInv'
  OBVIOUS
<1> USE JobsAssumption
<1>inv. QueueInv /\ HandsInv /\ RefusalInv /\ AnswerInv
  BY DEF JobsInPlace
<1>type. /\ queue \in Seq(Jobs)
         /\ refusing \in [Jobs -> BOOLEAN]
         /\ chan \in [Channels -> Seq(Results)] /\ closed \in [Channels -> BOOLEAN]
         /\ caller \in [Jobs -> {"new", "waiting", "refused", "answered"}]
         /\ got \in [Jobs -> Results \cup {Nothing, ZeroResult}]
         /\ pc \in [Goroutines -> PCs]
         /\ holding \in [Goroutines -> Jobs \cup {NoJob}]
  BY DEF TypeOK
<1>hands. \A w \in Goroutines : pc[w] \in {"running", "closing"} <=> holding[w] \in Jobs
  BY DEF TypeOK, HandsMatch
<1>own. /\ OwnJobs \subseteq Jobs /\ OwnJobs \subseteq Channels
        /\ \A j \in OwnJobs : ChanOf(j) = j /\ Cap(j) = 1
        /\ \A j \in Jobs \ OwnJobs : ChanOf(j) = SharedCh
        /\ SharedCh \notin OwnJobs
  BY DEF OwnJobs, Channels, ChanOf, Cap
<1>same. ASSUME UNCHANGED <<queue, chan, caller, got, refusing>>,
                \A w \in Goroutines : pc[w] = "running" =>
                    pc'[w] = pc[w] /\ holding'[w] = holding[w]
         PROVE  PlacesInv'
  BY <1>same DEF PlacesInv, Queued, InHands
<1>1. CASE Start
  <2>1. \A w \in Goroutines : pc[w] # "unborn" => ~(w[1] > starts)
    BY DEF TypeOK, GenerationsMatch
  <2>2. ASSUME NEW w \in Goroutines, pc[w] = "running"
        PROVE  pc'[w] = pc[w] /\ holding'[w] = holding[w]
    <3>0. starts \in 0 .. MaxStarts
      BY DEF TypeOK
    <3>1. ~(w[1] > starts) /\ w[1] \in Nat /\ starts \in Nat
      BY <2>1, <2>2, <3>0, GoroutineIndex, BoundsAssumption
    <3> QED
      BY <1>1, <3>1, <1>type DEF Start
  <2> QED
    BY <1>1, <1>same, <2>2 DEF Start, chanVars, callerVars
<1>2. CASE StopBegin \/ WaiterBlocks \/ WaiterReturns \/ StopGraceful \/ StopTimeout
           \/ MonitorExits \/ UNCHANGED vars
  BY <1>2, <1>same DEF StopBegin, WaiterBlocks, WaiterReturns, StopGraceful, StopTimeout,
     FinishStop, MonitorExits, workerVars, chanVars, callerVars, vars
<1>3. ASSUME NEW w \in Goroutines,
             CloseResult(w) \/ SeeQuit(w) \/ WorkerUntracked(w) \/ WorkerDone(w)
      PROVE  PlacesInv'
  <2>1. \A v \in Goroutines : pc[v] = "running" =>
          pc'[v] = pc[v] /\ holding'[v] = holding[v]
    BY <1>3, <1>type DEF CloseResult, SeeQuit, WorkerUntracked, WorkerDone
  <2> QED
    BY <1>3, <2>1, <1>same
       DEF CloseResult, SeeQuit, WorkerUntracked, WorkerDone, chanVars, callerVars
<1>4. ASSUME NEW j \in Jobs, CtxDone(j) \/ TaskEnds(j) PROVE PlacesInv'
  BY <1>4, <1>same DEF CtxDone, TaskEnds, workerVars, chanVars, callerVars
<1>5. ASSUME NEW j \in Jobs, Submit(j) PROVE PlacesInv'
  <2>1. /\ UNCHANGED <<chan, got, pc, holding>>
        /\ caller[j] = "new" /\ caller'[j] \in {"waiting", "refused"}
        /\ \A k \in Jobs : k # j => caller'[k] = caller[k] /\ refusing'[k] = refusing[k]
    BY <1>5, <1>type DEF Submit, chanVars, workerVars
  <2>2. \A k \in Jobs : Queued(k) => Queued(k)'
    <3>1. queue' = queue \/ queue' = Append(queue, j)
      BY <1>5 DEF Submit
    <3>2. \A i \in DOMAIN queue : i \in DOMAIN queue' /\ queue'[i] = queue[i]
      BY <3>1, <1>type, AppendFacts
    <3> QED
      BY <3>2 DEF Queued
  <2>3. j \in OwnJobs => caller'[j] = "waiting" /\ (Queued(j)' \/ refusing'[j])
    <3>1. CASE Accepts
      <4>1. caller'[j] = "waiting" /\ queue' = Append(queue, j)
        BY <1>5, <3>1, <1>type DEF Submit
      <4>2. Len(queue) + 1 \in DOMAIN queue' /\ queue'[Len(queue) + 1] = j
        BY <4>1, <1>type, AppendFacts
      <4> QED
        BY <4>1, <4>2 DEF Queued
    <3>2. CASE ~Accepts
      BY <1>5, <3>2, <1>type DEF Submit, OwnJobs
    <3> QED
      BY <3>1, <3>2
  <2> QED
    BY <2>1, <2>2, <2>3 DEF PlacesInv, InHands
<1>6. ASSUME NEW j \in Jobs, Refuse(j) PROVE PlacesInv'
  <2> DEFINE r == [job |-> j, kind |-> "refused"]
  <2>1. /\ UNCHANGED <<queue, caller, got, pc, holding>>
        /\ refusing[j] /\ chan' = [chan EXCEPT ![j] = Append(chan[j], r)]
        /\ refusing' = [refusing EXCEPT ![j] = FALSE]
    BY <1>6 DEF Refuse, workerVars
  <2>2. r \in Results
    BY ResultType
  <2> HIDE DEF r
  <2>3. \A k \in OwnJobs : k # j => chan'[k] = chan[k] /\ refusing'[k] = refusing[k]
    BY <2>1, <1>type, <1>own
  <2>4. j \in OwnJobs => Len(chan'[j]) = 1 /\ chan'[j] # <<>> /\ caller[j] # "answered"
    <3>1. j \in OwnJobs => chan[j] = <<>> /\ caller[j] # "answered"
      BY <2>1, <1>inv DEF RefusalInv, Unanswered
    <3>2. j \in OwnJobs => chan'[j] = Append(<<>>, r)
      BY <2>1, <3>1, <1>type, <1>own
    <3> QED
      BY <2>2, <3>1, <3>2, OneElement
  <2> QED
    BY <2>1, <2>3, <2>4, <1>own DEF PlacesInv, Queued, InHands
<1>7. ASSUME NEW j \in Jobs, Receive(j) PROVE PlacesInv'
  <2> DEFINE c == ChanOf(j)
  <2>1. /\ UNCHANGED <<queue, refusing, pc, holding>>
        /\ caller[j] = "waiting" /\ caller' = [caller EXCEPT ![j] = "answered"]
        /\ \E g : got' = [got EXCEPT ![j] = g]
        /\ \/ chan[c] # <<>> /\ chan' = [chan EXCEPT ![c] = Tail(chan[c])]
           \/ chan[c] = <<>> /\ chan' = chan
    BY <1>7 DEF Receive, workerVars
  <2>2. c \in Channels /\ (j \in OwnJobs => c = j) /\ (j \notin OwnJobs => c \notin OwnJobs)
    BY <1>own, ChanOfType
  <2> HIDE DEF c
  <2>3. \A k \in OwnJobs : k # j => chan'[k] = chan[k]
    BY <2>1, <2>2, <1>type, <1>own
  <2>4. j \in OwnJobs => chan'[j] = <<>>
    <3> SUFFICES ASSUME j \in OwnJobs PROVE chan'[j] = <<>>
      OBVIOUS
    <3>1. c = j /\ chan[c] \in Seq(Results) /\ Len(chan[c]) <= 1
      BY <2>2, <1>type DEF PlacesInv
    <3>2. CASE chan[c] # <<>>
      <4>1. Tail(chan[c]) = <<>>
        BY <3>1, <3>2
      <4> QED
        BY <2>1, <2>2, <3>1, <3>2, <4>1, <1>type
    <3> QED
      BY <2>1, <3>1, <3>2
  <2>5. /\ caller'[j] = "answered"
        /\ \A k \in Jobs : k # j => caller'[k] = caller[k] /\ got'[k] = got[k]
    BY <2>1, <1>type
  <2> QED
    BY <2>1, <2>3, <2>4, <2>5 DEF PlacesInv, Queued, InHands
<1>8. ASSUME NEW w \in Goroutines, TakeJob(w) PROVE PlacesInv'
  <2>1. /\ UNCHANGED <<chan, caller, got, refusing>>
        /\ queue # <<>> /\ queue' = Tail(queue)
        /\ pc[w] = "select" /\ pc' = [pc EXCEPT ![w] = "running"]
        /\ holding' = [holding EXCEPT ![w] = Head(queue)]
    BY <1>8 DEF TakeJob, chanVars, callerVars
  <2>2. \A k \in Jobs : InHands(k) => InHands(k)'
    BY <2>1, <1>type DEF InHands
  <2>0. PICK h : h = Head(queue)
    OBVIOUS
  <2>3. InHands(h)'
    BY <2>0, <2>1, <1>type DEF InHands
  <2>4. ASSUME NEW k \in Jobs, Queued(k), k # h PROVE Queued(k)'
    <3>1. PICK i \in DOMAIN queue : queue[i] = k
      BY <2>4 DEF Queued
    <3>2. i # 1 /\ i \in 1 .. Len(queue) /\ Len(queue) \in Nat
      BY <2>0, <2>1, <2>4, <3>1, <1>type, TailFacts
    <3>3. i - 1 \in DOMAIN queue' /\ queue'[i - 1] = k
      BY <2>1, <3>1, <3>2, <1>type, TailFacts
    <3> QED
      BY <3>3 DEF Queued
  <2> QED
    BY <2>1, <2>2, <2>3, <2>4, <1>own DEF PlacesInv
<1>9. ASSUME NEW w \in Goroutines, WorkerGetsTask(w) \/ WorkerSeesCtx(w) PROVE PlacesInv'
  <2>1. PICK kind \in {"task", "ctx"} : Send(w, kind)
    BY <1>9 DEF WorkerGetsTask, WorkerSeesCtx
  <2>2. pc[w] = "running" /\ UNCHANGED <<queue, caller, got, refusing, closed>>
    BY <1>9 DEF WorkerGetsTask, WorkerSeesCtx, callerVars
  <2>3. PICK j : j = holding[w]
    OBVIOUS
  <2> DEFINE c == ChanOf(j)
             r == [job |-> j, kind |-> kind]
  <2>4. j \in Jobs
    BY <2>2, <2>3, <1>hands
  <2>5. r \in Results
    BY <2>4, ResultType
  <2>6. /\ c \in Channels
        /\ j \in OwnJobs => /\ c = j /\ Cap(c) = 1
                            /\ chan[c] = <<>> /\ ~closed[c] /\ caller[j] # "answered"
        /\ j \notin OwnJobs => c \notin OwnJobs
    BY <2>2, <2>3, <2>4, <1>own, <1>inv, ChanOfType DEF HandsInv, Unanswered
  <2>7. /\ \/ closed[c] /\ chan' = chan
           \/ chan' = [chan EXCEPT ![c] = Append(chan[c], r)]
           \/ Len(chan[c]) >= Cap(c) /\ chan' = chan
        /\ \A v \in Goroutines : v # w => pc'[v] = pc[v] /\ holding'[v] = holding[v]
    BY <2>1, <2>3, <1>type DEF Send
  <2> HIDE DEF c, r
  <2>8. \A k \in OwnJobs : k # j => chan'[k] = chan[k]
    BY <2>6, <2>7, <1>type, <1>own
  <2>9. j \in OwnJobs => chan'[j] = Append(<<>>, r)
    BY <2>6, <2>7, <1>type, <1>own
  <2>10. j \in OwnJobs => chan'[j] # <<>> /\ Len(chan'[j]) = 1
    BY <2>5, <2>9, OneElement
  <2>11. \A k \in Jobs : k # j /\ InHands(k) => InHands(k)'
    BY <2>3, <2>7 DEF InHands
  <2> QED
    <3>1. \A k \in Jobs : Queued(k)' <=> Queued(k)
      BY <2>2 DEF Queued
    <3>2. ASSUME NEW k \in OwnJobs, caller[k] = "waiting"
          PROVE  (Queued(k) \/ InHands(k) \/ refusing[k] \/ chan[k] # <<>>)'
      BY <3>1, <3>2, <2>2, <2>8, <2>10, <2>11, <1>own DEF PlacesInv
    <3> QED
      <4>1. \A k \in Jobs : caller'[k] # "answered" => got'[k] = Nothing
        BY <2>2 DEF PlacesInv
      <4>2. ASSUME NEW k \in OwnJobs
            PROVE  /\ Len(chan'[k]) <= 1
                   /\ caller'[k] # "refused"
                   /\ caller'[k] = "answered" => chan'[k] = <<>>
        <5>1. /\ Len(chan[k]) <= 1 /\ caller[k] # "refused"
              /\ caller[k] = "answered" => chan[k] = <<>>
          BY <1>own DEF PlacesInv
        <5>2. CASE k = j
          <6>1. j \in OwnJobs /\ Len(chan'[j]) = 1
            BY <5>2, <2>10
          <6>2. caller[j] # "answered"
            BY <6>1, <2>6
          <6>3. caller' = caller
            BY <2>2
          <6> QED
            BY <5>1, <5>2, <6>1, <6>2, <6>3
        <5>3. CASE k # j
          BY <5>1, <5>3, <2>2, <2>8
        <5> QED
          BY <5>2, <5>3
      <4> QED
        BY <3>2, <4>1, <4>2, <2>2 DEF PlacesInv
<1> QED
  BY <1>1, <1>2, <1>3, <1>4, <1>5, <1>6, <1>7, <1>8, <1>9
     DEF Next, Lifecycle, CallerStep, WorkerStep

\* The places of a job, in every reachable state.
LEMMA PlacesHold == Spec => []PlacesInv
<1>1. (TypeOK /\ JobsInPlace /\ PlacesInv) /\ [Next]_vars => (TypeOK /\ JobsInPlace /\ PlacesInv)'
  BY TypeStep, JobsStep, PlacesStep
<1> QED
  BY <1>1, TypeInit, JobsInit, PlacesInit, PTL DEF Spec

\* How often at most one thing of a kind is there.
LEMMA CountAtMostOne ==
    ASSUME NEW S, \A x, y \in S : x = y
    PROVE  Cardinality(S) = IF S = {} THEN 0 ELSE 1
<1>1. CASE S = {}
  BY <1>1, FS_EmptySet
<1>2. ASSUME NEW x \in S PROVE Cardinality(S) = 1
  <2>1. S = {x}
    OBVIOUS
  <2> QED
    BY <2>1, FS_Singleton
<1> QED
  BY <1>1, <1>2

\* The places of a job exclude each other.
LEMMA CopiesCounted ==
    ASSUME TypeOK, JobsInPlace, PlacesInv, NEW j \in OwnJobs
    PROVE  Copies(j) = IF caller[j] = "waiting" THEN 1 ELSE 0
<1> DEFINE Q == {i \in DOMAIN queue : queue[i] = j}
           H == {w \in Goroutines : holding[w] = j /\ pc[w] = "running"}
<1>inv. QueueInv /\ HandsInv /\ RefusalInv /\ j \in Jobs /\ j \in Channels
  BY DEF JobsInPlace, OwnJobs, Channels
<1>type. /\ refusing[j] \in BOOLEAN /\ chan[j] \in Seq(Results)
         /\ caller[j] \in {"new", "waiting", "refused", "answered"}
  BY <1>inv DEF TypeOK
<1>1. Cardinality(Q) = IF Queued(j) THEN 1 ELSE 0
  <2>1. Cardinality(Q) = IF Q = {} THEN 0 ELSE 1
    BY <1>inv, CountAtMostOne DEF QueueInv
  <2> QED
    BY <2>1 DEF Queued
<1>2. Cardinality(H) = IF InHands(j) THEN 1 ELSE 0
  <2>1. Cardinality(H) = IF H = {} THEN 0 ELSE 1
    BY <1>inv, CountAtMostOne DEF HandsInv
  <2> QED
    BY <2>1 DEF InHands
<1>3. Len(chan[j]) = IF chan[j] # <<>> THEN 1 ELSE 0
  <2>1. Len(chan[j]) <= 1
    BY <1>inv DEF PlacesInv
  <2> QED
    BY <2>1, <1>type
<1>4. Copies(j) = (IF Queued(j) THEN 1 ELSE 0) + (IF InHands(j) THEN 1 ELSE 0)
                  + (IF refusing[j] THEN 1 ELSE 0) + (IF chan[j] # <<>> THEN 1 ELSE 0)
  BY <1>1, <1>2, <1>3 DEF Copies
<1>5. Queued(j) => /\ task[j] = "none" /\ caller[j] # "new" /\ ~refusing[j]
                   /\ chan[j] = <<>> /\ caller[j] # "answered"
  BY <1>inv DEF Queued, QueueInv, Unanswered
<1>6. InHands(j) => task[j] # "none" /\ chan[j] = <<>> /\ caller[j] # "answered"
  BY <1>inv DEF InHands, HandsInv, Unanswered
<1>7. caller[j] = "new" \/ refusing[j] =>
        /\ ~(caller[j] = "new" /\ refusing[j]) /\ task[j] = "none"
        /\ chan[j] = <<>> /\ caller[j] # "answered"
  BY <1>inv DEF RefusalInv, Unanswered
<1>8. /\ caller[j] # "refused"
      /\ caller[j] = "answered" => chan[j] = <<>>
      /\ caller[j] = "waiting" => Queued(j) \/ InHands(j) \/ refusing[j] \/ chan[j] # <<>>
  BY <1>inv DEF PlacesInv
<1> QED
  BY <1>4, <1>5, <1>6, <1>7, <1>8, <1>type

\* A job whose caller waits is at exactly one place and any other job at none:
\* no interleaving of submitters, workers, contexts, stops and restarts loses a
\* job of SubmitTask or answers it twice (pool.go:116-180, 267-294).
THEOREM NoCopyLostOrMade == Spec => []ExactlyOneCopy
<1>1. TypeOK /\ JobsInPlace /\ PlacesInv => ExactlyOneCopy
  BY CopiesCounted DEF ExactlyOneCopy
<1> QED
  BY <1>1, TypeCorrect, JobsStayInPlace, PlacesHold, PTL

-----------------------------------------------------------------------------
(* The pool implements JobService: every step of the pool is the step of   *)
(* the service that the mapping of ImplementsService shows, or changes     *)
(* nothing the service has.  The three functions below are that mapping.   *)

verdict == [j \in OwnJobs |->
    IF caller[j] = "new" THEN "none"
    ELSE IF RefusedSoFar(j) THEN "refused" ELSE "accepted"]
executed == [j \in OwnJobs |-> task[j] # "none"]
answer == [j \in OwnJobs |-> IF got[j].kind = "nothing" THEN "none" ELSE got[j].kind]

\* A new pool is a closed service nobody has asked.
LEMMA ServiceInit == Init => Service!Init
<1> SUFFICES ASSUME Init PROVE Service!Init
  OBVIOUS
<1>1. /\ isRunning = FALSE /\ OwnJobs \subseteq Jobs
      /\ \A j \in OwnJobs : caller[j] = "new" /\ task[j] = "none" /\ got[j].kind = "nothing"
  BY DEF Init, OwnJobs, Nothing
<1> QED
  BY <1>1 DEF Service!Init

\* The service sees a step only in what it changes about the jobs of SubmitTask.
LEMMA ServiceUnchanged ==
    ASSUME \A j \in OwnJobs :
             /\ (caller[j] = "new")' <=> caller[j] = "new"
             /\ RefusedSoFar(j)' <=> RefusedSoFar(j)
             /\ (task[j] # "none")' <=> task[j] # "none"
             /\ got'[j] = got[j]
    PROVE  verdict' = verdict /\ executed' = executed /\ answer' = answer
BY DEF verdict, executed, answer

\* Start and Stop open and close the service, Submit is its verdict, TakeJob its
\* execution and Receive its answer; everything else is invisible to it.
LEMMA ServiceStep ==
    TypeOK /\ JobsInPlace /\ PlacesInv /\ [Next]_vars => [Service!Next]_(Service!vars)
<1> SUFFICES ASSUME TypeOK, JobsInPlace, PlacesInv, [Next]_vars
             PROVE  Service!Next \/ UNCHANGED <<isRunning, verdict, executed, answer>>
  BY DEF Service!vars, verdict, executed, answer
<1> USE JobsAssumption
<1>inv. QueueInv /\ HandsInv /\ RefusalInv /\ AnswerInv
  BY DEF JobsInPlace
<1>type. /\ isRunning \in BOOLEAN /\ queue \in Seq(Jobs)
         /\ refusing \in [Jobs -> BOOLEAN]
         /\ chan \in [Channels -> Seq(Results)] /\ closed \in [Channels -> BOOLEAN]
         /\ caller \in [Jobs -> {"new", "waiting", "refused", "answered"}]
         /\ task \in [Jobs -> {"none", "running", "ended"}]
         /\ got \in [Jobs -> Results \cup {Nothing, ZeroResult}]
         /\ pc \in [Goroutines -> PCs]
         /\ holding \in [Goroutines -> Jobs \cup {NoJob}]
  BY DEF TypeOK
<1>hands. \A w \in Goroutines : pc[w] \in {"running", "closing"} <=> holding[w] \in Jobs
  BY DEF TypeOK, HandsMatch
<1>own. /\ OwnJobs \subseteq Jobs /\ OwnJobs \subseteq Channels
        /\ \A j \in OwnJobs : ChanOf(j) = j /\ Cap(j) = 1
        /\ \A j \in Jobs \ OwnJobs : ChanOf(j) = SharedCh
        /\ SharedCh \notin OwnJobs
  BY DEF OwnJobs, Channels, ChanOf, Cap
<1>jobs. /\ verdict = [j \in OwnJobs |-> verdict[j]]
         /\ executed = [j \in OwnJobs |-> executed[j]]
         /\ answer = [j \in OwnJobs |-> answer[j]]
  BY DEF verdict, executed, answer
<1>same. ASSUME UNCHANGED <<task, chan, caller, got, refusing>>
         PROVE  UNCHANGED <<verdict, executed, answer>>
  BY <1>same, ServiceUnchanged DEF RefusedSoFar
\* A job nothing was sent for has no refusal and no answer yet.
<1>fresh. ASSUME NEW j \in OwnJobs, Unanswered(j), ~refusing[j]
          PROVE  ~RefusedSoFar(j) /\ answer[j] = "none"
  BY <1>fresh, <1>own DEF Unanswered, PlacesInv, RefusedSoFar, answer, Nothing
<1>1. CASE Start
  <2>1. isRunning = FALSE /\ isRunning' = TRUE
    BY <1>1 DEF Start
  <2>2. UNCHANGED <<verdict, executed, answer>>
    BY <1>1, <1>same DEF Start, jobVars, chanVars, callerVars
  <2> QED
    BY <2>1, <2>2 DEF Service!Next, Service!Open, verdict, executed, answer
<1>2. CASE StopGraceful \/ StopTimeout
  <2>1. isRunning' = FALSE
    BY <1>2 DEF StopGraceful, StopTimeout, FinishStop
  <2>2. UNCHANGED <<verdict, executed, answer>>
    BY <1>2, <1>same DEF StopGraceful, StopTimeout, FinishStop, jobVars, chanVars, callerVars
  <2> QED
    BY <2>1, <2>2, <1>type DEF Service!Next, Service!Close, verdict, executed, answer
<1>3. CASE StopBegin \/ WaiterBlocks \/ WaiterReturns \/ MonitorExits \/ UNCHANGED vars
  BY <1>3, <1>same DEF StopBegin, WaiterBlocks, WaiterReturns, MonitorExits, vars,
     poolVars, jobVars, chanVars, callerVars
<1>4. ASSUME NEW w \in Goroutines,
             CloseResult(w) \/ SeeQuit(w) \/ WorkerUntracked(w) \/ WorkerDone(w)
      PROVE  UNCHANGED <<isRunning, verdict, executed, answer>>
  BY <1>4, <1>same DEF CloseResult, SeeQuit, WorkerUntracked, WorkerDone, poolVars,
     jobVars, chanVars, callerVars
<1>5. ASSUME NEW j \in Jobs, CtxDone(j) PROVE UNCHANGED <<isRunning, verdict, executed, answer>>
  BY <1>5, <1>same DEF CtxDone, poolVars, chanVars, callerVars
<1>6. ASSUME NEW j \in Jobs, TaskEnds(j) PROVE UNCHANGED <<isRunning, verdict, executed, answer>>
  <2>1. UNCHANGED <<isRunning, chan, caller, got, refusing>>
    BY <1>6 DEF TaskEnds, poolVars, chanVars, callerVars
  <2>2. \A k \in OwnJobs : (task[k] # "none")' <=> task[k] # "none"
    BY <1>6, <1>type, <1>own DEF TaskEnds
  <2> QED
    BY <2>1, <2>2, ServiceUnchanged DEF RefusedSoFar
<1>7. ASSUME NEW j \in Jobs, Submit(j)
      PROVE  Service!Next \/ UNCHANGED <<isRunning, verdict, executed, answer>>
  <2>1. /\ UNCHANGED <<isRunning, task, chan, got>>
        /\ caller[j] = "new"
        /\ \A k \in Jobs : k # j => caller'[k] = caller[k] /\ refusing'[k] = refusing[k]
    BY <1>7, <1>type DEF Submit, poolVars, jobVars, chanVars
  <2>2. \A k \in OwnJobs : k # j => (RefusedSoFar(k)' <=> RefusedSoFar(k))
    BY <2>1, <1>own DEF RefusedSoFar
  <2>3. CASE j \notin OwnJobs
    <3>1. UNCHANGED <<verdict, executed, answer>>
      BY <2>1, <2>2, <2>3, <1>own, ServiceUnchanged
    <3> QED
      BY <2>1, <3>1
  <2>4. CASE j \in OwnJobs
    <3>1. Unanswered(j) /\ ~refusing[j]
      BY <2>1, <2>4, <1>inv DEF RefusalInv
    <3>2. ~RefusedSoFar(j) /\ verdict[j] = "none"
      BY <2>1, <2>4, <3>1, <1>fresh DEF verdict
    <3>3. executed' = executed /\ answer' = answer
      BY <2>1 DEF executed, answer
    <3>4. caller'[j] = "waiting"
      BY <1>7, <2>4, <1>type DEF Submit, OwnJobs
    <3>5. \A k \in OwnJobs : k # j => verdict'[k] = verdict[k]
      BY <2>1, <2>2, <1>own DEF verdict
    <3>6. CASE Accepts
      <4>1. isRunning /\ refusing' = refusing
        BY <1>7, <3>6 DEF Submit, Accepts
      <4>2. ~RefusedSoFar(j)'
        BY <2>1, <3>2, <4>1 DEF RefusedSoFar
      <4>3. verdict'[j] = "accepted"
        BY <2>4, <3>4, <4>2 DEF verdict
      <4>4. verdict' = [verdict EXCEPT ![j] = "accepted"]
        BY <2>4, <3>5, <4>3 DEF verdict
      <4>5. Service!Accept(j)
        BY <2>1, <3>2, <3>3, <4>1, <4>4 DEF Service!Accept, verdict, executed, answer
      <4> QED
        BY <2>4, <4>5 DEF Service!Next
    <3>7. CASE ~Accepts
      <4>1. refusing'[j]
        BY <1>7, <2>4, <3>7, <1>type DEF Submit, OwnJobs
      <4>2. verdict'[j] = "refused"
        BY <2>4, <3>4, <4>1 DEF verdict, RefusedSoFar
      <4>3. verdict' = [verdict EXCEPT ![j] = "refused"]
        BY <2>4, <3>5, <4>2 DEF verdict
      <4>4. Service!Refuse(j)
        BY <2>1, <3>2, <3>3, <4>3 DEF Service!Refuse, verdict, executed, answer
      <4> QED
        BY <2>4, <4>4 DEF Service!Next
    <3> QED
      BY <3>6, <3>7
  <2> QED
    BY <2>3, <2>4
<1>8. ASSUME NEW j \in Jobs, Refuse(j)
      PROVE  UNCHANGED <<isRunning, verdict, executed, answer>>
  <2> DEFINE r == [job |-> j, kind |-> "refused"]
  <2>1. /\ UNCHANGED <<isRunning, task, caller, got>>
        /\ refusing[j] /\ chan' = [chan EXCEPT ![j] = Append(chan[j], r)]
        /\ refusing' = [refusing EXCEPT ![j] = FALSE]
    BY <1>8 DEF Refuse, poolVars, jobVars
  <2>2. r \in Results /\ r.kind = "refused"
    BY ResultType
  <2> HIDE DEF r
  <2>3. \A k \in OwnJobs : k # j => (RefusedSoFar(k)' <=> RefusedSoFar(k))
    BY <2>1, <1>type, <1>own DEF RefusedSoFar
  <2>4. j \in OwnJobs => RefusedSoFar(j) /\ RefusedSoFar(j)'
    <3> SUFFICES ASSUME j \in OwnJobs PROVE RefusedSoFar(j) /\ RefusedSoFar(j)'
      OBVIOUS
    <3>1. chan'[j] = Append(chan[j], r) /\ chan[j] \in Seq(Results)
      BY <2>1, <1>type, <1>own
    <3>2. Len(chan[j]) + 1 \in DOMAIN chan'[j] /\ chan'[j][Len(chan[j]) + 1] = r
      BY <2>2, <3>1, AppendFacts
    <3> QED
      BY <2>1, <2>2, <3>2 DEF RefusedSoFar
  <2> QED
    BY <2>1, <2>3, <2>4, ServiceUnchanged
<1>9. ASSUME NEW j \in Jobs, Receive(j)
      PROVE  Service!Next \/ UNCHANGED <<isRunning, verdict, executed, answer>>
  <2> DEFINE c == ChanOf(j)
  <2>1. /\ UNCHANGED <<isRunning, task, closed, refusing>>
        /\ caller[j] = "waiting" /\ caller' = [caller EXCEPT ![j] = "answered"]
        /\ \/ /\ chan[c] # <<>> /\ chan' = [chan EXCEPT ![c] = Tail(chan[c])]
              /\ got' = [got EXCEPT ![j] = Head(chan[c])]
           \/ /\ chan[c] = <<>> /\ closed[c] /\ chan' = chan
              /\ \E g : got' = [got EXCEPT ![j] = g]
    BY <1>9 DEF Receive, poolVars, jobVars
  <2>2. c \in Channels /\ (j \in OwnJobs => c = j) /\ (j \notin OwnJobs => c \notin OwnJobs)
    BY <1>own, ChanOfType
  <2> HIDE DEF c
  <2>3. \A k \in OwnJobs : k # j => chan'[k] = chan[k] /\ got'[k] = got[k]
    BY <2>1, <2>2, <1>type, <1>own
  <2>4. \A k \in Jobs : (caller[k] = "new")' <=> caller[k] = "new"
    BY <2>1, <1>type
  <2>5. \A k \in OwnJobs : k # j => (RefusedSoFar(k)' <=> RefusedSoFar(k))
    BY <2>1, <2>3, <1>own DEF RefusedSoFar
  <2>6. CASE j \notin OwnJobs
    <3>1. UNCHANGED <<verdict, executed, answer>>
      BY <2>1, <2>3, <2>4, <2>5, <2>6, <1>own, ServiceUnchanged
    <3> QED
      BY <2>1, <3>1
  <2>7. CASE j \in OwnJobs
    <3>1. PICK r \in Results :
            /\ chan[j] # <<>> /\ r = Head(chan[j])
            /\ chan'[j] = Tail(chan[j]) /\ got'[j] = r
      <4>1. c = j /\ chan[j] # <<>> /\ chan[j] \in Seq(Results)
        BY <2>1, <2>2, <2>7, <1>inv, <1>type DEF AnswerInv
      <4>2. Head(chan[j]) \in Results
        BY <4>1
      <4> QED
        BY <2>1, <2>2, <2>7, <4>1, <4>2, <1>type, <1>own
    <3>2. /\ Honest(j, r)
          /\ \A i \in DOMAIN chan[j] : Honest(j, chan[j][i])
          /\ \A i \in DOMAIN chan'[j] : Honest(j, chan'[j][i])
      <4>1. \A i \in DOMAIN chan[j] : Honest(j, chan[j][i])
        BY <2>7, <1>inv DEF AnswerInv
      <4>2. /\ 1 \in DOMAIN chan[j] /\ r = chan[j][1]
            /\ \A i \in DOMAIN chan'[j] : i + 1 \in DOMAIN chan[j] /\ chan'[j][i] = chan[j][i + 1]
        BY <3>1, <2>7, <1>type, <1>own, TailFacts
      <4> QED
        BY <4>1, <4>2
    <3>3. ~refusing[j] /\ got[j] = Nothing
      BY <2>1, <2>7, <3>1, <1>inv, <1>own DEF RefusalInv, Unanswered, PlacesInv
    <3>4. RefusedSoFar(j) <=> task[j] = "none"
      <4>1. 1 \in DOMAIN chan[j]
        BY <3>1, <2>7, <1>type, <1>own, TailFacts
      <4> QED
        BY <3>2, <3>3, <4>1 DEF RefusedSoFar, Honest, Nothing
    <3>5. RefusedSoFar(j)' <=> task[j] = "none"
      BY <2>1, <3>1, <3>2, <3>3 DEF RefusedSoFar, Honest
    <3>6. verdict' = verdict /\ executed' = executed
      BY <2>1, <2>4, <2>5, <3>4, <3>5, <1>own DEF verdict, executed
    <3>7. answer[j] = "none" /\ answer'[j] = r.kind /\ r.kind \in {"task", "ctx", "refused"}
      BY <2>7, <3>1, <3>3 DEF answer, Nothing, Results
    <3>8. answer' = [answer EXCEPT ![j] = r.kind]
      BY <2>3, <2>7, <3>7, <1>own DEF answer
    <3>9. r.kind = "refused" <=> verdict[j] = "refused"
      BY <2>1, <2>7, <3>2, <3>4 DEF Honest, verdict
    <3>10. r.kind # "refused" => executed[j]
      BY <2>7, <3>2 DEF Honest, executed
    <3>11. Service!Answer(j)
      BY <2>1, <3>6, <3>7, <3>8, <3>9, <3>10 DEF Service!Answer, verdict, executed, answer
    <3> QED
      BY <2>7, <3>11 DEF Service!Next
  <2> QED
    BY <2>6, <2>7
<1>10. ASSUME NEW w \in Goroutines, TakeJob(w)
       PROVE  Service!Next \/ UNCHANGED <<isRunning, verdict, executed, answer>>
  <2>0. PICK j : j = Head(queue)
    OBVIOUS
  <2>1. /\ UNCHANGED <<isRunning, chan, closed, caller, got, refusing>>
        /\ queue # <<>> /\ task' = [task EXCEPT ![j] = "running"]
    BY <1>10, <2>0 DEF TakeJob, poolVars, chanVars, callerVars
  <2>2. 1 \in DOMAIN queue /\ queue[1] = j /\ j \in Jobs
    BY <2>0, <2>1, <1>type
  <2>3. UNCHANGED <<verdict, answer>>
    BY <2>1 DEF verdict, answer, RefusedSoFar
  <2>4. CASE j \notin OwnJobs
    <3>1. executed' = executed
      BY <2>1, <2>2, <2>4, <1>type, <1>own DEF executed
    <3> QED
      BY <2>1, <2>3, <3>1
  <2>5. CASE j \in OwnJobs
    <3>1. /\ task[j] = "none" /\ caller[j] # "new" /\ ~refusing[j] /\ Unanswered(j)
      BY <2>2, <2>5, <1>inv DEF QueueInv
    <3>2. verdict[j] = "accepted" /\ executed[j] = FALSE
      BY <2>5, <3>1, <1>fresh DEF verdict, executed
    <3>3. executed' = [executed EXCEPT ![j] = TRUE]
      BY <2>1, <2>2, <2>5, <1>type, <1>own DEF executed
    <3>4. Service!Execute(j)
      BY <2>1, <2>3, <3>2, <3>3 DEF Service!Execute, verdict, executed, answer
    <3> QED
      BY <2>5, <3>4 DEF Service!Next
  <2> QED
    BY <2>4, <2>5
<1>11. ASSUME NEW w \in Goroutines, WorkerGetsTask(w) \/ WorkerSeesCtx(w)
       PROVE  UNCHANGED <<isRunning, verdict, executed, answer>>
  <2>1. PICK kind \in {"task", "ctx"} : Send(w, kind)
    BY <1>11 DEF WorkerGetsTask, WorkerSeesCtx
  <2>2. pc[w] = "running" /\ UNCHANGED <<isRunning, task, caller, got, refusing>>
    BY <1>11 DEF WorkerGetsTask, WorkerSeesCtx, poolVars, jobVars, callerVars
  <2>3. PICK j : j = holding[w]
    OBVIOUS
  <2> DEFINE c == ChanOf(j)
             r == [job |-> j, kind |-> kind]
  <2>4. j \in Jobs
    BY <2>2, <2>3, <1>hands
  <2>5. r \in Results /\ r.kind # "refused"
    BY <2>4, ResultType
  <2>6. c \in Channels /\ (j \in OwnJobs => c = j) /\ (j \notin OwnJobs => c \notin OwnJobs)
    BY <2>4, <1>own, ChanOfType
  <2>7. chan' = chan \/ chan' = [chan EXCEPT ![c] = Append(chan[c], r)]
    BY <2>1, <2>3 DEF Send
  <2> HIDE DEF c, r
  <2>8. ASSUME NEW k \in OwnJobs PROVE RefusedSoFar(k)' <=> RefusedSoFar(k)
    <3>1. CASE chan'[k] = chan[k]
      BY <3>1, <2>2 DEF RefusedSoFar
    <3>2. CASE chan'[k] = Append(chan[k], r)
      <4>1. /\ \A i \in DOMAIN chan[k] : i \in DOMAIN chan'[k] /\ chan'[k][i] = chan[k][i]
            /\ \A i \in DOMAIN chan'[k] : i \in DOMAIN chan[k] \/ chan'[k][i] = r
        BY <3>2, <2>5, <1>type, <1>own, AppendFacts
      <4> QED
        BY <4>1, <2>2, <2>5 DEF RefusedSoFar
    <3> QED
      BY <3>1, <3>2, <2>6, <2>7, <1>type, <1>own
  <2> QED
    BY <2>2, <2>8, ServiceUnchanged
<1> QED
  BY <1>1, <1>2, <1>3, <1>4, <1>5, <1>6, <1>7, <1>8, <1>9, <1>10, <1>11
     DEF Next, Lifecycle, CallerStep, WorkerStep

\* Seen from the callers of SubmitTask the pool is a JobService, whatever the
\* number of workers, jobs, full queues, restarts and shared channels.
THEOREM PoolImplementsService == Spec => ImplementsService
<1>1. Spec => [](TypeOK /\ JobsInPlace /\ PlacesInv)
  BY TypeCorrect, JobsStayInPlace, PlacesHold, PTL
<1> QED
  BY <1>1, ServiceInit, ServiceStep, PTL DEF Spec, ImplementsService, Service!Spec

=============================================================================

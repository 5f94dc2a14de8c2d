------------------------------ MODULE BidBatch ------------------------------
(***************************************************************************)
(* One batch over a worker pool: WorkerPool.ProcessBatch of                *)
(* internal/workerpool/pool.go, and ProcessMultipleBidRequests and         *)
(* ProcessBatch of internal/workerpool/bid_pool.go, whose jobs' results    *)
(* pass through a forwarding goroutine each (ProcessBidRequest).           *)
(*                                                                         *)
(* The pool is JobService, which WorkerPool implements; the jobs carry the *)
(* context of the batch.                                                   *)
(***************************************************************************)
EXTENDS Integers, FiniteSets

CONSTANTS
    Items,         \* the tasks a batch may hold
    IdOf,          \* their IDs
    NoItem

ASSUME BatchAssumption == IsFiniteSet(Items) /\ NoItem \notin Items

Ids == {IdOf[i] : i \in Items}

VARIABLES
    open, verdict, executed, answer,   \* the pool
    batch,       \* the items of the batch
    forwarded,   \* it is a batch of BidWorkerPool, not of WorkerPool
    hasDeadline, \* its context ends by itself
    caller,      \* of the batch: "idle", "waiting" or "returned"
    ctxDone,     \* its context is done
    item,        \* each goroutine: "unborn", "new", "waiting", or what it stored
    forwarder,   \* "none", "reading" or "ended"
    resultCh,    \* what the forwarder sent: "none", "ok" or "error"
    results,     \* the map: the item whose result an ID has
    errorCount,
    tracked      \* monitor.activeGoroutines["batch_processor"]

poolVars == <<open, verdict, executed, answer>>
batchVars == <<batch, forwarded, hasDeadline>>
itemVars == <<item, results, errorCount, tracked>>
forwardVars == <<forwarder, resultCh>>
vars == <<poolVars, batchVars, caller, ctxDone, itemVars, forwardVars>>

Pool == INSTANCE JobService WITH Jobs <- Items

Init ==
    /\ Pool!Init
    /\ batch = {}
    /\ forwarded = FALSE
    /\ hasDeadline = FALSE
    /\ caller = "idle"
    /\ ctxDone = FALSE
    /\ item = [i \in Items |-> "unborn"]
    /\ forwarder = [i \in Items |-> "none"]
    /\ resultCh = [i \in Items |-> "none"]
    /\ results = [id \in Ids |-> NoItem]
    /\ errorCount = 0
    /\ tracked = 0

PoolStep ==
    /\ Pool!Open \/ Pool!Close \/ \E i \in Items : Pool!Execute(i)
    /\ UNCHANGED <<batchVars, caller, ctxDone, itemVars, forwardVars>>

CtxDone ==
    /\ ~ctxDone
    /\ ctxDone' = TRUE
    /\ UNCHANGED <<poolVars, batchVars, caller, itemVars, forwardVars>>

\* The call, up to wg.Wait: one goroutine per item.  A batch of WorkerPool is
\* a map, so its IDs differ.
Call ==
    /\ caller = "idle"
    /\ caller' = "waiting"
    /\ forwarded' \in BOOLEAN /\ hasDeadline' \in BOOLEAN
    /\ batch' \in SUBSET Items
    /\ forwarded' \/ \A i, k \in batch' : IdOf[i] = IdOf[k] => i = k
    /\ item' = [i \in Items |-> IF i \in batch' THEN "new" ELSE item[i]]
    /\ tracked' = IF forwarded' THEN tracked ELSE tracked + Cardinality(batch')
    /\ UNCHANGED <<poolVars, ctxDone, results, errorCount, forwardVars>>

\* SubmitTaskWithContext, and the start of the forwarding goroutine.
SubmitItem(i) ==
    /\ item[i] = "new"
    /\ Pool!Accept(i) \/ Pool!Refuse(i)
    /\ item' = [item EXCEPT ![i] = "waiting"]
    /\ forwarder' = [forwarder EXCEPT ![i] = IF forwarded THEN "reading" ELSE "none"]
    /\ UNCHANGED <<batchVars, caller, ctxDone, results, errorCount, tracked, resultCh>>

\* The read of the job's channel; only a done context yields its error.
JobAnswers(i, outcome) ==
    /\ Pool!Answer(i)
    /\ answer'[i] = "ctx" => ctxDone
    /\ outcome = "ok" => answer'[i] = "task"

ForwardUnbuffered(i) ==
    /\ forwarder[i] = "reading"
    /\ item[i] = "waiting"
    /\ \E outcome \in {"ok", "error"} :
        JobAnswers(i, outcome) /\ resultCh' = [resultCh EXCEPT ![i] = outcome]
    /\ forwarder' = [forwarder EXCEPT ![i] = "ended"]
    /\ UNCHANGED <<batchVars, caller, ctxDone, itemVars>>

\* resultCh has room for one result, so the forwarder never waits for a
\* reader.
Forward(i) ==
    /\ forwarder[i] = "reading"
    /\ \E outcome \in {"ok", "error"} :
        JobAnswers(i, outcome) /\ resultCh' = [resultCh EXCEPT ![i] = outcome]
    /\ forwarder' = [forwarder EXCEPT ![i] = "ended"]
    /\ UNCHANGED <<batchVars, caller, ctxDone, itemVars>>

\* What an item stores under the mutex, with the end of its goroutine.
StoreResult(i, outcome) ==
    /\ results' = [results EXCEPT ![IdOf[i]] = i]
    /\ item' = [item EXCEPT ![i] = outcome]
    /\ errorCount' = IF forwarded /\ outcome = "error" THEN errorCount + 1 ELSE errorCount
    /\ tracked' = IF forwarded THEN tracked ELSE tracked - 1

\* The two branches of an item's select.
ItemGetsResult(i) ==
    /\ item[i] = "waiting"
    /\ \/ /\ forwarded /\ resultCh[i] # "none"
          /\ StoreResult(i, resultCh[i])
          /\ resultCh' = [resultCh EXCEPT ![i] = "none"]
          /\ UNCHANGED poolVars
       \/ /\ ~forwarded
          /\ \E outcome \in {"ok", "error"} :
                JobAnswers(i, outcome) /\ StoreResult(i, outcome)
          /\ UNCHANGED resultCh
    /\ UNCHANGED <<batchVars, caller, ctxDone, forwarder>>

ItemSeesCtxUncounted(i) ==
    /\ item[i] = "waiting"
    /\ ctxDone
    /\ results' = [results EXCEPT ![IdOf[i]] = i]
    /\ item' = [item EXCEPT ![i] = "error"]
    /\ tracked' = IF forwarded THEN tracked ELSE tracked - 1
    /\ UNCHANGED <<poolVars, batchVars, caller, ctxDone, errorCount, forwardVars>>

ItemIgnoresCtx(i) == FALSE

ItemSeesCtx(i) ==
    /\ item[i] = "waiting"
    /\ ctxDone
    /\ StoreResult(i, "error")
    /\ UNCHANGED <<poolVars, batchVars, caller, ctxDone, forwardVars>>

Stored == {i \in Items : item[i] \in {"ok", "error"}}

Return ==
    /\ caller = "waiting"
    /\ Stored = batch
    /\ caller' = "returned"
    /\ UNCHANGED <<poolVars, batchVars, ctxDone, itemVars, forwardVars>>

ItemStep(i) == SubmitItem(i) \/ ItemGetsResult(i) \/ ItemSeesCtx(i)

Next ==
    \/ PoolStep \/ CtxDone \/ Call \/ Return
    \/ \E i \in Items : ItemStep(i) \/ Forward(i)

Spec == Init /\ [][Next]_vars

(* Goroutines that can run do; an open pool executes what it accepted      *)
(* if it was not restarted (AnsweredWhileRunning of WorkerPool); a         *)
(* deadline passes.                                                        *)
Fairness ==
    /\ \A i \in Items :
        /\ WF_vars(ItemStep(i))
        /\ WF_vars(Forward(i))
        /\ WF_vars(open /\ Pool!Execute(i)
                     /\ UNCHANGED <<batchVars, caller, ctxDone, itemVars, forwardVars>>)
    /\ WF_vars(hasDeadline /\ CtxDone)
    /\ WF_vars(Return)

LiveSpec == Spec /\ Fairness

-----------------------------------------------------------------------------
TypeOK ==
    /\ Pool!TypeOK
    /\ batch \subseteq Items
    /\ forwarded \in BOOLEAN /\ hasDeadline \in BOOLEAN
    /\ caller \in {"idle", "waiting", "returned"}
    /\ ctxDone \in BOOLEAN
    /\ item \in [Items -> {"unborn", "new", "waiting", "ok", "error"}]
    /\ forwarder \in [Items -> {"none", "reading", "ended"}]
    /\ resultCh \in [Items -> {"none", "ok", "error"}]
    /\ results \in [Ids -> Items \cup {NoItem}]
    /\ errorCount \in 0 .. Cardinality(Items)
    /\ tracked \in 0 .. Cardinality(Items)

\* When the batch returns, every ID has a result of an item with that ID, no
\* goroutine of the batch is still tracked, the error count is that of the
\* items, and a success is that of a task that ran and was not refused
\* (bid_pool.go:94-155, pool.go:340-374).
BatchAccounted ==
    caller = "returned" =>
        /\ \A i \in batch :
            results[IdOf[i]] \in Stored /\ IdOf[results[IdOf[i]]] = IdOf[i]
        /\ tracked = 0
        /\ forwarded => errorCount = Cardinality({i \in Items : item[i] = "error"})
        /\ \A i \in Items :
            item[i] = "ok" => executed[i] /\ answer[i] = "task"

\* The batch is accounted for, over values of the right types
\* (bid_pool.go:66-155).
BatchInv == TypeOK /\ BatchAccounted

\* A batch returns if its context has a deadline, or else if the pool is not
\* stopped under it.  The forwarding goroutine of a job ends unless the pool is
\* stopped, also when its item took the context's branch and nobody reads its
\* result (bid_pool.go:66-79, 94-155).
NothingLeftBehind ==
    /\ caller = "waiting" ~> caller = "returned" \/ (~hasDeadline /\ ~open)
    /\ \A i \in Items : forwarder[i] = "reading" ~> forwarder[i] = "ended" \/ ~open

=============================================================================

---------------------------- MODULE BidProcessor ----------------------------
(***************************************************************************)
(* The bid processor of internal/processor/concurrent.go: requests queued  *)
(* by SubmitBidRequest and processed by workers, and the requests of one   *)
(* call of ProcessBidRequestsConcurrently, whose context may be done.      *)
(* Both go through ProcessBidRequest, which calls every buyer in a         *)
(* goroutine of its own and returns when all have written their result, or *)
(* when the context is done.                                               *)
(*                                                                         *)
(* A call of a buyer (BuyerClient) ends with a response or with an error.  *)
(***************************************************************************)
EXTENDS Integers, Sequences, FiniteSets

CONSTANTS
    NumBuyers,   \* len(bp.buyers)
    Requested,   \* the argument maxWorkers of NewBidProcessor
    Queued,      \* requests given to SubmitBidRequest, each once
    Batch,       \* requests of the call of ProcessBidRequestsConcurrently
    IdOf,        \* the ID of each of them
    MaxStarts,   \* bound: calls of Start
    NoRequest    \* what an idle worker holds

ASSUME ProcessorAssumption ==
    /\ NumBuyers \in Nat
    /\ Requested \in Int
    /\ Queued \cap Batch = {}
    /\ NoRequest \notin Queued
    /\ MaxStarts \in Nat \ {0}

Requests == Queued \cup Batch
Ids == {IdOf[r] : r \in Batch}
Buyers == 1 .. NumBuyers
MaxWorkers == IF Requested <= 0 THEN 10 ELSE Requested
QueueCap == MaxWorkers * 2
Workers == (1 .. MaxStarts) \X (1 .. MaxWorkers)

\* What a response channel carries: the result of one buyer, or the error of
\* a full queue.
Answers == [buyer : Buyers, kind : {"bid", "error"}]
QueueFull == [buyer |-> 0, kind |-> "full"]
Nil == [buyer |-> 0, kind |-> "nil"]      \* read from a closed, empty channel
Empty == [buyer |-> 0, kind |-> "empty"]

VARIABLES
    starts,      \* calls of Start
    stopper,     \* the first call of Stop: "idle", "waiting" or "returned"
    chanClosed,  \* requestChan is closed
    queue,       \* requestChan
    pc,          \* where each worker is
    holding,     \* the request in each worker's hands
    phase,       \* ProcessBidRequest of each request
    results,     \* its slice: "nil" until the buyer's goroutine writes it
    allDone,     \* its channel done is closed
    ctxDone,     \* the context of the batch is done
    stored,      \* the map of the batch: the request whose slice an ID has
    respCh,      \* the response channel of each queued request
    respClosed,
    caller,      \* "new", "waiting", "panicked" or "answered"
    got,         \* what the caller read
    rejecting,   \* the goroutine that reports a full queue is running
    crash        \* a worker dereferenced a nil result, which ends the process

procVars == <<starts, stopper, chanClosed>>
workerVars == <<pc, holding>>
fanVars == <<phase, results, allDone>>
batchVars == <<ctxDone, stored>>
respVars == <<respCh, respClosed>>
callerVars == <<caller, got, rejecting>>
vars == <<procVars, workerVars, queue, fanVars, batchVars, respVars, callerVars, crash>>

Init ==
    /\ starts = 0
    /\ stopper = "idle"
    /\ chanClosed = FALSE
    /\ queue = <<>>
    /\ pc = [w \in Workers |-> "unborn"]
    /\ holding = [w \in Workers |-> NoRequest]
    /\ phase = [r \in Requests |-> "none"]
    /\ results = [r \in Requests |-> [b \in Buyers |-> "nil"]]
    /\ allDone = [r \in Requests |-> FALSE]
    /\ ctxDone = FALSE
    /\ stored = [i \in Ids |-> NoRequest]
    /\ respCh = [r \in Queued |-> Empty]
    /\ respClosed = [r \in Queued |-> FALSE]
    /\ caller = [r \in Queued |-> "new"]
    /\ got = [r \in Queued |-> Empty]
    /\ rejecting = [r \in Queued |-> FALSE]
    /\ crash = FALSE

-----------------------------------------------------------------------------
(* Start and Stop.  Neither looks at what was called before.               *)

Start ==
    /\ starts < MaxStarts
    /\ starts' = starts + 1
    /\ pc' = [w \in Workers |-> IF w[1] = starts + 1 THEN "range" ELSE pc[w]]
    /\ UNCHANGED <<stopper, chanClosed, holding, queue, fanVars,
                   batchVars, respVars, callerVars, crash>>

\* close(bp.requestChan); a second Stop panics there, in its caller, and
\* changes nothing.
StopBegin ==
    /\ ~chanClosed
    /\ chanClosed' = TRUE
    /\ stopper' = "waiting"
    /\ UNCHANGED <<starts, workerVars, queue, fanVars, batchVars, respVars,
                   callerVars, crash>>

\* bp.wg.Wait returns.
StopReturn ==
    /\ stopper = "waiting"
    /\ \A w \in Workers : pc[w] \in {"unborn", "dead"}
    /\ stopper' = "returned"
    /\ UNCHANGED <<starts, chanClosed, workerVars, queue, fanVars,
                   batchVars, respVars, callerVars, crash>>

-----------------------------------------------------------------------------
(* SubmitBidRequest and its caller.                                        *)

SubmitSilently(r) ==
    /\ caller[r] = "new"
    /\ IF chanClosed
       THEN /\ caller' = [caller EXCEPT ![r] = "panicked"]
            /\ UNCHANGED queue
       ELSE /\ caller' = [caller EXCEPT ![r] = "waiting"]
            /\ queue' = IF Len(queue) < QueueCap THEN Append(queue, r) ELSE queue
    /\ UNCHANGED <<starts, stopper, chanClosed, workerVars, fanVars, batchVars,
                   respVars, got, rejecting, crash>>

SubmitOverCap(r) ==
    /\ caller[r] = "new"
    /\ ~chanClosed /\ Len(queue) <= QueueCap
    /\ caller' = [caller EXCEPT ![r] = "waiting"]
    /\ queue' = Append(queue, r)
    /\ UNCHANGED <<procVars, workerVars, fanVars, batchVars, respVars, got,
                   rejecting, crash>>

\* A send on the closed channel panics, default or not.
Submit(r) ==
    /\ caller[r] = "new"
    /\ \/ /\ chanClosed
          /\ caller' = [caller EXCEPT ![r] = "panicked"]
          /\ UNCHANGED <<queue, rejecting>>
       \/ /\ ~chanClosed /\ Len(queue) < QueueCap
          /\ caller' = [caller EXCEPT ![r] = "waiting"]
          /\ queue' = Append(queue, r)
          /\ UNCHANGED rejecting
       \/ /\ ~chanClosed /\ Len(queue) >= QueueCap
          /\ caller' = [caller EXCEPT ![r] = "waiting"]
          /\ rejecting' = [rejecting EXCEPT ![r] = TRUE]
          /\ UNCHANGED queue
    /\ UNCHANGED <<starts, stopper, chanClosed, workerVars, fanVars, batchVars,
                   respVars, got, crash>>

\* The goroutine of the default branch.
Reject(r) ==
    /\ rejecting[r]
    /\ rejecting' = [rejecting EXCEPT ![r] = FALSE]
    /\ respCh' = [respCh EXCEPT ![r] = QueueFull]
    /\ respClosed' = [respClosed EXCEPT ![r] = TRUE]
    /\ UNCHANGED <<procVars, workerVars, queue, fanVars, batchVars, caller, got, crash>>

Receive(r) ==
    /\ caller[r] = "waiting"
    /\ \/ /\ respCh[r] # Empty
          /\ got' = [got EXCEPT ![r] = respCh[r]]
          /\ respCh' = [respCh EXCEPT ![r] = Empty]
       \/ /\ respCh[r] = Empty /\ respClosed[r]
          /\ got' = [got EXCEPT ![r] = Nil]
          /\ UNCHANGED respCh
    /\ caller' = [caller EXCEPT ![r] = "answered"]
    /\ UNCHANGED <<procVars, workerVars, queue, fanVars, batchVars, respClosed,
                   rejecting, crash>>

-----------------------------------------------------------------------------
(* ProcessBidRequest.                                                      *)

\* The value of phase once ProcessBidRequest is called: without buyers it
\* returns nil at once.
Called(r) == [phase EXCEPT ![r] = IF Buyers = {} THEN "returned" ELSE "gathering"]

\* SendBidRequest returns and its goroutine writes its element of the slice,
\* whether or not anybody still waits for it.
BuyerAnswers(r, b) ==
    /\ phase[r] # "none"
    /\ results[r][b] = "nil"
    /\ \E kind \in {"bid", "error"} : results' = [results EXCEPT ![r][b] = kind]
    /\ UNCHANGED <<procVars, workerVars, queue, phase, allDone, batchVars,
                   respVars, callerVars, crash>>

CloseDoneAfterOne(r) ==
    /\ phase[r] # "none"
    /\ ~allDone[r]
    /\ \E b \in Buyers : results[r][b] # "nil"
    /\ allDone' = [allDone EXCEPT ![r] = TRUE]
    /\ UNCHANGED <<procVars, workerVars, queue, phase, results, batchVars,
                   respVars, callerVars, crash>>

CloseDoneForgotten(r) == FALSE

\* wg.Wait, then close(done).
CloseDone(r) ==
    /\ phase[r] # "none"
    /\ ~allDone[r]
    /\ Buyers # {} /\ \A b \in Buyers : results[r][b] # "nil"
    /\ allDone' = [allDone EXCEPT ![r] = TRUE]
    /\ UNCHANGED <<procVars, workerVars, queue, phase, results, batchVars,
                   respVars, callerVars, crash>>

\* The select on done and ctx.Done; a worker's context is Background.
Return(r) ==
    /\ phase[r] = "gathering"
    /\ allDone[r] \/ (r \in Batch /\ ctxDone)
    /\ phase' = [phase EXCEPT ![r] = "returned"]
    /\ UNCHANGED <<procVars, workerVars, queue, results, allDone, batchVars,
                   respVars, callerVars, crash>>

-----------------------------------------------------------------------------
(* Workers.                                                                *)

TakeRequest(w) ==
    /\ pc[w] = "range"
    /\ queue # <<>>
    /\ queue' = Tail(queue)
    /\ holding' = [holding EXCEPT ![w] = Head(queue)]
    /\ phase' = Called(Head(queue))
    /\ pc' = [pc EXCEPT ![w] = "processing"]
    /\ UNCHANGED <<procVars, results, allDone, batchVars, respVars, callerVars, crash>>

\* The first response, else the first result.
Bids(r) == {b \in Buyers : results[r][b] = "bid"}
Chosen(r) ==
    IF Bids(r) = {} THEN 1 ELSE CHOOSE b \in Bids(r) : \A a \in Bids(r) : b <= a

\* The loop reads result.Error of every element up to the one it chooses.
ReadsNil(r) ==
    \E b \in Buyers : results[r][b] = "nil" /\ (Bids(r) # {} => b < Chosen(r))

SendResult(w, b) ==
    LET r == holding[w] IN
    /\ pc[w] = "processing"
    /\ phase[r] = "returned"
    /\ \/ /\ ReadsNil(r)
          /\ crash' = TRUE
          /\ UNCHANGED <<pc, respCh>>
       \/ /\ ~ReadsNil(r)
          /\ IF Buyers = {} THEN UNCHANGED respCh
             ELSE respCh' = [respCh EXCEPT ![r] = [buyer |-> b, kind |-> results[r][b]]]
          /\ pc' = [pc EXCEPT ![w] = "closing"]
          /\ UNCHANGED crash
    /\ UNCHANGED <<procVars, holding, queue, fanVars, batchVars, respClosed, callerVars>>

DeliverFirst(w) == SendResult(w, 1)
Deliver(w) == SendResult(w, Chosen(holding[w]))

CloseResponse(w) ==
    /\ pc[w] = "closing"
    /\ respClosed' = [respClosed EXCEPT ![holding[w]] = TRUE]
    /\ holding' = [holding EXCEPT ![w] = NoRequest]
    /\ pc' = [pc EXCEPT ![w] = "range"]
    /\ UNCHANGED <<procVars, queue, fanVars, batchVars, respCh, callerVars, crash>>

WorkerExitsUndrained(w) ==
    /\ pc[w] = "range"
    /\ chanClosed
    /\ pc' = [pc EXCEPT ![w] = "dead"]
    /\ UNCHANGED <<procVars, holding, queue, fanVars, batchVars, respVars,
                   callerVars, crash>>

\* A range over a closed channel ends when the channel is empty.
WorkerExits(w) ==
    /\ pc[w] = "range"
    /\ chanClosed /\ queue = <<>>
    /\ pc' = [pc EXCEPT ![w] = "dead"]
    /\ UNCHANGED <<procVars, holding, queue, fanVars, batchVars, respVars,
                   callerVars, crash>>

-----------------------------------------------------------------------------
(* ProcessBidRequestsConcurrently: one goroutine per request, each with a  *)
(* processor of its own.                                                   *)

BatchCalls(r) ==
    /\ phase[r] = "none"
    /\ phase' = Called(r)
    /\ UNCHANGED <<procVars, workerVars, queue, results, allDone, batchVars,
                   respVars, callerVars, crash>>

CtxDone ==
    /\ Batch # {}
    /\ ~ctxDone
    /\ ctxDone' = TRUE
    /\ UNCHANGED <<procVars, workerVars, queue, fanVars, stored, respVars,
                   callerVars, crash>>

\* results[req.ID] = bidResults, under the mutex.
Store(r) ==
    /\ phase[r] = "returned"
    /\ stored' = [stored EXCEPT ![IdOf[r]] = r]
    /\ phase' = [phase EXCEPT ![r] = "stored"]
    /\ UNCHANGED <<procVars, workerVars, queue, results, allDone, ctxDone,
                   respVars, callerVars, crash>>

-----------------------------------------------------------------------------
CallerStep(r) == Submit(r) \/ Reject(r) \/ Receive(r)
ProcessStep(r) == CloseDone(r) \/ Return(r) \/ \E b \in Buyers : BuyerAnswers(r, b)
WorkerStep(w) == TakeRequest(w) \/ Deliver(w) \/ CloseResponse(w) \/ WorkerExits(w)
BatchStep(r) == BatchCalls(r) \/ Store(r)

Next ==
    /\ ~crash
    /\ \/ Start \/ StopBegin \/ StopReturn \/ CtxDone
       \/ \E r \in Queued : CallerStep(r)
       \/ \E r \in Requests : ProcessStep(r)
       \/ \E w \in Workers : WorkerStep(w)
       \/ \E r \in Batch : BatchStep(r)

Spec == Init /\ [][Next]_vars

(* Goroutines that can run do; a buyer's call ends, because its HTTP       *)
(* client has a timeout and its limiter grants or refuses in the end; a    *)
(* caller reads its channel.  Nothing forces a call of Start, Stop or      *)
(* Submit, nor the end of the context.  One fairness for all the           *)
(* goroutines of a request is enough: together they take finitely many     *)
(* steps, none of which disables another's.                                *)
Fairness ==
    /\ \A r \in Requests : WF_vars(~crash /\ ProcessStep(r))
    /\ \A r \in Queued : WF_vars(~crash /\ (Reject(r) \/ Receive(r)))
    /\ \A r \in Batch : WF_vars(~crash /\ BatchStep(r))
    /\ \A w \in Workers : WF_vars(~crash /\ WorkerStep(w))
    /\ WF_vars(~crash /\ StopReturn)

LiveSpec == Spec /\ Fairness

-----------------------------------------------------------------------------
TypeOK ==
    /\ starts \in 0 .. MaxStarts
    /\ stopper \in {"idle", "waiting", "returned"}
    /\ chanClosed \in BOOLEAN
    /\ queue \in Seq(Queued) /\ Len(queue) <= QueueCap
    /\ pc \in [Workers -> {"unborn", "range", "processing", "closing", "dead"}]
    /\ holding \in [Workers -> Queued \cup {NoRequest}]
    /\ phase \in [Requests -> {"none", "gathering", "returned", "stored"}]
    /\ results \in [Requests -> [Buyers -> {"nil", "bid", "error"}]]
    /\ allDone \in [Requests -> BOOLEAN]
    /\ ctxDone \in BOOLEAN
    /\ stored \in [Ids -> Batch \cup {NoRequest}]
    /\ respCh \in [Queued -> Answers \cup {QueueFull, Empty}]
    /\ respClosed \in [Queued -> BOOLEAN]
    /\ caller \in [Queued -> {"new", "waiting", "panicked", "answered"}]
    /\ got \in [Queued -> Answers \cup {QueueFull, Nil, Empty}]
    /\ rejecting \in [Queued -> BOOLEAN]
    /\ crash \in BOOLEAN

\* The caller of SubmitBidRequest gets a response if and only if some buyer
\* gave one, from the buyer that comes first; without any it gets the first
\* buyer's error; "queue full" means no buyer was called; nothing at all
\* means there are no buyers (worker and SubmitBidRequest).
BestAnswer ==
    \A r \in Queued : caller[r] = "answered" =>
        /\ got[r] = QueueFull <=> phase[r] = "none"
        /\ got[r] = Nil => Buyers = {}
        /\ got[r].kind \in {"bid", "error"} =>
            /\ got[r].kind = "bid" <=> \E b \in Buyers : results[r][b] = "bid"
            /\ results[r][got[r].buyer] = got[r].kind
            /\ \A b \in Buyers : b < got[r].buyer => results[r][b] = "error"

\* When Stop returns no worker is left, no request is queued and every
\* request accepted before has its answer ("waits for workers to finish",
\* concurrent.go:60), if the processor was started.
StopDrains ==
    [][stopper = "waiting" /\ stopper' = "returned" /\ starts > 0 =>
        /\ queue = <<>>
        /\ \A r \in Queued :
            caller[r] = "waiting" => rejecting[r] \/ respClosed[r]]_vars

\* ProcessBidRequest returns a slice with a hole only to a caller whose
\* context is done; a worker, whose context never is, sees complete slices, so
\* that its unchecked result.Error never meets nil (concurrent.go:108-117, 134).
HolesOnlyOnTimeout ==
    /\ ~crash
    /\ \A r \in Requests :
        phase[r] \in {"returned", "stored"} /\ (r \in Queued \/ ~ctxDone) =>
            \A b \in Buyers : results[r][b] # "nil"

\* Every request submitted to a started processor is answered, also after
\* Stop, which leaves the queue to its workers.
Answered ==
    \A r \in Queued : caller[r] = "waiting" /\ starts > 0 ~> caller[r] = "answered"

\* The batch returns: no request waits for ever, context or not.
BatchReturns ==
    \A r \in Batch : phase[r] # "none" ~> phase[r] = "stored"

=============================================================================

------------------------- MODULE BidProcessorProofs -------------------------
(***************************************************************************)
(* Theorems about the bid processor: a worker never meets a slice with a   *)
(* hole, a caller of SubmitBidRequest gets the answer its buyers' results  *)
(* call for, and Stop leaves nothing behind.                               *)
(***************************************************************************)
EXTENDS BidProcessor, TLAPS, WellFoundedInduction

\* A set of buyers has a first one.
LEMMA FirstExists ==
    ASSUME NEW S, S \subseteq Nat, S # {}
    PROVE  \E b \in S : \A a \in S : b <= a
<1> DEFINE R == OpToRel(<, Nat)
<1>1. PICK b \in S : \A a \in S : <<a, b>> \notin R
  <2>1. IsWellFoundedOn(R, Nat)
    BY NatLessThanWellFounded, Zenon
  <2> HIDE DEF R
  <2> QED
    BY <2>1, WFMin
<1>2. ASSUME NEW a \in S PROVE b <= a
  <2>1. a \in Nat /\ b \in Nat
    OBVIOUS
  <2>2. ~(a < b)
    BY <1>1, <2>1, <1>2 DEF OpToRel
  <2> QED
    BY <2>1, <2>2
<1> QED
  BY <1>2

\* The worker chooses the first bid, else the first buyer (concurrent.go:130-145).
LEMMA ChosenIsFirst ==
    ASSUME NEW r, Buyers # {}
    PROVE  /\ Chosen(r) \in Buyers
           /\ Bids(r) = {} => Chosen(r) = 1
           /\ Bids(r) # {} => Chosen(r) \in Bids(r) /\ \A a \in Bids(r) : Chosen(r) <= a
<1>1. 1 \in Buyers
  BY ProcessorAssumption DEF Buyers
<1>2. Bids(r) \subseteq Buyers /\ Buyers \subseteq Nat
  BY ProcessorAssumption DEF Bids, Buyers
<1>3. CASE Bids(r) = {}
  BY <1>1, <1>3 DEF Chosen
<1>4. CASE Bids(r) # {}
  <2>1. \E b \in Bids(r) : \A a \in Bids(r) : b <= a
    BY <1>2, <1>4, FirstExists
  <2>2. Chosen(r) = CHOOSE b \in Bids(r) : \A a \in Bids(r) : b <= a
    BY <1>4 DEF Chosen
  <2> HIDE DEF Bids
  <2>3. Chosen(r) \in Bids(r) /\ \A a \in Bids(r) : Chosen(r) <= a
    BY <2>1, <2>2
  <2> QED
    BY <1>2, <1>4, <2>3
<1> QED
  BY <1>3, <1>4

\* The capacity of requestChan (concurrent.go:39-46).
LEMMA CapPositive == MaxWorkers \in Nat \ {0} /\ QueueCap \in Nat \ {0}
BY ProcessorAssumption DEF MaxWorkers, QueueCap

\* What a send to requestChan does to the queue.
LEMMA AppendFacts ==
    ASSUME NEW S, NEW s \in Seq(S), NEW e \in S
    PROVE  /\ Append(s, e) \in Seq(S) /\ Len(s) \in Nat
           /\ Len(Append(s, e)) = Len(s) + 1
           /\ \A i \in 1 .. Len(s) : Append(s, e)[i] = s[i]
           /\ Append(s, e)[Len(s) + 1] = e
OBVIOUS

\* The same for a receive, from a queue that is not empty.
LEMMA TailFacts ==
    ASSUME NEW S, NEW s \in Seq(S), s # <<>>
    PROVE  /\ Tail(s) \in Seq(S) /\ Len(s) \in Nat \ {0}
           /\ Len(Tail(s)) = Len(s) - 1
           /\ Head(s) = s[1] /\ Head(s) \in S
           /\ \A i \in 1 .. Len(Tail(s)) : Tail(s)[i] = s[i + 1] /\ i + 1 \in 1 .. Len(s)
           /\ \A i \in 2 .. Len(s) : Tail(s)[i - 1] = s[i] /\ i - 1 \in 1 .. Len(Tail(s))
OBVIOUS

\* An answer differs from the values that stand for none.
LEMMA AnswerFacts ==
    /\ QueueFull # Nil /\ QueueFull # Empty /\ Nil # Empty
    /\ \A a \in Answers : a # QueueFull /\ a # Nil /\ a # Empty /\ a.kind \in {"bid", "error"}
    /\ Nil.kind = "nil" /\ QueueFull.kind = "full" /\ Empty.kind = "empty"
BY DEF Answers, QueueFull, Nil, Empty

-----------------------------------------------------------------------------
\* Every buyer's goroutine has written its element of the slice.
Complete(r) == \A b \in Buyers : results[r][b] # "nil"

\* The request is in requestChan, or in a worker's hands.
Waiting(r) == \E i \in 1 .. Len(queue) : queue[i] = r
Holds(w, r) == pc[w] \in {"processing", "closing"} /\ holding[w] = r

\* Nobody has done anything for the request.
Untouched(r) == phase[r] = "none" /\ respCh[r] = Empty /\ ~respClosed[r]

\* The answer that the results of the request call for.
Due(r, answer) ==
    \/ answer = QueueFull /\ phase[r] = "none"
    \/ /\ phase[r] # "none" /\ Buyers # {} /\ Complete(r)
       /\ answer = [buyer |-> Chosen(r), kind |-> results[r][Chosen(r)]]

-----------------------------------------------------------------------------
\* The channel done means what wg.Wait waited for; only the context lets a
\* request return before.
Full ==
    /\ ~crash
    /\ \A r \in Requests : allDone[r] => Complete(r)
    /\ \A r \in Requests :
        phase[r] \in {"returned", "stored"} /\ (r \in Queued \/ ~ctxDone) => Complete(r)

\* A request in the queue has a caller who waits, and nobody else has it.
InQueue(r) ==
    Waiting(r) =>
        /\ Untouched(r) /\ caller[r] = "waiting" /\ ~rejecting[r]
        /\ \A w \in Workers : ~Holds(w, r)

\* A request is in the hands of one worker at most, who closes its channel
\* after the answer is on it.
InHand(r) ==
    /\ \A w, v \in Workers : Holds(w, r) /\ Holds(v, r) => w = v
    /\ \A w \in Workers : Holds(w, r) =>
        /\ ~rejecting[r] /\ ~respClosed[r] /\ phase[r] \in {"gathering", "returned"}
        /\ pc[w] = "processing" => caller[r] = "waiting" /\ respCh[r] = Empty
        /\ pc[w] = "closing" =>
            /\ phase[r] = "returned" /\ caller[r] \in {"waiting", "answered"}
            /\ caller[r] = "waiting" => respCh[r] # Empty \/ Buyers = {}

\* The channel carries the answer that is due, to a caller who waits.
OnChannel(r) ==
    /\ caller[r] \in {"new", "panicked"} => Untouched(r) /\ ~rejecting[r]
    /\ rejecting[r] => caller[r] = "waiting" /\ Untouched(r)
    /\ \A answer \in Answers \cup {QueueFull} :
        respCh[r] = answer => caller[r] = "waiting" /\ Due(r, answer)
    /\ caller[r] = "waiting" /\ respClosed[r] /\ respCh[r] = Empty =>
        Buyers = {} /\ phase[r] # "none"
    /\ caller[r] = "answered" =>
        \/ got[r] = Nil /\ Buyers = {} /\ phase[r] # "none"
        \/ \E answer \in Answers \cup {QueueFull} : got[r] = answer /\ Due(r, answer)

\* Somebody attends to a caller who waits.
Attended(r) ==
    caller[r] = "waiting" =>
        \/ Waiting(r) \/ rejecting[r] \/ respClosed[r]
        \/ \E w \in Workers : Holds(w, r)

\* No request is queued twice; a worker that works has a request.
OnceInQueue == \A i, j \in 1 .. Len(queue) : queue[i] = queue[j] => i = j
HandsFull == \A w \in Workers : pc[w] \in {"processing", "closing"} => holding[w] \in Queued

\* The workers of the calls of Start so far; one that ended saw the channel
\* closed and empty.
Staff ==
    \A w \in Workers :
        /\ w[1] <= starts <=> pc[w] # "unborn"
        /\ pc[w] = "dead" => chanClosed /\ queue = <<>>

\* The inductive invariant.
Place(r) == InQueue(r) /\ InHand(r) /\ OnChannel(r) /\ Attended(r)
ProcessorInv ==
    /\ TypeOK /\ Full /\ Staff
    /\ OnceInQueue /\ HandsFull /\ \A r \in Queued : Place(r)

-----------------------------------------------------------------------------
(* Types.                                                                  *)

\* NewBidProcessor makes values of the right types.
LEMMA TypeInit == Init => TypeOK
<1> SUFFICES ASSUME Init PROVE TypeOK
  OBVIOUS
<1>1. queue \in Seq(Queued) /\ Len(queue) <= QueueCap /\ starts \in 0 .. MaxStarts
  BY CapPositive, ProcessorAssumption DEF Init
<1>2. /\ pc \in [Workers -> {"unborn", "range", "processing", "closing", "dead"}]
      /\ holding \in [Workers -> Queued \cup {NoRequest}]
      /\ phase \in [Requests -> {"none", "gathering", "returned", "stored"}]
      /\ results \in [Requests -> [Buyers -> {"nil", "bid", "error"}]]
      /\ allDone \in [Requests -> BOOLEAN] /\ stored \in [Ids -> Batch \cup {NoRequest}]
  BY DEF Init
<1>3. /\ respCh \in [Queued -> Answers \cup {QueueFull, Empty}]
      /\ respClosed \in [Queued -> BOOLEAN]
      /\ caller \in [Queued -> {"new", "waiting", "panicked", "answered"}]
      /\ got \in [Queued -> Answers \cup {QueueFull, Nil, Empty}]
      /\ rejecting \in [Queued -> BOOLEAN]
  BY DEF Init
<1> QED
  BY <1>1, <1>2, <1>3 DEF Init, TypeOK

\* Every step keeps the types, and the queue within its capacity.
LEMMA TypeStep == TypeOK /\ [Next]_vars => TypeOK'
<1> SUFFICES ASSUME TypeOK, [Next]_vars PROVE TypeOK'
  OBVIOUS
<1>type. /\ starts \in Nat /\ starts <= MaxStarts
         /\ stopper \in {"idle", "waiting", "returned"} /\ chanClosed \in BOOLEAN
         /\ queue \in Seq(Queued) /\ Len(queue) <= QueueCap /\ Len(queue) \in Nat
         /\ pc \in [Workers -> {"unborn", "range", "processing", "closing", "dead"}]
         /\ holding \in [Workers -> Queued \cup {NoRequest}]
         /\ phase \in [Requests -> {"none", "gathering", "returned", "stored"}]
         /\ results \in [Requests -> [Buyers -> {"nil", "bid", "error"}]]
         /\ allDone \in [Requests -> BOOLEAN] /\ ctxDone \in BOOLEAN
         /\ stored \in [Ids -> Batch \cup {NoRequest}]
         /\ respCh \in [Queued -> Answers \cup {QueueFull, Empty}]
         /\ respClosed \in [Queued -> BOOLEAN]
         /\ caller \in [Queued -> {"new", "waiting", "panicked", "answered"}]
         /\ got \in [Queued -> Answers \cup {QueueFull, Nil, Empty}]
         /\ rejecting \in [Queued -> BOOLEAN] /\ crash \in BOOLEAN
  BY DEF TypeOK
<1>called. \A r \in Requests : Called(r) \in [Requests -> {"none", "gathering", "returned", "stored"}]
  BY <1>type DEF Called
<1>1. CASE Start
  <2>1. starts + 1 \in 0 .. MaxStarts
    BY <1>1, <1>type, ProcessorAssumption DEF Start
  <2>2. pc' \in [Workers -> {"unborn", "range", "processing", "closing", "dead"}]
    BY <1>1, <1>type DEF Start
  <2> QED
    BY <1>1, <1>type, <2>1, <2>2 DEF Start, TypeOK, fanVars, batchVars, respVars, callerVars
<1>2. CASE StopBegin
  BY <1>2, <1>type DEF StopBegin, TypeOK, workerVars, fanVars, batchVars, respVars, callerVars
<1>3. CASE StopReturn
  BY <1>3, <1>type DEF StopReturn, TypeOK, workerVars, fanVars, batchVars, respVars, callerVars
<1>4. CASE CtxDone
  BY <1>4, <1>type DEF CtxDone, TypeOK, procVars, workerVars, fanVars, respVars, callerVars
<1>5. ASSUME NEW r \in Queued, Submit(r) PROVE TypeOK'
  <2>1. queue' \in Seq(Queued) /\ Len(queue') <= QueueCap
    <3>1. CASE UNCHANGED queue
      BY <1>type, <3>1
    <3>2. CASE Len(queue) < QueueCap /\ queue' = Append(queue, r)
      BY <1>type, <3>2, CapPositive, AppendFacts
    <3> QED
      BY <1>5, <3>1, <3>2 DEF Submit
  <2>2. caller' \in [Queued -> {"new", "waiting", "panicked", "answered"}]
        /\ rejecting' \in [Queued -> BOOLEAN]
    BY <1>5, <1>type DEF Submit
  <2> QED
    BY <1>5, <1>type, <2>1, <2>2 DEF Submit, TypeOK, workerVars, fanVars, batchVars, respVars
<1>6. ASSUME NEW r \in Queued, Reject(r) PROVE TypeOK'
  BY <1>6, <1>type DEF Reject, TypeOK, procVars, workerVars, fanVars, batchVars
<1>7. ASSUME NEW r \in Queued, Receive(r) PROVE TypeOK'
  <2>1. got' \in [Queued -> Answers \cup {QueueFull, Nil, Empty}]
        /\ respCh' \in [Queued -> Answers \cup {QueueFull, Empty}]
        /\ caller' \in [Queued -> {"new", "waiting", "panicked", "answered"}]
    BY <1>7, <1>type DEF Receive
  <2> QED
    BY <1>7, <1>type, <2>1 DEF Receive, TypeOK, procVars, workerVars, fanVars, batchVars
<1>8. ASSUME NEW r \in Requests, CloseDone(r) PROVE TypeOK'
  BY <1>8, <1>type DEF CloseDone, TypeOK, procVars, workerVars, batchVars, respVars, callerVars
<1>9. ASSUME NEW r \in Requests, Return(r) PROVE TypeOK'
  BY <1>9, <1>type DEF Return, TypeOK, procVars, workerVars, batchVars, respVars, callerVars
<1>10. ASSUME NEW r \in Requests, NEW b \in Buyers, BuyerAnswers(r, b) PROVE TypeOK'
  <2>1. results' \in [Requests -> [Buyers -> {"nil", "bid", "error"}]]
    <3>1. PICK kind \in {"bid", "error"} : results' = [results EXCEPT ![r][b] = kind]
      BY <1>10 DEF BuyerAnswers
    <3> QED
      BY <1>type, <3>1
  <2> QED
    BY <1>10, <1>type, <2>1
    DEF BuyerAnswers, TypeOK, procVars, workerVars, batchVars, respVars, callerVars
<1>11. ASSUME NEW w \in Workers, TakeRequest(w) PROVE TypeOK'
  <2>1. queue' \in Seq(Queued) /\ Len(queue') <= QueueCap
    BY <1>11, <1>type, CapPositive, TailFacts DEF TakeRequest
  <2>2. Head(queue) \in Queued
    BY <1>11, <1>type, TailFacts DEF TakeRequest
  <2>3. phase' \in [Requests -> {"none", "gathering", "returned", "stored"}]
    BY <1>11, <1>called, <2>2 DEF TakeRequest, Requests
  <2>4. pc' \in [Workers -> {"unborn", "range", "processing", "closing", "dead"}]
        /\ holding' \in [Workers -> Queued \cup {NoRequest}]
    BY <1>11, <1>type, <2>2 DEF TakeRequest
  <2> QED
    BY <1>11, <1>type, <2>1, <2>3, <2>4
    DEF TakeRequest, TypeOK, procVars, batchVars, respVars, callerVars
<1>12. ASSUME NEW w \in Workers, Deliver(w) PROVE TypeOK'
  <2>1. respCh' \in [Queued -> Answers \cup {QueueFull, Empty}]
    <3>1. PICK r : r = holding[w]
      OBVIOUS
    <3>2. PICK c : c = Chosen(r)
      OBVIOUS
    <3>3. CASE UNCHANGED respCh
      BY <1>type, <3>3
    <3>4. CASE /\ ~ReadsNil(r) /\ Buyers # {}
               /\ respCh' = [respCh EXCEPT ![r] = [buyer |-> c, kind |-> results[r][c]]]
      <4>1. CASE r \in Queued
        <5>1. c \in Buyers /\ (Bids(r) # {} => c \in Bids(r))
          BY <3>2, <3>4, ChosenIsFirst
        <5>2. results[r][c] # "nil"
          BY <3>4, <5>1 DEF ReadsNil, Bids
        <5>3. results[r][c] \in {"nil", "bid", "error"}
          BY <1>type, <4>1, <5>1 DEF Requests
        <5>4. [buyer |-> c, kind |-> results[r][c]] \in Answers
          BY <5>1, <5>2, <5>3 DEF Answers
        <5> QED
          BY <1>type, <3>4, <5>4
      <4>2. CASE r \notin Queued
        BY <1>type, <3>4, <4>2
      <4> QED
        BY <4>1, <4>2
    <3> QED
      BY <1>12, <3>1, <3>2, <3>3, <3>4 DEF Deliver, SendResult
  <2>2. pc' \in [Workers -> {"unborn", "range", "processing", "closing", "dead"}]
        /\ crash' \in BOOLEAN
    BY <1>12, <1>type DEF Deliver, SendResult
  <2>3. UNCHANGED <<procVars, holding, queue, fanVars, batchVars, respClosed, callerVars>>
    BY <1>12 DEF Deliver, SendResult
  <2> QED
    BY <1>type, <2>1, <2>2, <2>3 DEF TypeOK, procVars, fanVars, batchVars, callerVars
<1>13. ASSUME NEW w \in Workers, CloseResponse(w) PROVE TypeOK'
  BY <1>13, <1>type DEF CloseResponse, TypeOK, procVars, fanVars, batchVars, callerVars
<1>14. ASSUME NEW w \in Workers, WorkerExits(w) PROVE TypeOK'
  BY <1>14, <1>type
  DEF WorkerExits, TypeOK, procVars, fanVars, batchVars, respVars, callerVars
<1>15. ASSUME NEW r \in Batch, BatchCalls(r) PROVE TypeOK'
  BY <1>15, <1>type, <1>called
  DEF BatchCalls, TypeOK, Requests, procVars, workerVars, batchVars, respVars, callerVars
<1>16. ASSUME NEW r \in Batch, Store(r) PROVE TypeOK'
  BY <1>16, <1>type DEF Store, TypeOK, Requests, procVars, workerVars, respVars, callerVars
<1>17. CASE UNCHANGED vars
  BY <1>17, <1>type DEF vars, TypeOK, procVars, workerVars, fanVars, batchVars, respVars, callerVars
<1> QED
  BY <1>1, <1>2, <1>3, <1>4, <1>5, <1>6, <1>7, <1>8, <1>9, <1>10, <1>11, <1>12, <1>13,
     <1>14, <1>15, <1>16, <1>17
  DEF Next, CallerStep, ProcessStep, WorkerStep, BatchStep

-----------------------------------------------------------------------------
(* Complete slices.                                                        *)

\* Nothing has happened to any request yet.
LEMMA FullInit == Init => Full
BY DEF Init, Full

\* A buyer's goroutine writes its own element once, so that a complete slice
\* stays what it is (concurrent.go:78-99).
LEMMA WrittenOnce ==
    ASSUME TypeOK, [Next]_vars, NEW r \in Requests
    PROVE  /\ \A b \in Buyers : results[r][b] # "nil" => results'[r][b] = results[r][b]
           /\ Complete(r) => results'[r] = results[r] /\ Complete(r)'
<1>type. results \in [Requests -> [Buyers -> {"nil", "bid", "error"}]]
  BY DEF TypeOK
<1>1. CASE UNCHANGED results
  BY <1>1 DEF Complete
<1>2. ASSUME NEW q \in Requests, NEW b \in Buyers, BuyerAnswers(q, b)
      PROVE  /\ \A a \in Buyers : results[r][a] # "nil" => results'[r][a] = results[r][a]
             /\ Complete(r) => results'[r] = results[r] /\ Complete(r)'
  <2>1. PICK kind \in {"bid", "error"} : results' = [results EXCEPT ![q][b] = kind]
    BY <1>2 DEF BuyerAnswers
  <2>2. results[q][b] = "nil"
    BY <1>2 DEF BuyerAnswers
  <2>3. CASE q = r
    <3>1. ~Complete(r)
      BY <2>2, <2>3 DEF Complete
    <3> QED
      BY <1>type, <2>1, <2>2, <3>1
  <2>4. CASE q # r
    <3>1. results'[r] = results[r]
      BY <1>type, <2>1, <2>4
    <3> QED
      BY <3>1 DEF Complete
  <2> QED
    BY <2>3, <2>4
<1> QED
  BY <1>1, <1>2
  DEF Next, CallerStep, ProcessStep, WorkerStep, BatchStep, Start, StopBegin, StopReturn,
      CtxDone, Submit, Reject, Receive, CloseDone, Return, TakeRequest, Deliver, SendResult,
      CloseResponse, WorkerExits, BatchCalls, Store, vars, fanVars

\* Only wg.Wait closes done, and only a done channel or a done context lets
\* ProcessBidRequest return.
LEMMA FullStep == TypeOK /\ Full /\ HandsFull /\ [Next]_vars => Full'
<1> SUFFICES ASSUME TypeOK, Full, HandsFull, [Next]_vars PROVE Full'
  OBVIOUS
<1>type. /\ phase \in [Requests -> {"none", "gathering", "returned", "stored"}]
         /\ allDone \in [Requests -> BOOLEAN]
         /\ queue \in Seq(Queued)
  BY DEF TypeOK
<1>full. /\ ~crash
         /\ \A r \in Requests : allDone[r] => Complete(r)
         /\ \A r \in Requests :
                phase[r] \in {"returned", "stored"} /\ (r \in Queued \/ ~ctxDone) => Complete(r)
  BY DEF Full
<1>keep. \A r \in Requests : Complete(r) => Complete(r)'
  BY WrittenOnce
<1>none. Buyers = {} => \A r \in Requests : Complete(r)'
  BY DEF Complete
<1>same. ASSUME UNCHANGED <<phase, allDone, ctxDone, crash>> PROVE Full'
  BY <1>same, <1>full, <1>keep DEF Full
<1>call. ASSUME NEW q \in Requests, phase' = Called(q), UNCHANGED <<allDone, ctxDone, crash>>
         PROVE  Full'
  <2>1. \A r \in Requests : phase'[r] \in {"returned", "stored"} => phase[r] = phase'[r] \/ Buyers = {}
    BY <1>call, <1>type DEF Called
  <2> QED
    BY <1>call, <1>full, <1>keep, <1>none, <2>1 DEF Full
<1>4. CASE CtxDone
  <2>1. UNCHANGED <<phase, allDone, crash>> /\ ctxDone'
    BY <1>4 DEF CtxDone, fanVars
  <2>2. \A r \in Requests : phase[r] \in {"returned", "stored"} /\ r \in Queued => Complete(r)
    BY <1>full
  <2> QED
    BY <1>full, <1>keep, <2>1, <2>2 DEF Full
<1>8. ASSUME NEW q \in Requests, CloseDone(q) PROVE Full'
  <2>1. Complete(q)
    BY <1>8 DEF CloseDone, Complete
  <2>2. \A r \in Requests : allDone'[r] => Complete(r)
    BY <1>8, <1>type, <1>full, <2>1 DEF CloseDone
  <2> QED
    BY <1>8, <1>full, <1>keep, <2>2 DEF CloseDone, Full, batchVars
<1>9. ASSUME NEW q \in Requests, Return(q) PROVE Full'
  <2>1. q \in Queued \/ ~ctxDone => Complete(q)
    BY <1>9, <1>full, ProcessorAssumption DEF Return
  <2>2. \A r \in Requests : r # q => phase'[r] = phase[r]
    BY <1>9, <1>type DEF Return
  <2>3. \A r \in Requests :
            phase'[r] \in {"returned", "stored"} /\ (r \in Queued \/ ~ctxDone) => Complete(r)
    BY <1>full, <2>1, <2>2
  <2> QED
    BY <1>9, <1>full, <1>keep, <2>3 DEF Return, Full, batchVars
<1>11. ASSUME NEW w \in Workers, TakeRequest(w) PROVE Full'
  <2>1. Head(queue) \in Requests
    BY <1>11, <1>type, TailFacts DEF TakeRequest, Requests
  <2> QED
    BY <1>11, <1>call, <2>1 DEF TakeRequest, batchVars
<1>12. ASSUME NEW w \in Workers, Deliver(w) PROVE Full'
  <2>1. holding[w] \in Queued /\ phase[holding[w]] = "returned"
    BY <1>12 DEF Deliver, SendResult, HandsFull
  <2>2. Complete(holding[w])
    BY <1>full, <2>1 DEF Requests
  <2>3. ~ReadsNil(holding[w])
    BY <2>2 DEF Complete, ReadsNil
  <2> QED
    BY <1>12, <1>same, <2>3 DEF Deliver, SendResult, fanVars, batchVars
<1>15. ASSUME NEW r \in Batch, BatchCalls(r) PROVE Full'
  BY <1>15, <1>call DEF BatchCalls, Requests, batchVars
<1>16. ASSUME NEW q \in Batch, Store(q) PROVE Full'
  <2>1. \A r \in Requests :
            phase'[r] \in {"returned", "stored"} => phase[r] \in {"returned", "stored"}
    BY <1>16, <1>type DEF Store
  <2> QED
    BY <1>16, <1>full, <1>keep, <2>1 DEF Store, Full
<1>17. CASE UNCHANGED vars
  BY <1>17, <1>same DEF vars, fanVars, batchVars
<1>18. CASE Start \/ StopBegin \/ StopReturn
  BY <1>18, <1>same DEF Start, StopBegin, StopReturn, fanVars, batchVars
<1>19. ASSUME NEW r \in Queued, CallerStep(r) PROVE Full'
  BY <1>19, <1>same DEF CallerStep, Submit, Reject, Receive, fanVars, batchVars
<1>20. ASSUME NEW r \in Requests, NEW b \in Buyers, BuyerAnswers(r, b) PROVE Full'
  BY <1>20, <1>same DEF BuyerAnswers, batchVars
<1>21. ASSUME NEW w \in Workers, CloseResponse(w) \/ WorkerExits(w) PROVE Full'
  BY <1>21, <1>same DEF CloseResponse, WorkerExits, fanVars, batchVars
<1> QED
  BY <1>4, <1>8, <1>9, <1>11, <1>12, <1>15, <1>16, <1>17, <1>18, <1>19, <1>20, <1>21
  DEF Next, ProcessStep, WorkerStep, BatchStep

\* A worker that has the slice of its request finds no hole in it, and sends
\* what is due, or nothing without buyers (concurrent.go:130-149).
LEMMA DeliverFacts ==
    ASSUME TypeOK, Full, HandsFull, NEW w \in Workers, Deliver(w)
    PROVE  /\ pc[w] = "processing" /\ holding[w] \in Queued /\ phase[holding[w]] = "returned"
           /\ Complete(holding[w])
           /\ pc' = [pc EXCEPT ![w] = "closing"]
           /\ IF Buyers = {} THEN UNCHANGED respCh
              ELSE \E answer \in Answers :
                    /\ Due(holding[w], answer)
                    /\ respCh' = [respCh EXCEPT ![holding[w]] = answer]
           /\ UNCHANGED <<procVars, holding, queue, fanVars, batchVars, respClosed, callerVars, crash>>
<1>1. pc[w] = "processing" /\ holding[w] \in Queued /\ phase[holding[w]] = "returned"
  BY DEF Deliver, SendResult, HandsFull
<1>2. Complete(holding[w])
  BY <1>1 DEF Full, Requests
<1>3. ~ReadsNil(holding[w])
  BY <1>2 DEF Complete, ReadsNil
<1>4. Buyers # {} =>
        /\ respCh' = [respCh EXCEPT ![holding[w]] =
                        [buyer |-> Chosen(holding[w]), kind |-> results[holding[w]][Chosen(holding[w])]]]
  BY <1>3 DEF Deliver, SendResult
<1>5. Buyers # {} =>
        [buyer |-> Chosen(holding[w]), kind |-> results[holding[w]][Chosen(holding[w])]] \in Answers
  <2>1. results[holding[w]] \in [Buyers -> {"nil", "bid", "error"}]
    BY <1>1 DEF TypeOK, Requests
  <2>2. Buyers # {} => Chosen(holding[w]) \in Buyers
    BY ChosenIsFirst
  <2> QED
    BY <1>2, <2>1, <2>2 DEF Complete, Answers
<1>6. Buyers # {} =>
        Due(holding[w], [buyer |-> Chosen(holding[w]), kind |-> results[holding[w]][Chosen(holding[w])]])
  BY <1>1, <1>2 DEF Due
<1>7. Buyers = {} => UNCHANGED respCh
  BY <1>3 DEF Deliver, SendResult
<1>8. /\ pc' = [pc EXCEPT ![w] = "closing"] /\ UNCHANGED crash
      /\ UNCHANGED <<procVars, holding, queue, fanVars, batchVars, respClosed, callerVars>>
  BY <1>3 DEF Deliver, SendResult
<1> QED
  BY <1>1, <1>2, <1>4, <1>5, <1>6, <1>7, <1>8

-----------------------------------------------------------------------------
(* The workers.                                                            *)

\* There are no workers before the first Start.
LEMMA StaffInit == Init => Staff
BY DEF Init, Staff, Workers

\* A closed channel is never opened again, nor does anything enter its queue.
LEMMA StaffStep == TypeOK /\ Full /\ HandsFull /\ Staff /\ [Next]_vars => Staff'
<1> SUFFICES ASSUME TypeOK, Full, HandsFull, Staff, [Next]_vars PROVE Staff'
  OBVIOUS
<1>type. /\ starts \in Nat /\ chanClosed \in BOOLEAN /\ queue \in Seq(Queued)
         /\ pc \in [Workers -> {"unborn", "range", "processing", "closing", "dead"}]
         /\ \A w \in Workers : w[1] \in Nat
  BY DEF TypeOK, Workers
<1>staff. \A w \in Workers : /\ w[1] <= starts <=> pc[w] # "unborn"
                             /\ pc[w] = "dead" => chanClosed /\ queue = <<>>
  BY DEF Staff
<1>same. ASSUME UNCHANGED <<starts, chanClosed, queue, pc>> PROVE Staff'
  BY <1>same, <1>staff DEF Staff
<1>1. CASE Start
  <2>1. /\ \A w \in Workers : pc'[w] = IF w[1] = starts + 1 THEN "range" ELSE pc[w]
        /\ starts' = starts + 1 /\ UNCHANGED <<chanClosed, queue>>
    BY <1>1 DEF Start
  <2>2. \A w \in Workers : w[1] <= starts + 1 <=> w[1] <= starts \/ w[1] = starts + 1
    BY <1>type
  <2> QED
    BY <1>staff, <2>1, <2>2 DEF Staff
<1>2. CASE StopBegin
  <2>1. \A w \in Workers : pc[w] # "dead"
    BY <1>2, <1>staff DEF StopBegin
  <2> QED
    BY <1>2, <1>staff, <2>1 DEF StopBegin, Staff, workerVars
<1>3. CASE StopReturn
  BY <1>3, <1>same DEF StopReturn, workerVars
<1>4. CASE CtxDone
  BY <1>4, <1>same DEF CtxDone, procVars, workerVars
<1>5. ASSUME NEW q \in Queued, Submit(q) PROVE Staff'
  <2>1. UNCHANGED <<starts, chanClosed, pc>> /\ (chanClosed => UNCHANGED queue)
    BY <1>5 DEF Submit, workerVars
  <2> QED
    BY <1>staff, <2>1 DEF Staff
<1>6. ASSUME NEW q \in Queued, Reject(q) \/ Receive(q) PROVE Staff'
  BY <1>6, <1>same DEF Reject, Receive, procVars, workerVars
<1>7. ASSUME NEW q \in Requests, ProcessStep(q) PROVE Staff'
  BY <1>7, <1>same DEF ProcessStep, CloseDone, Return, BuyerAnswers, procVars, workerVars
<1>8. ASSUME NEW w \in Workers, TakeRequest(w) PROVE Staff'
  <2>1. \A v \in Workers : pc'[v] = (IF v = w THEN "processing" ELSE pc[v])
    BY <1>8, <1>type DEF TakeRequest
  <2>2. pc[w] = "range" /\ queue # <<>> /\ UNCHANGED <<starts, chanClosed>>
    BY <1>8 DEF TakeRequest, procVars
  <2> QED
    BY <1>staff, <2>1, <2>2 DEF Staff
<1>9. ASSUME NEW w \in Workers, Deliver(w) PROVE Staff'
  <2>1. /\ pc[w] = "processing" /\ pc' = [pc EXCEPT ![w] = "closing"]
        /\ UNCHANGED <<starts, chanClosed, queue>>
    BY <1>9, DeliverFacts DEF procVars
  <2>2. \A v \in Workers : pc'[v] = (IF v = w THEN "closing" ELSE pc[v])
    BY <1>type, <2>1
  <2> QED
    BY <1>staff, <2>1, <2>2 DEF Staff
<1>10. ASSUME NEW w \in Workers, CloseResponse(w) PROVE Staff'
  <2>1. /\ pc[w] = "closing" /\ UNCHANGED <<starts, chanClosed, queue>>
        /\ \A v \in Workers : pc'[v] = (IF v = w THEN "range" ELSE pc[v])
    BY <1>10, <1>type DEF CloseResponse, procVars
  <2> QED
    BY <1>staff, <2>1 DEF Staff
<1>11. ASSUME NEW w \in Workers, WorkerExits(w) PROVE Staff'
  <2>1. /\ pc[w] = "range" /\ chanClosed /\ queue = <<>>
        /\ UNCHANGED <<starts, chanClosed, queue>>
        /\ \A v \in Workers : pc'[v] = (IF v = w THEN "dead" ELSE pc[v])
    BY <1>11, <1>type DEF WorkerExits, procVars
  <2> QED
    BY <1>staff, <2>1 DEF Staff
<1>12. ASSUME NEW q \in Batch, BatchStep(q) PROVE Staff'
  BY <1>12, <1>same DEF BatchStep, BatchCalls, Store, procVars, workerVars
<1>13. CASE UNCHANGED vars
  BY <1>13, <1>same DEF vars, procVars, workerVars
<1> QED
  BY <1>1, <1>2, <1>3, <1>4, <1>5, <1>6, <1>7, <1>8, <1>9, <1>10, <1>11, <1>12, <1>13
  DEF Next, CallerStep, WorkerStep

-----------------------------------------------------------------------------
(* The queue, the hands and the channels.                                  *)

\* All requests are new.
LEMMA PlaceInit == Init => OnceInQueue /\ HandsFull /\ \A r \in Queued : Place(r)
<1> SUFFICES ASSUME Init PROVE OnceInQueue /\ HandsFull /\ \A r \in Queued : Place(r)
  OBVIOUS
<1>1. Len(queue) = 0 /\ (\A r : ~Waiting(r)) /\ (\A w \in Workers, r \in Queued : ~Holds(w, r))
  BY DEF Init, Waiting, Holds
<1>2. \A answer \in Answers \cup {QueueFull} : answer # Empty
  BY AnswerFacts
<1> QED
  BY <1>1, <1>2
  DEF Init, OnceInQueue, HandsFull, Place, InQueue, InHand, OnChannel, Attended, Untouched, Requests

\* The results an answer was chosen from do not change any more.
LEMMA DueForGood ==
    ASSUME TypeOK, [Next]_vars, NEW r \in Requests, NEW answer, Due(r, answer),
           phase'[r] = "none" <=> phase[r] = "none"
    PROVE  Due(r, answer)'
<1>1. CASE answer = QueueFull /\ phase[r] = "none"
  BY <1>1 DEF Due
<1>2. CASE /\ phase[r] # "none" /\ Buyers # {} /\ Complete(r)
           /\ answer = [buyer |-> Chosen(r), kind |-> results[r][Chosen(r)]]
  <2>1. results'[r] = results[r] /\ Complete(r)'
    BY <1>2, WrittenOnce
  <2>2. Bids(r)' = Bids(r)
    BY <2>1 DEF Bids
  <2>3. Chosen(r)' = Chosen(r)
    BY <2>2 DEF Chosen
  <2> QED
    BY <1>2, <2>1, <2>3 DEF Due
<1> QED
  BY <1>1, <1>2 DEF Due

\* A step that is not about the request.
Apart(r) ==
    /\ phase'[r] = phase[r] /\ respCh'[r] = respCh[r] /\ respClosed'[r] = respClosed[r]
    /\ caller'[r] = caller[r] /\ got'[r] = got[r] /\ rejecting'[r] = rejecting[r]
    /\ Waiting(r)' <=> Waiting(r)
    /\ \A w \in Workers : /\ Holds(w, r)' <=> Holds(w, r)
                          /\ Holds(w, r) => pc'[w] = pc[w]

\* It leaves the request where it is.
LEMMA ApartStep ==
    ASSUME TypeOK, [Next]_vars, NEW r \in Queued, Place(r), Apart(r)
    PROVE  Place(r)'
<1>1. InQueue(r)'
  BY DEF Place, InQueue, Apart, Untouched
<1>2. InHand(r)'
  BY DEF Place, InHand, Apart
<1>3. OnChannel(r)'
  <2>1. \A answer : Due(r, answer) => Due(r, answer)'
    BY DueForGood DEF Apart, Requests
  <2> QED
    BY <2>1 DEF Place, OnChannel, Apart, Untouched
<1>4. Attended(r)'
  BY DEF Place, Attended, Apart
<1> QED
  BY <1>1, <1>2, <1>3, <1>4 DEF Place

\* A worker takes its request from the queue, which holds requests only.
LEMMA HandsStep == TypeOK /\ Full /\ HandsFull /\ [Next]_vars => HandsFull'
<1> SUFFICES ASSUME TypeOK, Full, HandsFull, [Next]_vars PROVE HandsFull'
  OBVIOUS
<1>type. /\ pc \in [Workers -> {"unborn", "range", "processing", "closing", "dead"}]
         /\ holding \in [Workers -> Queued \cup {NoRequest}] /\ queue \in Seq(Queued)
  BY DEF TypeOK
<1>same. ASSUME UNCHANGED holding,
                \A w \in Workers : pc'[w] \in {"processing", "closing"} =>
                                        pc[w] \in {"processing", "closing"}
         PROVE  HandsFull'
  BY <1>same DEF HandsFull
<1>1. CASE Start
  <2>1. UNCHANGED holding /\ \A w \in Workers : pc'[w] = pc[w] \/ pc'[w] = "range"
    BY <1>1 DEF Start
  <2> QED
    BY <1>same, <2>1
<1>2. ASSUME NEW w \in Workers, TakeRequest(w) PROVE HandsFull'
  <2>1. Head(queue) \in Queued
    BY <1>2, <1>type, TailFacts DEF TakeRequest
  <2>2. \A v \in Workers : /\ v = w => holding'[v] = Head(queue)
                           /\ v # w => pc'[v] = pc[v] /\ holding'[v] = holding[v]
    BY <1>2, <1>type DEF TakeRequest
  <2> QED
    BY <2>1, <2>2 DEF HandsFull
<1>3. ASSUME NEW w \in Workers, Deliver(w) PROVE HandsFull'
  <2>1. pc[w] = "processing" /\ pc' = [pc EXCEPT ![w] = "closing"] /\ UNCHANGED holding
    BY <1>3, DeliverFacts
  <2> QED
    BY <1>same, <1>type, <2>1
<1>4. ASSUME NEW w \in Workers, CloseResponse(w) PROVE HandsFull'
  <2>1. \A v \in Workers : /\ v = w => pc'[v] = "range"
                           /\ v # w => pc'[v] = pc[v] /\ holding'[v] = holding[v]
    BY <1>4, <1>type DEF CloseResponse
  <2> QED
    BY <2>1 DEF HandsFull
<1>5. ASSUME NEW w \in Workers, WorkerExits(w) PROVE HandsFull'
  BY <1>5, <1>same, <1>type DEF WorkerExits
<1>6. CASE UNCHANGED <<pc, holding>>
  BY <1>6, <1>same
<1> QED
  BY <1>1, <1>2, <1>3, <1>4, <1>5, <1>6
  DEF Next, CallerStep, ProcessStep, WorkerStep, BatchStep, StopBegin, StopReturn, CtxDone,
      Submit, Reject, Receive, CloseDone, Return, BuyerAnswers, BatchCalls, Store, vars, workerVars

\* Only a request that is new enters the queue (concurrent.go:158-171).
LEMMA OnceStep ==
    TypeOK /\ Full /\ HandsFull /\ OnceInQueue /\ (\A r \in Queued : Place(r)) /\ [Next]_vars
        => OnceInQueue'
<1> SUFFICES ASSUME TypeOK, Full, HandsFull, OnceInQueue, \A r \in Queued : Place(r), [Next]_vars
             PROVE  OnceInQueue'
  OBVIOUS
<1>type. queue \in Seq(Queued) /\ Len(queue) \in Nat
  BY DEF TypeOK
<1>1. CASE UNCHANGED queue
  BY <1>1 DEF OnceInQueue
<1>2. ASSUME NEW q \in Queued, Submit(q) PROVE OnceInQueue'
  <2>1. CASE UNCHANGED queue
    BY <1>1, <2>1
  <2>2. CASE queue' = Append(queue, q)
    <3>1. ~Waiting(q)
      BY <1>2 DEF Submit, Place, InQueue
    <3>2. \A i \in 1 .. Len(queue) : queue[i] # q
      BY <3>1 DEF Waiting
    <3>3. /\ Len(queue') = Len(queue) + 1 /\ queue'[Len(queue) + 1] = q
          /\ \A i \in 1 .. Len(queue) : queue'[i] = queue[i]
      BY <1>type, <2>2, AppendFacts
    <3>4. SUFFICES ASSUME NEW i \in 1 .. Len(queue'), NEW j \in 1 .. Len(queue'),
                          queue'[i] = queue'[j]
                   PROVE  i = j
      BY DEF OnceInQueue
    <3>5. \A k \in 1 .. Len(queue') : k \in 1 .. Len(queue) \/ k = Len(queue) + 1
      BY <1>type, <3>3
    <3> QED
      BY <3>2, <3>3, <3>4, <3>5 DEF OnceInQueue
  <2> QED
    BY <1>2, <2>1, <2>2 DEF Submit
<1>3. ASSUME NEW w \in Workers, TakeRequest(w) PROVE OnceInQueue'
  <2>1. /\ queue' = Tail(queue)
        /\ \A i \in 1 .. Len(queue') : queue'[i] = queue[i + 1] /\ i + 1 \in 1 .. Len(queue)
    BY <1>3, <1>type, TailFacts DEF TakeRequest
  <2>2. ASSUME NEW i \in 1 .. Len(queue'), NEW j \in 1 .. Len(queue'), queue'[i] = queue'[j]
        PROVE  i = j
    <3>1. i + 1 = j + 1
      BY <2>1, <2>2 DEF OnceInQueue
    <3> QED
      BY <2>2, <3>1
  <2> QED
    BY <2>2 DEF OnceInQueue
<1>4. ASSUME NEW w \in Workers, Deliver(w) PROVE OnceInQueue'
  BY <1>1, <1>4, DeliverFacts
<1> QED
  BY <1>1, <1>2, <1>3, <1>4
  DEF Next, CallerStep, ProcessStep, WorkerStep, BatchStep, Start, StopBegin, StopReturn, CtxDone,
      Reject, Receive, CloseDone, Return, BuyerAnswers, CloseResponse, WorkerExits,
      BatchCalls, Store, vars

\* SubmitBidRequest panics, queues the request or leaves it to the goroutine
\* that reports a full queue.
LEMMA SubmitStep ==
    ASSUME ProcessorInv, [Next]_vars, NEW q \in Queued, Submit(q)
    PROVE  \A r \in Queued : Place(r)'
<1>type. /\ queue \in Seq(Queued) /\ Len(queue) \in Nat
         /\ caller \in [Queued -> {"new", "waiting", "panicked", "answered"}]
         /\ rejecting \in [Queued -> BOOLEAN] /\ respClosed \in [Queued -> BOOLEAN]
  BY DEF ProcessorInv, TypeOK
<1>1. /\ caller[q] = "new" /\ Untouched(q) /\ ~rejecting[q] /\ ~Waiting(q)
      /\ \A w \in Workers : ~Holds(w, q)
  <2>1. caller[q] = "new" /\ Place(q)
    BY DEF Submit, ProcessorInv
  <2>2. ASSUME NEW w \in Workers PROVE ~Holds(w, q)
    BY <2>1 DEF Place, InHand, Holds
  <2> QED
    BY <2>1, <2>2 DEF Place, InQueue, OnChannel
<1>2. UNCHANGED <<pc, holding, phase, respCh, respClosed, got>>
  BY DEF Submit, workerVars, fanVars, respVars
<1>3. \A w \in Workers, r \in Queued : Holds(w, r)' <=> Holds(w, r)
  BY <1>2 DEF Holds
<1>4. /\ \A i \in 1 .. Len(queue) : i \in 1 .. Len(queue') /\ queue'[i] = queue[i]
      /\ \A i \in 1 .. Len(queue') : i \in 1 .. Len(queue) \/ queue'[i] = q
  <2>1. CASE UNCHANGED queue
    BY <2>1
  <2>2. CASE queue' = Append(queue, q)
    <3>1. /\ Len(queue') = Len(queue) + 1 /\ queue'[Len(queue) + 1] = q
          /\ \A i \in 1 .. Len(queue) : queue'[i] = queue[i]
      BY <1>type, <2>2, AppendFacts
    <3> QED
      BY <1>type, <3>1
  <2> QED
    BY <2>1, <2>2 DEF Submit
<1>5. ASSUME NEW r \in Queued, r # q PROVE Place(r)'
  <2>1. Waiting(r)' <=> Waiting(r)
    BY <1>4, <1>5 DEF Waiting
  <2>2. caller'[r] = caller[r] /\ rejecting'[r] = rejecting[r]
    BY <1>type, <1>5 DEF Submit
  <2> QED
    BY <1>2, <1>3, <2>1, <2>2, ApartStep DEF Apart, ProcessorInv
<1>6. Place(q)'
  <2>1. Untouched(q)' /\ (\A w \in Workers : ~Holds(w, q)') /\ respCh'[q] = Empty
    BY <1>1, <1>2, <1>3 DEF Untouched
  <2>2. \A answer \in Answers \cup {QueueFull} : answer # Empty
    BY AnswerFacts
  <2>3. CASE caller'[q] = "panicked" /\ UNCHANGED <<queue, rejecting>>
    <3>1. ~Waiting(q)'
      BY <1>1, <2>3 DEF Waiting
    <3> QED
      BY <1>1, <2>1, <2>2, <2>3, <3>1
      DEF Place, InQueue, InHand, OnChannel, Attended
  <2>4. CASE caller'[q] = "waiting" /\ queue' = Append(queue, q) /\ UNCHANGED rejecting
    <3>1. Waiting(q)'
      <4>1. Len(queue) + 1 \in 1 .. Len(queue') /\ queue'[Len(queue) + 1] = q
        BY <1>type, <2>4, AppendFacts
      <4> QED
        BY <4>1 DEF Waiting
    <3>2. ~respClosed'[q] /\ ~rejecting'[q]
      BY <1>1, <2>1, <2>4 DEF Untouched
    <3> QED
      BY <2>1, <2>2, <2>4, <3>1, <3>2
      DEF Place, InQueue, InHand, OnChannel, Attended
  <2>5. CASE caller'[q] = "waiting" /\ rejecting'[q] /\ UNCHANGED queue
    <3>1. ~Waiting(q)' /\ ~respClosed'[q]
      BY <1>1, <2>1, <2>5 DEF Waiting, Untouched
    <3> QED
      BY <2>1, <2>2, <2>5, <3>1
      DEF Place, InQueue, InHand, OnChannel, Attended
  <2> QED
    BY <1>type, <2>3, <2>4, <2>5 DEF Submit
<1> QED
  BY <1>5, <1>6

\* That goroutine writes the error of the full queue and closes the channel.
LEMMA RejectStep ==
    ASSUME ProcessorInv, [Next]_vars, NEW q \in Queued, Reject(q)
    PROVE  \A r \in Queued : Place(r)'
<1>type. /\ rejecting \in [Queued -> BOOLEAN] /\ respClosed \in [Queued -> BOOLEAN]
         /\ respCh \in [Queued -> Answers \cup {QueueFull, Empty}]
  BY DEF ProcessorInv, TypeOK
<1>1. /\ caller[q] = "waiting" /\ Untouched(q) /\ ~Waiting(q)
      /\ \A w \in Workers : ~Holds(w, q)
  BY DEF Reject, ProcessorInv, Place, InQueue, InHand, OnChannel
<1>2. UNCHANGED <<queue, pc, holding, phase, caller, got>>
  BY DEF Reject, workerVars, fanVars
<1>3. \A r \in Queued : (Waiting(r)' <=> Waiting(r))
                        /\ \A w \in Workers : Holds(w, r)' <=> Holds(w, r)
  BY <1>2 DEF Waiting, Holds
<1>4. ASSUME NEW r \in Queued, r # q PROVE Place(r)'
  <2>1. respCh'[r] = respCh[r] /\ respClosed'[r] = respClosed[r] /\ rejecting'[r] = rejecting[r]
    BY <1>type, <1>4 DEF Reject
  <2> QED
    BY <1>2, <1>3, <2>1, ApartStep DEF Apart, ProcessorInv
<1>5. Place(q)'
  <2>1. respCh'[q] = QueueFull /\ respClosed'[q] /\ ~rejecting'[q]
    BY <1>type DEF Reject
  <2>2. Due(q, QueueFull)'
    BY <1>1, <1>2 DEF Due, Untouched
  <2>3. \A answer \in Answers \cup {QueueFull} : respCh'[q] = answer => answer = QueueFull
    BY <2>1
  <2>4. ~Waiting(q)' /\ (\A w \in Workers : ~Holds(w, q)') /\ caller'[q] = "waiting"
    BY <1>1, <1>2, <1>3
  <2>5. QueueFull # Empty
    BY AnswerFacts
  <2> QED
    BY <2>1, <2>2, <2>3, <2>4, <2>5
    DEF Place, InQueue, InHand, OnChannel, Attended
<1> QED
  BY <1>4, <1>5

\* The caller reads the answer, or finds the channel closed and empty.
LEMMA ReceiveStep ==
    ASSUME ProcessorInv, [Next]_vars, NEW q \in Queued, Receive(q)
    PROVE  \A r \in Queued : Place(r)'
<1>type. /\ caller \in [Queued -> {"new", "waiting", "panicked", "answered"}]
         /\ got \in [Queued -> Answers \cup {QueueFull, Nil, Empty}]
         /\ respCh \in [Queued -> Answers \cup {QueueFull, Empty}]
         /\ respClosed \in [Queued -> BOOLEAN]
  BY DEF ProcessorInv, TypeOK
<1>1. caller[q] = "waiting" /\ Place(q)
  BY DEF Receive, ProcessorInv
<1>2. UNCHANGED <<queue, pc, holding, phase, respClosed, rejecting>>
  BY DEF Receive, workerVars, fanVars
<1>3. \A r \in Queued : (Waiting(r)' <=> Waiting(r))
                        /\ \A w \in Workers : Holds(w, r)' <=> Holds(w, r)
  BY <1>2 DEF Waiting, Holds
<1>4. ASSUME NEW r \in Queued, r # q PROVE Place(r)'
  <2>1. respCh'[r] = respCh[r] /\ caller'[r] = caller[r] /\ got'[r] = got[r]
    BY <1>type, <1>4 DEF Receive
  <2> QED
    BY <1>2, <1>3, <2>1, ApartStep DEF Apart, ProcessorInv
<1>5. Place(q)'
  <2>1. caller'[q] = "answered" /\ respCh'[q] = Empty
    BY <1>type DEF Receive
  <2>2. \/ got'[q] = Nil /\ Buyers = {} /\ phase'[q] # "none"
        \/ \E answer \in Answers \cup {QueueFull} : got'[q] = answer /\ Due(q, answer)'
    <3>1. CASE respCh[q] # Empty /\ got' = [got EXCEPT ![q] = respCh[q]]
      <4>1. PICK answer \in Answers \cup {QueueFull} : respCh[q] = answer
        BY <1>type, <3>1
      <4>2. Due(q, answer)
        BY <1>1, <4>1 DEF Place, OnChannel
      <4>3. Due(q, answer)'
        BY <1>2, <4>2, DueForGood DEF Requests, ProcessorInv
      <4> QED
        BY <1>type, <3>1, <4>1, <4>3
    <3>2. CASE respCh[q] = Empty /\ respClosed[q] /\ got' = [got EXCEPT ![q] = Nil]
      BY <1>type, <1>1, <1>2, <3>2 DEF Place, OnChannel
    <3> QED
      BY <3>1, <3>2 DEF Receive
  <2>3. ~Waiting(q) /\ ~rejecting[q]
    BY <1>1 DEF Receive, Place, InQueue, OnChannel, Untouched
  <2>4. \A w \in Workers : Holds(w, q) => pc[w] # "processing"
    BY <1>1 DEF Receive, Place, InHand
  <2>5. \A answer \in Answers \cup {QueueFull} : answer # Empty
    BY AnswerFacts
  <2>6. InQueue(q)' /\ OnChannel(q)' /\ Attended(q)'
    BY <1>2, <1>3, <2>1, <2>2, <2>3, <2>5 DEF InQueue, OnChannel, Attended
  <2>7. InHand(q)'
    BY <1>1, <1>2, <1>3, <2>1, <2>3, <2>4 DEF Place, InHand
  <2> QED
    BY <2>6, <2>7 DEF Place
<1> QED
  BY <1>4, <1>5

\* ProcessBidRequest is under way only for a request in hand, or of the batch.
LEMMA ReturnStep ==
    ASSUME ProcessorInv, [Next]_vars, NEW q \in Requests, Return(q)
    PROVE  \A r \in Queued : Place(r)'
<1>type. phase \in [Requests -> {"none", "gathering", "returned", "stored"}]
  BY DEF ProcessorInv, TypeOK
<1>1. UNCHANGED <<queue, pc, holding, respCh, respClosed, caller, got, rejecting>>
  BY DEF Return, workerVars, respVars, callerVars
<1>2. \A r \in Queued : (Waiting(r)' <=> Waiting(r))
                        /\ \A w \in Workers : Holds(w, r)' <=> Holds(w, r)
  BY <1>1 DEF Waiting, Holds
<1>3. ASSUME NEW r \in Queued, r # q PROVE Place(r)'
  <2>1. phase'[r] = phase[r]
    BY <1>type, <1>3 DEF Return, Requests
  <2> QED
    BY <1>1, <1>2, <2>1, ApartStep DEF Apart, ProcessorInv
<1>4. ASSUME q \in Queued PROVE Place(q)'
  <2>1. Place(q) /\ phase[q] = "gathering" /\ phase'[q] = "returned"
    BY <1>type, <1>4 DEF Return, ProcessorInv
  <2>2. \A answer : Due(q, answer) => Due(q, answer)'
    BY <2>1, DueForGood DEF ProcessorInv
  <2>3. ~Waiting(q)
    BY <2>1 DEF Place, InQueue, Untouched
  <2>4. InQueue(q)' /\ Attended(q)'
    BY <1>1, <1>2, <1>4, <2>1, <2>3 DEF Place, InQueue, Attended
  <2>5. InHand(q)'
    BY <1>1, <1>2, <1>4, <2>1 DEF Place, InHand
  <2>6. OnChannel(q)'
    BY <1>1, <2>1, <2>2 DEF Place, OnChannel, Untouched
  <2> QED
    BY <2>4, <2>5, <2>6 DEF Place
<1> QED
  BY <1>3, <1>4

\* A worker receives the request at the head of the queue, which nobody else
\* has, and calls ProcessBidRequest.
LEMMA TakeStep ==
    ASSUME ProcessorInv, [Next]_vars, NEW w \in Workers, TakeRequest(w)
    PROVE  \A r \in Queued : Place(r)'
<1>type. /\ queue \in Seq(Queued) /\ Len(queue) \in Nat
         /\ pc \in [Workers -> {"unborn", "range", "processing", "closing", "dead"}]
         /\ holding \in [Workers -> Queued \cup {NoRequest}]
         /\ phase \in [Requests -> {"none", "gathering", "returned", "stored"}]
  BY DEF ProcessorInv, TypeOK
<1>1. UNCHANGED <<respCh, respClosed, caller, got, rejecting>> /\ pc[w] = "range"
  BY DEF TakeRequest, respVars, callerVars
<1>2. /\ \A i \in 1 .. Len(queue') : queue'[i] = queue[i + 1] /\ i + 1 \in 1 .. Len(queue)
      /\ \A i \in 2 .. Len(queue) : queue'[i - 1] = queue[i] /\ i - 1 \in 1 .. Len(queue')
      /\ Head(queue) = queue[1] /\ Head(queue) \in Queued /\ 1 \in 1 .. Len(queue)
  BY <1>type, TailFacts DEF TakeRequest
<1>3. PICK q \in Queued : q = Head(queue)
  BY <1>2
<1>4. /\ \A v \in Workers : /\ v = w => pc'[v] = "processing" /\ holding'[v] = q
                            /\ v # w => pc'[v] = pc[v] /\ holding'[v] = holding[v]
      /\ phase' = Called(q)
  BY <1>type, <1>3 DEF TakeRequest
<1>5. Waiting(q) /\ Place(q) /\ InQueue(q)
  <2>1. Waiting(q)
    BY <1>2, <1>3 DEF Waiting
  <2> QED
    BY <2>1 DEF ProcessorInv, Place
<1>6. ~Waiting(q)'
  <2>1. ASSUME NEW i \in 1 .. Len(queue'), queue'[i] = q PROVE FALSE
    <3>1. queue[i + 1] = queue[1] /\ i + 1 \in 1 .. Len(queue)
      BY <1>2, <1>3, <2>1
    <3>2. i + 1 = 1
      BY <1>2, <3>1 DEF OnceInQueue, ProcessorInv
    <3> QED
      BY <2>1, <3>2
  <2> QED
    BY <2>1 DEF Waiting
<1>7. ASSUME NEW r \in Queued, r # q PROVE Place(r)'
  <2>1. phase'[r] = phase[r]
    BY <1>type, <1>4, <1>7 DEF Called, Requests
  <2>2. Waiting(r)' <=> Waiting(r)
    <3>1. Waiting(r)' => Waiting(r)
      BY <1>2 DEF Waiting
    <3>2. ASSUME NEW i \in 1 .. Len(queue), queue[i] = r PROVE Waiting(r)'
      <4>1. i # 1
        BY <1>2, <1>3, <1>7, <3>2
      <4>2. i \in 2 .. Len(queue)
        BY <1>type, <4>1
      <4> QED
        BY <1>2, <3>2, <4>2 DEF Waiting
    <3> QED
      BY <3>1, <3>2 DEF Waiting
  <2>3. \A v \in Workers : /\ Holds(v, r)' <=> Holds(v, r)
                           /\ Holds(v, r) => pc'[v] = pc[v]
    BY <1>1, <1>4, <1>7 DEF Holds
  <2> QED
    BY <1>1, <2>1, <2>2, <2>3, ApartStep DEF Apart, ProcessorInv
<1>8. Place(q)'
  <2>1. /\ phase[q] = "none" /\ respCh[q] = Empty /\ ~respClosed[q]
        /\ caller[q] = "waiting" /\ ~rejecting[q] /\ \A v \in Workers : ~Holds(v, q)
    BY <1>5 DEF InQueue, Untouched
  <2>2. phase'[q] \in {"gathering", "returned"}
    BY <1>type, <1>4 DEF Called, Requests
  <2>3. Holds(w, q)' /\ \A v \in Workers : v # w => ~Holds(v, q)'
    BY <1>4, <2>1 DEF Holds
  <2>4. \A answer \in Answers \cup {QueueFull} : answer # Empty
    BY AnswerFacts
  <2>5. InQueue(q)' /\ Attended(q)'
    BY <1>6, <2>3 DEF InQueue, Attended
  <2>6. InHand(q)'
    BY <1>1, <1>4, <2>1, <2>2, <2>3 DEF InHand
  <2>7. OnChannel(q)'
    BY <1>1, <2>1, <2>4 DEF OnChannel
  <2> QED
    BY <2>5, <2>6, <2>7 DEF Place
<1> QED
  BY <1>7, <1>8

\* The worker sends what is due to an empty channel whose caller waits.
LEMMA DeliverStep ==
    ASSUME ProcessorInv, [Next]_vars, NEW w \in Workers, Deliver(w)
    PROVE  \A r \in Queued : Place(r)'
<1>type. /\ pc \in [Workers -> {"unborn", "range", "processing", "closing", "dead"}]
         /\ respCh \in [Queued -> Answers \cup {QueueFull, Empty}]
  BY DEF ProcessorInv, TypeOK
<1>1. PICK q \in Queued : q = holding[w]
  BY DeliverFacts DEF ProcessorInv
<1>2. /\ pc[w] = "processing" /\ phase[q] = "returned"
      /\ \A v \in Workers : /\ v = w => pc'[v] = "closing"
                            /\ v # w => pc'[v] = pc[v]
      /\ IF Buyers = {} THEN UNCHANGED respCh
         ELSE \E answer \in Answers :
                Due(q, answer) /\ respCh' = [respCh EXCEPT ![q] = answer]
  BY <1>type, <1>1, DeliverFacts DEF ProcessorInv
<1>3. UNCHANGED <<queue, holding, phase, respClosed, caller, got, rejecting>>
  BY DeliverFacts DEF ProcessorInv, fanVars, callerVars
<1>4. \A r \in Queued : (Waiting(r)' <=> Waiting(r))
                        /\ \A v \in Workers : Holds(v, r)' <=> Holds(v, r)
  BY <1>2, <1>3 DEF Waiting, Holds
<1>5. ASSUME NEW r \in Queued, r # q PROVE Place(r)'
  <2>1. respCh'[r] = respCh[r]
    BY <1>type, <1>2, <1>5
  <2>2. \A v \in Workers : Holds(v, r) => pc'[v] = pc[v]
    BY <1>1, <1>2, <1>5 DEF Holds
  <2> QED
    BY <1>3, <1>4, <2>1, <2>2, ApartStep DEF Apart, ProcessorInv
<1>6. Place(q)'
  <2>1. Holds(w, q) /\ Place(q)
    BY <1>1, <1>2 DEF Holds, ProcessorInv
  <2>2. /\ \A v \in Workers : Holds(v, q) <=> v = w
        /\ ~rejecting[q] /\ ~respClosed[q] /\ caller[q] = "waiting" /\ respCh[q] = Empty
    BY <1>2, <2>1 DEF Place, InHand
  <2>3. ~Waiting(q)
    BY <2>1 DEF Place, InQueue
  <2>4. InQueue(q)' /\ Attended(q)'
    BY <1>4, <2>1, <2>3 DEF InQueue, Attended
  <2>5. \A answer \in Answers : answer # Empty
    BY AnswerFacts
  <2>6. InHand(q)'
    <3>1. respCh'[q] # Empty \/ Buyers = {}
      BY <1>type, <1>2, <2>5
    <3> QED
      BY <1>2, <1>3, <1>4, <2>2, <3>1 DEF InHand
  <2>7. OnChannel(q)'
    <3>1. ASSUME NEW answer \in Answers \cup {QueueFull}, respCh'[q] = answer
          PROVE  Due(q, answer)'
      <4>1. answer # Empty
        BY AnswerFacts
      <4>2. Due(q, answer)
        BY <1>type, <1>2, <2>2, <3>1, <4>1
      <4> QED
        BY <1>3, <4>2, DueForGood DEF Requests, ProcessorInv
    <3> QED
      BY <1>3, <2>2, <3>1 DEF OnChannel
  <2> QED
    BY <2>4, <2>6, <2>7 DEF Place
<1> QED
  BY <1>5, <1>6

\* The worker closes the channel, on which the answer is or was, and lets go
\* of the request.
LEMMA CloseStep ==
    ASSUME ProcessorInv, [Next]_vars, NEW w \in Workers, CloseResponse(w)
    PROVE  \A r \in Queued : Place(r)'
<1>type. /\ pc \in [Workers -> {"unborn", "range", "processing", "closing", "dead"}]
         /\ holding \in [Workers -> Queued \cup {NoRequest}]
         /\ respClosed \in [Queued -> BOOLEAN]
  BY DEF ProcessorInv, TypeOK
<1>1. PICK q \in Queued : q = holding[w]
  BY DEF CloseResponse, ProcessorInv, HandsFull
<1>2. /\ pc[w] = "closing"
      /\ \A v \in Workers : /\ v = w => pc'[v] = "range"
                            /\ v # w => pc'[v] = pc[v] /\ holding'[v] = holding[v]
      /\ respClosed' = [respClosed EXCEPT ![q] = TRUE]
  BY <1>type, <1>1 DEF CloseResponse
<1>3. UNCHANGED <<queue, phase, respCh, caller, got, rejecting>>
  BY DEF CloseResponse, fanVars, callerVars
<1>4. \A r \in Queued : Waiting(r)' <=> Waiting(r)
  BY <1>3 DEF Waiting
<1>5. ASSUME NEW r \in Queued, r # q PROVE Place(r)'
  <2>1. respClosed'[r] = respClosed[r]
    BY <1>type, <1>2, <1>5
  <2>2. \A v \in Workers : /\ Holds(v, r)' <=> Holds(v, r)
                           /\ Holds(v, r) => pc'[v] = pc[v]
    BY <1>1, <1>2, <1>5 DEF Holds
  <2> QED
    BY <1>3, <1>4, <2>1, <2>2, ApartStep DEF Apart, ProcessorInv
<1>6. Place(q)'
  <2>1. Holds(w, q) /\ Place(q)
    BY <1>1, <1>2 DEF Holds, ProcessorInv
  <2>2. /\ \A v \in Workers : Holds(v, q) => v = w
        /\ ~rejecting[q] /\ phase[q] = "returned" /\ caller[q] \in {"waiting", "answered"}
        /\ caller[q] = "waiting" => respCh[q] # Empty \/ Buyers = {}
    BY <1>2, <2>1 DEF Place, InHand
  <2>3. ~Waiting(q)
    BY <2>1 DEF Place, InQueue
  <2>4. (\A v \in Workers : ~Holds(v, q)') /\ respClosed'[q]
    BY <1>type, <1>2, <2>2 DEF Holds
  <2>5. InQueue(q)' /\ InHand(q)' /\ Attended(q)'
    BY <1>4, <2>3, <2>4 DEF InQueue, InHand, Attended
  <2>6. OnChannel(q)'
    <3>1. \A answer : Due(q, answer) => Due(q, answer)'
      BY <1>3, DueForGood DEF Requests, ProcessorInv
    <3> QED
      BY <1>3, <2>1, <2>2, <3>1 DEF Place, OnChannel
  <2> QED
    BY <2>5, <2>6 DEF Place
<1> QED
  BY <1>5, <1>6

\* Every step leaves every request in a place of its own; the steps not
\* treated above touch nothing that places a request.
LEMMA PlaceStep == ProcessorInv /\ [Next]_vars => \A r \in Queued : Place(r)'
<1> SUFFICES ASSUME ProcessorInv, [Next]_vars PROVE \A r \in Queued : Place(r)'
  OBVIOUS
<1>type. /\ pc \in [Workers -> {"unborn", "range", "processing", "closing", "dead"}]
         /\ phase \in [Requests -> {"none", "gathering", "returned", "stored"}]
  BY DEF ProcessorInv, TypeOK
<1>apart. ASSUME UNCHANGED <<queue, holding, respVars, callerVars>>,
                 \A r \in Queued : phase'[r] = phase[r],
                 \A w \in Workers : \/ pc'[w] = pc[w]
                                    \/ {pc[w], pc'[w]} \cap {"processing", "closing"} = {}
          PROVE  \A r \in Queued : Place(r)'
  <2>1. \A r \in Queued : Waiting(r)' <=> Waiting(r)
    BY <1>apart DEF Waiting
  <2>2. \A r \in Queued, w \in Workers : /\ Holds(w, r)' <=> Holds(w, r)
                                         /\ Holds(w, r) => pc'[w] = pc[w]
    BY <1>apart DEF Holds
  <2> QED
    BY <1>apart, <2>1, <2>2, ApartStep DEF Apart, ProcessorInv, respVars, callerVars
<1>1. CASE Start
  <2>1. \A w \in Workers : pc'[w] = pc[w] \/ (pc[w] = "unborn" /\ pc'[w] = "range")
    <3>1. ASSUME NEW w \in Workers, w[1] = starts + 1 PROVE pc[w] = "unborn"
      <4>1. ~(w[1] <= starts)
        BY <3>1 DEF ProcessorInv, TypeOK
      <4> QED
        BY <4>1 DEF ProcessorInv, Staff
    <3> QED
      BY <1>1, <3>1 DEF Start
  <2> QED
    BY <1>1, <1>apart, <2>1 DEF Start, fanVars
<1>2. ASSUME NEW w \in Workers, WorkerExits(w) PROVE \A r \in Queued : Place(r)'
  <2>1. \A v \in Workers : pc'[v] = pc[v] \/ (pc[v] = "range" /\ pc'[v] = "dead")
    BY <1>2, <1>type DEF WorkerExits
  <2> QED
    BY <1>2, <1>apart, <2>1 DEF WorkerExits, fanVars
<1>3. ASSUME NEW q \in Batch, BatchStep(q) PROVE \A r \in Queued : Place(r)'
  <2>1. \A r \in Queued : phase'[r] = phase[r]
    BY <1>3, <1>type, ProcessorAssumption DEF BatchStep, BatchCalls, Store, Called, Requests
  <2> QED
    BY <1>3, <1>apart, <2>1 DEF BatchStep, BatchCalls, Store, workerVars
<1>4. CASE StopBegin \/ StopReturn \/ CtxDone \/ UNCHANGED vars
  BY <1>4, <1>apart DEF StopBegin, StopReturn, CtxDone, vars, workerVars, fanVars
<1>5. ASSUME NEW q \in Requests, ProcessStep(q) PROVE \A r \in Queued : Place(r)'
  BY <1>5, <1>apart, ReturnStep DEF ProcessStep, CloseDone, BuyerAnswers, workerVars
<1>6. ASSUME NEW q \in Queued, CallerStep(q) PROVE \A r \in Queued : Place(r)'
  BY <1>6, SubmitStep, RejectStep, ReceiveStep DEF CallerStep
<1> QED
  BY <1>1, <1>2, <1>3, <1>4, <1>5, <1>6, TakeStep, DeliverStep, CloseStep DEF Next, WorkerStep

-----------------------------------------------------------------------------
\* The invariant holds initially.
LEMMA ProcessorInit == Init => ProcessorInv
BY TypeInit, FullInit, StaffInit, PlaceInit DEF ProcessorInv

\* Every step keeps it.
LEMMA ProcessorInvStep == ProcessorInv /\ [Next]_vars => ProcessorInv'
<1> SUFFICES ASSUME ProcessorInv, [Next]_vars PROVE ProcessorInv'
  OBVIOUS
<1>1. /\ TypeOK /\ Full /\ Staff /\ OnceInQueue /\ HandsFull
      /\ \A r \in Queued : Place(r)
  BY DEF ProcessorInv
<1>2. TypeOK' /\ Full' /\ Staff' /\ OnceInQueue' /\ HandsFull'
  BY <1>1, TypeStep, FullStep, StaffStep, OnceStep, HandsStep
<1>3. \A r \in Queued : Place(r)'
  BY PlaceStep
<1> QED
  BY <1>2, <1>3 DEF ProcessorInv

\* The inductive invariant of the processor.
THEOREM ProcessorInvariant == Spec => []ProcessorInv
<1>1. Init => ProcessorInv
  BY ProcessorInit
<1>2. ProcessorInv /\ [Next]_vars => ProcessorInv'
  BY ProcessorInvStep
<1> QED
  BY <1>1, <1>2, PTL DEF Spec

\* The types, and a queue that never outgrows its capacity (concurrent.go:46).
THEOREM ProcessorTypes == Spec => []TypeOK
<1>1. ProcessorInv => TypeOK
  BY DEF ProcessorInv
<1> QED
  BY <1>1, ProcessorInvariant, PTL

\* No worker meets a hole in a slice, and no caller whose context is not done
\* gets one (concurrent.go:108-117, 134).
THEOREM SlicesAreComplete == Spec => []HolesOnlyOnTimeout
<1>1. ProcessorInv => HolesOnlyOnTimeout
  BY DEF ProcessorInv, Full, HolesOnlyOnTimeout, Complete
<1> QED
  BY <1>1, ProcessorInvariant, PTL

\* A caller of SubmitBidRequest gets the first bid, else the first error, else
\* the news that the queue was full (concurrent.go:130-179).
THEOREM CallersGetBestAnswer == Spec => []BestAnswer
<1>1. ASSUME ProcessorInv, NEW r \in Queued, caller[r] = "answered"
      PROVE  /\ got[r] = QueueFull <=> phase[r] = "none"
             /\ got[r] = Nil => Buyers = {}
             /\ got[r].kind \in {"bid", "error"} =>
                /\ got[r].kind = "bid" <=> \E b \in Buyers : results[r][b] = "bid"
                /\ results[r][got[r].buyer] = got[r].kind
                /\ \A b \in Buyers : b < got[r].buyer => results[r][b] = "error"
  <2>1. \/ got[r] = Nil /\ Buyers = {} /\ phase[r] # "none"
        \/ \E answer \in Answers \cup {QueueFull} : got[r] = answer /\ Due(r, answer)
    BY <1>1 DEF ProcessorInv, Place, OnChannel
  <2>2. results[r] \in [Buyers -> {"nil", "bid", "error"}]
    BY <1>1 DEF ProcessorInv, TypeOK, Requests
  <2>3. CASE got[r] = Nil /\ Buyers = {} /\ phase[r] # "none"
    BY <2>3, AnswerFacts
  <2>4. CASE got[r] = QueueFull /\ phase[r] = "none"
    BY <2>4, AnswerFacts
  <2>5. CASE /\ phase[r] # "none" /\ Buyers # {} /\ Complete(r)
             /\ got[r] = [buyer |-> Chosen(r), kind |-> results[r][Chosen(r)]]
    <3>1. PICK c \in Buyers : c = Chosen(r)
      BY <2>5, ChosenIsFirst
    <3>2. got[r].buyer = c /\ got[r].kind = results[r][c]
      BY <2>5, <3>1
    <3>3. results[r][c] \in {"bid", "error"}
      BY <2>2, <2>5 DEF Complete
    <3>4. got[r] # QueueFull /\ got[r] # Nil
      BY <3>2, <3>3, AnswerFacts
    <3>5. results[r][c] = "bid" <=> \E b \in Buyers : results[r][b] = "bid"
      BY <2>5, <3>1, ChosenIsFirst DEF Bids
    <3>6. ASSUME NEW b \in Buyers, b < c PROVE results[r][b] = "error"
      <4>1. b \in Int /\ c \in Int /\ b >= 1
        BY DEF Buyers
      <4>2. b \notin Bids(r)
        <5>1. CASE Bids(r) = {}
          BY <5>1
        <5>2. CASE Bids(r) # {}
          BY <2>5, <3>1, <3>6, <4>1, <5>2, ChosenIsFirst
        <5> QED
          BY <5>1, <5>2
      <4>3. results[r][b] # "bid" /\ results[r][b] # "nil"
        BY <2>5, <4>2 DEF Bids, Complete
      <4> QED
        BY <2>2, <4>3
    <3> QED
      BY <2>5, <3>2, <3>4, <3>5, <3>6
  <2> QED
    BY <2>1, <2>3, <2>4, <2>5 DEF Due
<1>2. ProcessorInv => BestAnswer
  BY <1>1 DEF BestAnswer
<1> QED
  BY <1>2, ProcessorInvariant, PTL

\* When Stop returns no request is queued and every caller has the answer on
\* the channel (concurrent.go:60-65).
THEOREM StopLeavesNothing == Spec => StopDrains
<1>1. ASSUME ProcessorInv, [Next]_vars, stopper = "waiting", stopper' = "returned", starts > 0
      PROVE  /\ queue = <<>>
             /\ \A r \in Queued : caller[r] = "waiting" => rejecting[r] \/ respClosed[r]
  <2>1. StopReturn
    BY <1>1 DEF Next, CallerStep, ProcessStep, WorkerStep, BatchStep, Start, StopBegin, CtxDone,
       Submit, Reject, Receive, CloseDone, Return, BuyerAnswers, TakeRequest, Deliver, SendResult,
       CloseResponse, WorkerExits, BatchCalls, Store, vars, procVars
  <2>2. \A w \in Workers : pc[w] \in {"unborn", "dead"}
    BY <2>1 DEF StopReturn
  <2>3. queue = <<>>
    <3>1. <<1, 1>> \in Workers /\ 1 <= starts
      BY <1>1, CapPositive, ProcessorAssumption DEF Workers, ProcessorInv, TypeOK
    <3>2. pc[<<1, 1>>] # "unborn"
      BY <1>1, <3>1 DEF ProcessorInv, Staff
    <3> QED
      BY <1>1, <2>2, <3>1, <3>2 DEF ProcessorInv, Staff
  <2>4. \A r \in Queued : ~Waiting(r) /\ \A w \in Workers : ~Holds(w, r)
    BY <2>2, <2>3 DEF Waiting, Holds
  <2> QED
    BY <1>1, <2>3, <2>4 DEF ProcessorInv, Place, Attended
<1>2. ProcessorInv /\ [Next]_vars =>
        [stopper = "waiting" /\ stopper' = "returned" /\ starts > 0 =>
            /\ queue = <<>>
            /\ \A r \in Queued :
                caller[r] = "waiting" => rejecting[r] \/ respClosed[r]]_vars
  BY <1>1
<1> QED
  BY <1>2, ProcessorInvariant, PTL DEF Spec, StopDrains

=============================================================================

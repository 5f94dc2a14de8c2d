---------------------------- MODULE ServerProofs ----------------------------
(***************************************************************************)
(* Theorems about the bid request handler and the server around it.  The   *)
(* invariant has two parts: what the handler keeps (HandlerInv) and what   *)
(* the process keeps (ProcessInv); a step of the server is a step of the   *)
(* handler or leaves its variables alone.                                  *)
(***************************************************************************)
EXTENDS Server, TLAPS, FiniteSetTheorems, SequenceTheorems

\* Counting requests.
LEMMA RequestSets ==
    ASSUME NEW S \in SUBSET Requests, NEW r \in Requests
    PROVE  /\ Cardinality(S) \in Nat
           /\ r \notin S => Cardinality(S \cup {r}) = Cardinality(S) + 1
           /\ r \in S => Cardinality(S \ {r}) = Cardinality(S) - 1 /\ Cardinality(S) # 0
<1>1. IsFiniteSet(S)
  BY HandlerAssumption, FS_Subset
<1> QED
  BY <1>1, FS_CardinalityType, FS_AddElement, FS_RemoveElement, FS_EmptySet

\* What generateSimpleBid asks is above the floor (bidrequest.go:366-376).
LEMMA PriceFacts ==
    ASSUME NEW imp, imp.floor \in Int
    PROVE  Price(imp) \in Nat /\ Price(imp) > 10 * imp.floor
BY DEF Price

\* A function on an initial segment is a sequence, and the other way round.
LEMMA FunctionIsSequence ==
    ASSUME NEW S, NEW n \in Nat, NEW f \in [1 .. n -> S]
    PROVE  f \in Seq(S) /\ Len(f) = n
OBVIOUS

\* The elements of a sequence over a set are in it.
LEMMA SequenceElements ==
    ASSUME NEW S, NEW s \in Seq(S)
    PROVE  /\ Len(s) \in Nat /\ DOMAIN s = 1 .. Len(s)
           /\ \A i \in DOMAIN s : s[i] \in S
OBVIOUS

\* GenerateBidResponse gives each impression one bid, above its floor
\* (bidrequest.go:340-400).
LEMMA BidsType ==
    ASSUME NEW in \in Inputs
    PROVE  /\ BidsFor(in) \in Seq([price : Nat, size : {"banner", "video", "none"}])
           /\ Len(BidsFor(in)) = Len(in.imps)
           /\ \A i \in DOMAIN BidsFor(in) : BidsFor(in)[i].price > 10 * in.imps[i].floor
<1> DEFINE Imps == [id : BOOLEAN, floor : Int, media : SUBSET {"banner", "video"}]
           Offers == [price : Nat, size : {"banner", "video", "none"}]
           imps == in.imps
<1>1. imps \in Seq(Imps)
  BY InputsAssumption
<1>2. \A imp \in Imps : imp.floor \in Int
  OBVIOUS
<1>3. \A imp \in Imps : Bid(imp) \in Offers /\ Bid(imp).price > 10 * imp.floor
  BY <1>2, PriceFacts DEF Bid
<1>4. BidsFor(in) = [i \in DOMAIN imps |-> Bid(imps[i])]
  BY DEF BidsFor
<1> HIDE DEF Imps, Offers, imps
<1>5. /\ Len(imps) \in Nat /\ DOMAIN imps = 1 .. Len(imps)
      /\ \A i \in DOMAIN imps : imps[i] \in Imps
  BY <1>1, SequenceElements
<1>6. BidsFor(in) \in [1 .. Len(imps) -> Offers]
  BY <1>3, <1>4, <1>5
<1>7. BidsFor(in) \in Seq(Offers) /\ Len(BidsFor(in)) = Len(imps)
  BY <1>5, <1>6, FunctionIsSequence
<1>8. \A i \in DOMAIN BidsFor(in) : BidsFor(in)[i].price > 10 * imps[i].floor
  BY <1>3, <1>4, <1>5
<1> QED
  BY <1>7, <1>8 DEF Offers, imps

-----------------------------------------------------------------------------
\* How far each request is, what it was answered, and why.
Progress ==
    \A r \in Requests :
        /\ pc[r] = "new" <=> input[r] = Unread
        /\ pc[r] \in {"new", "admitted", "parsing", "panicking", "failed", "probing"}
            <=> reply[r] = 0
        /\ pc[r] \in {"leaving", "recording"} => reply[r] \in {200, 400}
        /\ pc[r] = "recordingError" => reply[r] = 500
        /\ pc[r] = "failed" \/ reply[r] = 400 => ParseError(input[r]) \notin {"none", "nil"}
        /\ r \notin Probing /\ reply[r] = 200 =>
            ParseError(input[r]) = "none" /\ bids[r] = BidsFor(input[r])
        /\ r \in Probing \/ reply[r] # 200 => bids[r] = <<>>
        /\ r \in Probing =>
            pc[r] \in {"probing", "done"} /\ reply[r] \in {0, 200, 206, 429, 503}
        /\ pc[r] = "probing" => r \in Probing

\* The types that do not depend on the counts.
RequestTypes ==
    /\ tokens \in 0 .. Burst
    /\ pc \in [Requests -> Places]
    /\ input \in [Requests -> Inputs \cup Probes \cup {Unread}]
    /\ DOMAIN bids = Requests
    /\ reply \in [Requests -> {0, 200, 206, 400, 429, 500, 503}]

\* A request that was not read has a body of its own, and only requests for a
\* bid have one.
LEMMA KindsApart == Unread \notin Inputs /\ Unread \notin Probes /\ Inputs \cap Probes = {}
<1>1. \A in \in Inputs : in.body \in Bodies /\ "body" \in DOMAIN in
  BY InputsAssumption
<1>2. \A in \in Probes : "body" \notin DOMAIN in
  BY ProbesAssumption
<1>3. Unread.body \notin Bodies /\ "body" \in DOMAIN Unread
  BY DEF Unread, Bodies
<1> QED
  BY <1>1, <1>2, <1>3

\* The code of a probe is one of three.
LEMMA ProbeCodes == \A probe : ProbeCode(probe) \in {200, 206, 503}
BY DEF ProbeCode, HealthCode

\* No request has been read or answered when the process starts.
LEMMA ProgressInit == Init => RequestTypes /\ Progress
BY HandlerAssumption, KindsApart DEF Init, RequestTypes, Progress, Places, Probing

\* Every step keeps what a request was answered in line with how far it is.
LEMMA ProgressStep ==
    RequestTypes /\ Progress /\ [Next]_vars => RequestTypes' /\ Progress'
<1> SUFFICES ASSUME RequestTypes, Progress, [Next]_vars PROVE RequestTypes' /\ Progress'
  OBVIOUS
<1> USE HandlerAssumption DEF Goto, Reply
<1>1. CASE Refill
  BY <1>1 DEF Refill, stats, metrics, RequestTypes, Progress, Probing
<1>2. CASE UNCHANGED vars
  BY <1>2 DEF vars, RequestTypes, Progress, Probing
<1>3. ASSUME NEW r \in Requests, Arrive(r) PROVE RequestTypes' /\ Progress'
  <2>1. PICK in \in Inputs \cup Probes : input' = [input EXCEPT ![r] = in] /\
            IF tokens > 0
            THEN /\ tokens' = tokens - 1
                 /\ pc' = [pc EXCEPT ![r] = IF in \in Probes THEN "probing" ELSE "admitted"]
                 /\ reply' = reply
            ELSE /\ pc' = [pc EXCEPT ![r] = "done"]
                 /\ reply' = [reply EXCEPT ![r] = 429]
                 /\ tokens' = tokens
    BY <1>3 DEF Arrive
  <2>2. RequestTypes'
    BY <1>3, <2>1 DEF Arrive, RequestTypes, Places
  <2>3. /\ bids' = bids /\ pc[r] = "new" /\ reply[r] = 0 /\ bids[r] = <<>>
        /\ input'[r] = in /\ in # Unread
        /\ \/ pc'[r] = "admitted" /\ reply'[r] = 0 /\ in \notin Probes
           \/ pc'[r] = "probing" /\ reply'[r] = 0 /\ in \in Probes
           \/ pc'[r] = "done" /\ reply'[r] = 429
        /\ \A q \in Requests : q # r =>
             pc'[q] = pc[q] /\ reply'[q] = reply[q] /\ input'[q] = input[q]
    BY <1>3, <2>1, KindsApart DEF Arrive, RequestTypes, Progress
  <2> HIDE <2>1
  <2> QED
    BY <2>2, <2>3 DEF Progress, Probing
<1>4. ASSUME NEW r \in Requests, Enter(r) \/ Panic(r) PROVE RequestTypes' /\ Progress'
  BY <1>4 DEF Enter, Panic, RequestTypes, Progress, Probing, Places, metrics, stats
<1>5. ASSUME NEW r \in Requests, ParseFails(r) PROVE RequestTypes' /\ Progress'
  BY <1>5 DEF ParseFails, RequestTypes, Progress, Probing, Places
<1>6. ASSUME NEW r \in Requests, ReplyError(r) PROVE RequestTypes' /\ Progress'
  BY <1>6 DEF ReplyError, RequestTypes, Progress, Probing, Places
<1>7. ASSUME NEW r \in Requests, Respond(r) PROVE RequestTypes' /\ Progress'
  BY <1>7 DEF Respond, RequestTypes, Progress, Probing, Places
<1>8. ASSUME NEW r \in Requests, Leave(r) PROVE RequestTypes' /\ Progress'
  BY <1>8 DEF Leave, RequestTypes, Progress, Probing, Places
<1>9. ASSUME NEW r \in Requests, Record(r) PROVE RequestTypes' /\ Progress'
  BY <1>9 DEF Record, RequestTypes, Progress, Probing, Places
<1>10. ASSUME NEW r \in Requests, Probe(r) PROVE RequestTypes' /\ Progress'
  BY <1>10, ProbeCodes DEF Probe, RequestTypes, Progress, Probing, Places
<1> QED
  BY <1>1, <1>2, <1>3, <1>4, <1>5, <1>6, <1>7, <1>8, <1>9, <1>10 DEF Next, Handle

-----------------------------------------------------------------------------
\* The sets the counters count.
Admitted == {r \in Requests \ Probing : reply[r] # 429}
Counted == {r \in Admitted : pc[r] \notin {"new", "admitted"}}
Failing == {r \in Requests : pc[r] = "failed" \/ reply[r] \in {400, 500}}
Finished == {r \in Admitted : pc[r] = "done"}
Refused == {r \in Requests : reply[r] = 400}
Errors == Refused \cup {r \in Finished : reply[r] = 500}

\* Each counter is the size of one of these sets, or of two of them.
Counts ==
    /\ activeRequests = Cardinality(Inside)
    /\ totalRequests = Cardinality(Counted)
    /\ failedRequests = Cardinality(Failing)
    /\ recorded = Cardinality(Finished) + Cardinality(Refused)
    /\ recordedErrors = Cardinality(Errors)

\* Nothing has been counted when the process starts.
LEMMA CountsInit == Init => Counts
<1> SUFFICES ASSUME Init PROVE Counts
  OBVIOUS
<1>1. Inside = {} /\ Counted = {} /\ Failing = {} /\ Finished = {} /\ Refused = {} /\ Errors = {}
  BY DEF Init, Inside, Admitted, Counted, Failing, Finished, Refused, Errors
<1> QED
  BY <1>1, FS_EmptySet DEF Init, Counts

\* Every step moves a request in or out of the sets as it moves the counters.
LEMMA CountsStep == RequestTypes /\ Progress /\ Counts /\ [Next]_vars => Counts'
<1> SUFFICES ASSUME RequestTypes, Progress, Counts, [Next]_vars PROVE Counts'
  OBVIOUS
<1> USE DEF Goto, Reply
<1>sets. /\ Inside \in SUBSET Requests /\ Counted \in SUBSET Requests
         /\ Failing \in SUBSET Requests /\ Finished \in SUBSET Requests
         /\ Refused \in SUBSET Requests /\ Errors \in SUBSET Requests
  BY DEF Inside, Admitted, Counted, Failing, Finished, Refused, Errors
<1>type. pc \in [Requests -> Places] /\ reply \in [Requests -> {0, 200, 206, 400, 429, 500, 503}]
  BY DEF RequestTypes
<1>prog. \A r \in Requests :
        /\ pc[r] = "new" <=> input[r] = Unread
        /\ pc[r] \in {"new", "admitted", "parsing", "panicking", "failed", "probing"}
            <=> reply[r] = 0
        /\ pc[r] \in {"leaving", "recording"} => reply[r] \in {200, 400}
        /\ pc[r] = "recordingError" => reply[r] = 500
        /\ r \in Probing =>
            pc[r] \in {"probing", "done"} /\ reply[r] \in {0, 200, 206, 429, 503}
        /\ pc[r] = "probing" => r \in Probing
  BY DEF Progress
<1>frame. input' = input => Probing' = Probing
  BY DEF Probing
<1>same. ASSUME UNCHANGED <<stats, metrics>>, Inside' = Inside, Counted' = Counted,
                Failing' = Failing, Finished' = Finished, Refused' = Refused,
                Errors' = Errors
         PROVE  Counts'
  BY <1>same DEF Counts, stats, metrics
<1>1. CASE Refill \/ UNCHANGED vars
  BY <1>1, <1>same
  DEF Refill, vars, Inside, Admitted, Probing, Counted, Failing, Finished, Refused, Errors
<1>2. ASSUME NEW r \in Requests, Panic(r) \/ Respond(r) PROVE Counts'
  <2>1. /\ pc' = [pc EXCEPT ![r] = pc'[r]] /\ reply' = [reply EXCEPT ![r] = reply'[r]]
        /\ \/ pc[r] = "parsing" /\ pc'[r] = "panicking" /\ reply'[r] = 0
           \/ pc[r] = "parsing" /\ pc'[r] = "leaving" /\ reply'[r] = 200
        /\ Probing' = Probing
    BY <1>2, <1>type, <1>prog, <1>frame DEF Panic, Respond
  <2>2. /\ Inside' = Inside /\ Counted' = Counted /\ Failing' = Failing
        /\ Finished' = Finished /\ Refused' = Refused /\ Errors' = Errors
    BY <2>1, <1>type, <1>prog
    DEF Inside, Admitted, Counted, Failing, Finished, Refused, Errors
  <2> QED
    BY <1>2, <2>2, <1>same DEF Panic, Respond
<1>8. ASSUME NEW r \in Requests, Arrive(r) \/ Probe(r) PROVE Counts'
  <2>1. /\ pc' = [pc EXCEPT ![r] = pc'[r]] /\ reply' = [reply EXCEPT ![r] = reply'[r]]
        /\ \/ pc[r] = "new" /\ pc'[r] = "admitted" /\ reply'[r] = 0 /\ r \notin Probing'
           \/ pc[r] = "new" /\ pc'[r] = "probing" /\ reply'[r] = 0 /\ r \in Probing'
           \/ pc[r] = "new" /\ pc'[r] = "done" /\ reply'[r] = 429
           \/ /\ pc[r] = "probing" /\ pc'[r] = "done" /\ reply'[r] \in {200, 206, 503}
              /\ r \in Probing'
    <3>1. CASE Probe(r)
      <4>1. /\ pc[r] = "probing" /\ input' = input
            /\ pc' = [pc EXCEPT ![r] = "done"]
            /\ reply' = [reply EXCEPT ![r] = ProbeCode(input[r])]
        BY <3>1 DEF Probe
      <4>2. r \in Probing'
        BY <4>1, <1>prog, <1>frame
      <4> QED
        BY <4>1, <4>2, <1>type, ProbeCodes
    <3>2. CASE Arrive(r)
      <4>1. pc[r] = "new" /\ reply[r] = 0
        BY <3>2, <1>prog DEF Arrive
      <4>2. PICK in \in Inputs \cup Probes :
                input' = [input EXCEPT ![r] = in] /\
                IF tokens > 0
                THEN /\ pc' = [pc EXCEPT ![r] = IF in \in Probes THEN "probing" ELSE "admitted"]
                     /\ reply' = reply
                ELSE /\ pc' = [pc EXCEPT ![r] = "done"]
                     /\ reply' = [reply EXCEPT ![r] = 429]
        BY <3>2 DEF Arrive
      <4>3. input'[r] = in /\ (r \in Probing' <=> in \in Probes)
        BY <4>2 DEF RequestTypes, Probing
      <4> QED
        BY <4>1, <4>2, <4>3, <1>type
    <3> QED
      BY <1>8, <3>1, <3>2
  <2>2. \A q \in Requests : q # r => (q \in Probing' <=> q \in Probing)
    BY <1>8 DEF Arrive, Probe, Probing, RequestTypes
  <2>3. pc[r] = "probing" => r \in Probing
    BY <1>prog
  <2>4. Inside' = Inside /\ Failing' = Failing /\ Refused' = Refused
    BY <2>1, <1>type, <1>prog DEF Inside, Failing, Refused
  <2>5. Counted' = Counted /\ Finished' = Finished
    BY <2>1, <2>2, <2>3, <1>type, <1>prog DEF Admitted, Counted, Finished
  <2>6. \A q \in Finished : reply'[q] = reply[q]
    BY <2>1, <2>3, <1>type DEF Admitted, Finished
  <2>7. Errors' = Errors
    BY <2>4, <2>5, <2>6 DEF Errors
  <2> QED
    BY <1>8, <2>4, <2>5, <2>7, <1>same DEF Arrive, Probe
<1>3. ASSUME NEW r \in Requests, Enter(r) PROVE Counts'
  <2>1. /\ Inside' = Inside \cup {r} /\ r \notin Inside
        /\ Counted' = Counted \cup {r} /\ r \notin Counted
        /\ Failing' = Failing /\ Finished' = Finished /\ Refused' = Refused /\ Errors' = Errors
    BY <1>3, <1>type, <1>prog, <1>frame DEF Enter, Inside, Admitted, Counted, Failing, Finished, Refused, Errors
  <2> QED
    BY <1>3, <1>sets, <2>1, RequestSets DEF Enter, Counts, metrics
<1>4. ASSUME NEW r \in Requests, ParseFails(r) PROVE Counts'
  <2>1. /\ Failing' = Failing \cup {r} /\ r \notin Failing
        /\ Inside' = Inside /\ Counted' = Counted
        /\ Finished' = Finished /\ Refused' = Refused /\ Errors' = Errors
    BY <1>4, <1>type, <1>prog, <1>frame DEF ParseFails, Inside, Admitted, Counted, Failing, Finished, Refused, Errors
  <2> QED
    BY <1>4, <1>sets, <2>1, RequestSets DEF ParseFails, Counts, metrics
<1>5. ASSUME NEW r \in Requests, ReplyError(r) PROVE Counts'
  <2>1. /\ Refused' = Refused \cup {r} /\ r \notin Refused
        /\ Errors' = Errors \cup {r} /\ r \notin Errors
        /\ Inside' = Inside /\ Counted' = Counted /\ Failing' = Failing /\ Finished' = Finished
    BY <1>5, <1>type, <1>prog, <1>frame DEF ReplyError, Inside, Admitted, Counted, Failing, Finished, Refused, Errors
  <2>2. /\ Cardinality(Refused \cup {r}) = Cardinality(Refused) + 1
        /\ Cardinality(Errors \cup {r}) = Cardinality(Errors) + 1
        /\ Cardinality(Refused) \in Nat /\ Cardinality(Finished) \in Nat
    BY <1>sets, <2>1, RequestSets
  <2>3. /\ recorded' = recorded + 1 /\ recordedErrors' = recordedErrors + 1
        /\ activeRequests' = activeRequests /\ totalRequests' = totalRequests
        /\ failedRequests' = failedRequests
    BY <1>5 DEF ReplyError, stats
  <2> QED
    BY <2>1, <2>2, <2>3 DEF Counts
<1>6. ASSUME NEW r \in Requests, Leave(r) PROVE Counts'
  <2>1. /\ Inside' = Inside \ {r} /\ r \in Inside /\ Counted' = Counted
        /\ Finished' = Finished /\ Refused' = Refused /\ Errors' = Errors
    BY <1>6, <1>type, <1>prog, <1>frame DEF Leave, Inside, Admitted, Counted, Finished, Refused, Errors
  <2>2. CASE pc[r] = "panicking"
    <3>1. Failing' = Failing \cup {r} /\ r \notin Failing
      BY <1>6, <2>2, <1>type, <1>prog, <1>frame DEF Leave, Failing
    <3> QED
      BY <1>6, <1>sets, <2>1, <2>2, <3>1, RequestSets DEF Leave, Counts, metrics
  <2>3. CASE pc[r] # "panicking"
    <3>1. Failing' = Failing
      BY <1>6, <2>3, <1>type, <1>prog, <1>frame DEF Leave, Failing
    <3> QED
      BY <1>6, <1>sets, <2>1, <2>3, <3>1, RequestSets DEF Leave, Counts, metrics
  <2> QED
    BY <2>2, <2>3
<1>7. ASSUME NEW r \in Requests, Record(r) PROVE Counts'
  <2>1. /\ Finished' = Finished \cup {r} /\ r \notin Finished
        /\ Inside' = Inside /\ Counted' = Counted /\ Failing' = Failing /\ Refused' = Refused
    BY <1>7, <1>type, <1>prog, <1>frame DEF Record, Inside, Admitted, Counted, Failing, Finished, Refused
  <2>2. /\ Cardinality(Finished \cup {r}) = Cardinality(Finished) + 1
        /\ Cardinality(Refused) \in Nat /\ Cardinality(Finished) \in Nat
        /\ Cardinality(Errors) \in Nat
    BY <1>sets, <2>1, RequestSets
  <2>3. CASE pc[r] = "recording"
    <3>1. Errors' = Errors
      BY <1>7, <2>3, <1>type, <1>prog, <1>frame DEF Record, Admitted, Finished, Refused, Errors
    <3> QED
      BY <1>7, <2>1, <2>3, <2>2, <3>1 DEF Record, Counts, stats
  <2>4. CASE pc[r] # "recording"
    <3>1. Errors' = Errors \cup {r} /\ r \notin Errors
      BY <1>7, <2>4, <1>type, <1>prog, <1>frame DEF Record, Admitted, Finished, Refused, Errors
    <3>2. Cardinality(Errors \cup {r}) = Cardinality(Errors) + 1
      BY <1>sets, <3>1, RequestSets
    <3> QED
      BY <1>7, <2>1, <2>4, <2>2, <3>1, <3>2 DEF Record, Counts, stats
  <2> QED
    BY <2>3, <2>4
<1> QED
  BY <1>1, <1>2, <1>3, <1>4, <1>5, <1>6, <1>7, <1>8 DEF Next, Handle

\* The rate of successes is a percentage as long as no request fails twice.
LEMMA RateFacts ==
    ASSUME NEW t \in Nat, NEW f \in Nat, f <= t, t > 0
    PROVE  /\ ((t - f) * 100) \div t \in 0 .. 100
BY Z3

\* It is below 90 exactly when more than one request in ten failed.
LEMMA RateWarnsWhen ==
    ASSUME NEW t \in Nat, NEW f \in Nat, t > 0
    PROVE  ((t - f) * 100) \div t < 90 <=> f * 10 > t
BY Z3

-----------------------------------------------------------------------------
\* The inductive invariant of the handler.
HandlerInv == RequestTypes /\ Progress /\ Counts

\* It holds at first.
LEMMA HandlerInit == Init => HandlerInv
BY ProgressInit, CountsInit DEF HandlerInv

\* Every step of the handler keeps it.
LEMMA HandlerStep == HandlerInv /\ [Next]_vars => HandlerInv'
BY ProgressStep, CountsStep DEF HandlerInv

\* A request that was answered 200 was read, and has its bids.
LEMMA Answered ==
    ASSUME HandlerInv, NEW r \in Requests \ Probing, reply[r] = 200
    PROVE  input[r] \in Inputs /\ bids[r] = BidsFor(input[r])
<1>1. pc[r] # "new"
  BY DEF HandlerInv, Progress
<1>2. /\ input[r] # Unread /\ input[r] \notin Probes
      /\ input[r] \in Inputs \cup Probes \cup {Unread}
  BY <1>1 DEF HandlerInv, Progress, RequestTypes, Probing
<1> QED
  BY <1>2 DEF HandlerInv, Progress

\* What GetRequestStats and the health check make of the counters
\* (bidrequest.go:439-453, health.go:188-230).
LEMMA RateBounds == HandlerInv =>
    /\ totalRequests \in Nat /\ failedRequests \in Nat /\ failedRequests <= totalRequests
    /\ SuccessRate \in 0 .. 100
    /\ totalRequests > 0 => (SuccessRate < 90 <=> failedRequests * 10 > totalRequests)
<1> SUFFICES ASSUME HandlerInv
             PROVE  /\ totalRequests \in Nat /\ failedRequests \in Nat
                    /\ failedRequests <= totalRequests
                    /\ SuccessRate \in 0 .. 100
                    /\ totalRequests > 0 =>
                        (SuccessRate < 90 <=> failedRequests * 10 > totalRequests)
  OBVIOUS
<1>1. Failing \subseteq Counted
  BY DEF HandlerInv, Progress, Failing, Admitted, Counted
<1>2. Counted \subseteq Requests /\ IsFiniteSet(Counted)
  BY HandlerAssumption, FS_Subset DEF Admitted, Counted
<1>3. /\ Cardinality(Counted) \in Nat /\ Cardinality(Failing) \in Nat
      /\ Cardinality(Failing) <= Cardinality(Counted)
  BY <1>1, <1>2, FS_Subset, FS_CardinalityType
<1>4. /\ totalRequests \in Nat /\ failedRequests \in Nat /\ failedRequests <= totalRequests
  BY <1>3 DEF HandlerInv, Counts
<1>5. CASE totalRequests = 0
  <2>1. SuccessRate = 0 \div 1
    BY <1>4, <1>5 DEF SuccessRate
  <2>2. 0 \div 1 = 0
    BY Z3
  <2> QED
    BY <1>4, <1>5, <2>1, <2>2
<1>6. CASE totalRequests > 0
  <2>1. SuccessRate = ((totalRequests - failedRequests) * 100) \div totalRequests
    BY <1>4, <1>6 DEF SuccessRate
  <2> QED
    BY <1>4, <1>6, <2>1, RateFacts, RateWarnsWhen
<1> QED
  BY <1>4, <1>5, <1>6

\* The invariant gives the types and exact counters.
LEMMA HandlerFacts == HandlerInv => TypeOK /\ StatsExact
<1> SUFFICES ASSUME HandlerInv PROVE TypeOK /\ StatsExact
  OBVIOUS
<1>1. /\ IsFiniteSet(Inside) /\ IsFiniteSet(Finished) /\ IsFiniteSet(Refused)
      /\ IsFiniteSet(Errors)
  BY HandlerAssumption, FS_Subset DEF Inside, Admitted, Finished, Refused, Errors
<1>2. /\ activeRequests \in Nat /\ recorded \in Nat /\ recordedErrors \in Nat
  BY <1>1, FS_CardinalityType DEF HandlerInv, Counts
<1>3. ASSUME NEW r \in Requests
      PROVE  bids[r] \in Seq([price : Nat, size : {"banner", "video", "none"}])
  <2>1. CASE r \notin Probing /\ reply[r] = 200
    BY <2>1, Answered, BidsType
  <2>2. CASE r \in Probing \/ reply[r] # 200
    <3>1. bids[r] = <<>>
      BY <2>2 DEF HandlerInv, Progress
    <3> QED
      BY <3>1
  <2> QED
    BY <2>1, <2>2
<1>4. TypeOK
  BY <1>2, <1>3, RateBounds DEF TypeOK, HandlerInv, RequestTypes
<1>5. StatsExact
  BY RateBounds
  DEF StatsExact, HandlerInv, Counts, Admitted, Counted, Failing, Finished, Refused, Errors
<1> QED
  BY <1>4, <1>5

\* What is inferred is supported, and asks for no auction type.
LEMMA InferredIsSupported ==
    ASSUME NEW in, Declared(in) = Absent
    PROVE  Invalid(in) \notin {"unsupportedVersion", "noAuctionType"}
BY DEF Invalid, Version, Inferred, Supported

\* It gives every answer its reason.
LEMMA HandlerHonest == HandlerInv => ReplyHonest
<1> SUFFICES ASSUME HandlerInv, NEW r \in Requests \ Probing, pc[r] = "done"
             PROVE  /\ reply[r] # 0
                    /\ reply[r] = 200 => ParseError(input[r]) = "none"
                    /\ reply[r] = 400 => ParseError(input[r]) \notin {"none", "nil"}
                    /\ reply[r] = 200 =>
                        /\ Len(bids[r]) = Len(input[r].imps)
                        /\ \A i \in DOMAIN bids[r] :
                            bids[r][i].price > 10 * input[r].imps[i].floor
                    /\ reply[r] # 200 => bids[r] = <<>>
                    /\ reply[r] = 400 /\ input[r].body = "object"
                            /\ Declared(input[r]) = Absent =>
                        ParseError(input[r]) \notin {"unsupportedVersion", "noAuctionType"}
  BY DEF ReplyHonest
<1>1. reply[r] = 200 =>
        /\ Len(bids[r]) = Len(input[r].imps)
        /\ \A i \in DOMAIN bids[r] : bids[r][i].price > 10 * input[r].imps[i].floor
  BY Answered, BidsType
<1>2. input[r].body = "object" /\ Declared(input[r]) = Absent =>
        ParseError(input[r]) \notin {"unsupportedVersion", "noAuctionType"}
  BY InferredIsSupported DEF ParseError
<1> QED
  BY <1>1, <1>2 DEF HandlerInv, Progress

\* It gives the health check counters it can judge by.
LEMMA Judgement ==
    ASSUME HandlerInv, NEW probe \in Probes, probe.path = "/health"
    PROVE  Judges(probe, ProbeCode(probe))
<1> DEFINE failing == totalRequests > Sample /\ failedRequests * 10 > totalRequests
           ping == probe.ping
           share == probe.share
           high == probe.highMemory
           redis == Dependency(RedisHealth(ping))
           loaded == WithGoroutines(redis, share)
           code == ProbeCode(probe)
<1>1. RateWarns(SuccessRate, totalRequests) <=> failing
  BY RateBounds, HandlerAssumption DEF RateWarns
<1>2. /\ ping.answer \in {"noClient", "error", "pong"} /\ ping.took \in Nat
      /\ share \in Nat /\ high \in BOOLEAN
  BY ProbesAssumption
<1>3. code = HealthCode(Raised(Raised(loaded, high), RateWarns(SuccessRate, totalRequests)))
  BY DEF ProbeCode, Health
<1>4. Judges(probe, code) <=>
        /\ code = 503 <=>
            \/ ping.answer = "noClient" \/ share > 90
            \/ ping.answer = "error" /\ ping.took <= 2000
        /\ code = 200 <=>
            ping.answer = "pong" /\ ping.took <= 1000 /\ share <= 70 /\ ~high /\ ~failing
  BY DEF Judges
<1> HIDE DEF ping, share, high, code
<1>5. /\ redis \in {"critical", "warning", "healthy"}
      /\ redis = "critical" <=>
            ping.answer = "noClient" \/ (ping.answer = "error" /\ ping.took <= 2000)
      /\ redis = "healthy" <=> ping.answer = "pong" /\ ping.took <= 1000
  BY <1>2 DEF RedisHealth, Dependency
<1> HIDE DEF redis
<1>6. /\ loaded \in {"critical", "warning", "healthy"}
      /\ loaded = "critical" <=> redis = "critical" \/ share > 90
      /\ loaded = "healthy" <=> redis = "healthy" /\ share <= 70
  BY <1>2, <1>5 DEF WithGoroutines
<1> HIDE DEF loaded, failing
<1>7. /\ code = 503 <=> loaded = "critical"
      /\ code = 200 <=> loaded = "healthy" /\ ~high /\ ~failing
  BY <1>1, <1>3, <1>6 DEF Raised, HealthCode
<1>8. Judges(probe, code)
  BY <1>4, <1>5, <1>6, <1>7
<1> QED
  BY <1>8 DEF code

\* No step but the limiter's refusal and the route's answer answers a probe.
LEMMA HandlerHealth == HandlerInv /\ [Next]_vars => [ProbesJudged]_vars
<1> SUFFICES ASSUME HandlerInv, Next PROVE ProbesJudged
  OBVIOUS
<1> USE DEF Goto, Reply
<1>1. ASSUME NEW r \in Requests, input'[r] \in Probes, reply'[r] # reply[r]
      PROVE  IF pc[r] = "new"
             THEN reply'[r] = 429 /\ tokens = 0
             ELSE /\ reply'[r] # 429
                  /\ input[r].path = "/health" => Judges(input[r], reply'[r])
  <2>1. RequestTypes /\ Progress
    BY DEF HandlerInv
  <2>2. PICK q \in Requests : Arrive(q) \/ Handle(q)
    BY <1>1 DEF Next, Refill
  <2>3. q = r
    BY <1>1, <2>1, <2>2
    DEF RequestTypes, Arrive, Handle, Probe, Enter, Panic, ParseFails, ReplyError,
        Respond, Leave, Record
  <2>4. CASE Arrive(r)
    BY <1>1, <2>1, <2>4, HandlerAssumption DEF Arrive, RequestTypes
  <2>5. CASE Handle(r)
    <3>1. input' = input /\ r \in Probing
      BY <1>1, <2>5
      DEF Handle, Probe, Enter, Panic, ParseFails, ReplyError, Respond, Leave, Record, Probing
    <3>2. pc[r] \in {"probing", "done"}
      BY <2>1, <3>1 DEF Progress
    <3>3. Probe(r)
      BY <2>5, <3>2
      DEF Handle, Enter, Panic, ParseFails, ReplyError, Respond, Leave, Record
    <3>4. pc[r] # "new" /\ reply'[r] = ProbeCode(input[r]) /\ input[r] \in Probes
      BY <2>1, <3>1, <3>3 DEF Probe, RequestTypes, Probing
    <3> QED
      BY <3>4, Judgement, ProbeCodes
  <2> QED
    BY <2>2, <2>3, <2>4, <2>5
<1>2. \A probe \in Probes : probe.path = "/health" => Judges(probe, ProbeCode(probe))
  BY Judgement
<1> QED
  BY <1>1, <1>2 DEF ProbesJudged

-----------------------------------------------------------------------------
(* The process.                                                            *)

\* The types of its variables.
ServerTypes ==
    /\ setup \in Setups
    /\ config \in {<<>>, <<Loaded>>}
    /\ stage \in {"loading", "creating", "created", "waiting", "stopping", "draining"}
    /\ listener \in {"none", "starting", "serving", "closed", "failed"}
    /\ connected \subseteq Requests
    /\ signals \in 0 .. 1
    /\ told \in 0 .. MaxSignals
    /\ exit \in {"none", "0", "1", "killed"}

\* The order of start-up and shutdown: what main has passed by, the listener,
\* the connections and the requests rest on.
Order ==
    /\ stage # "loading" =>
        config = <<Loaded>> /\ Accepted(Loaded) /\ setup.file # "broken"
    /\ Up /\ stage = "loading" => config = <<>>
    /\ listener # "none" => stage \in {"waiting", "stopping", "draining"}
    /\ connected # {} => listener # "none"
    /\ \A r \in Requests : pc[r] # "new" => r \in connected
    /\ signals = 1 \/ Stopping => told > 0

\* Why the process may have ended.
Ends ==
    /\ exit = "0" => told > 0 /\ Unanswered = {} /\ stage # "loading"
    /\ exit = "1" =>
        \/ stage = "loading" /\ (config = <<>> \/ (config = <<Loaded>> /\ ~Accepted(Loaded)))
        \/ listener = "failed"
        \/ told > 0 /\ Stopping
    /\ exit = "killed" => told > 0 /\ listener = "none" /\ connected = {}

\* The inductive invariant of the process.
ProcessInv == ServerTypes /\ Order /\ Ends

\* The process adds no way to change a counter or an answer.
LEMMA ServerStepIsHandlerStep == [ServerNext]_serverVars => [Next]_vars
<1> SUFFICES ASSUME ServerNext, UNCHANGED vars => FALSE PROVE Next
  BY DEF serverVars
<1>1. \/ Refill
      \/ \E r \in Requests : Arrive(r) \/ Handle(r)
  BY DEF ServerNext, Program, World, Load, LoadFails, NewServer, Start, Listen,
         ListenFails, Signal, ReceiveSignal, Poll, TimedOut, Connect, CloseUnused,
         Request, Work
<1> QED
  BY <1>1 DEF Next

\* It holds when main is entered.
LEMMA ProcessInit == ServerInit => ProcessInv
BY SignalsAssumption
DEF ServerInit, Init, ProcessInv, ServerTypes, Order, Ends, Up, Stopping

\* The configuration depends on what the operator said alone.
LEMMA LoadedStays == UNCHANGED setup => Loaded' = Loaded /\ Accepted(Loaded)' = Accepted(Loaded)
BY DEF Loaded, Setting, Accepted

\* No answer ends the process: neither error is critical.
LEMMA AnswersEndNothing == ExitAfter("network") = exit /\ ExitAfter("validation") = exit
BY DEF ExitAfter, Severity

\* Every step of the process keeps its invariant.
LEMMA ProcessStep ==
    RequestTypes /\ ProcessInv /\ [ServerNext]_serverVars => ProcessInv'
<1> SUFFICES ASSUME RequestTypes, ProcessInv, [ServerNext]_serverVars PROVE ProcessInv'
  OBVIOUS
<1> USE DEF Up, Stopping
<1>setup. setup' = setup /\ Loaded' = Loaded /\ Accepted(Loaded)' = Accepted(Loaded)
  BY LoadedStays
  DEF ServerNext, Program, World, Load, LoadFails, NewServer, Start, Listen,
      ListenFails, Signal, ReceiveSignal, Poll, TimedOut, Connect, CloseUnused,
      Request, Work, process, serverVars
<1>1. CASE UNCHANGED serverVars \/ (Refill /\ UNCHANGED process)
  <2>1. UNCHANGED <<pc, process>>
    BY <1>1 DEF serverVars, vars, Refill
  <2> QED
    BY <2>1, <1>setup
    DEF process, ProcessInv, ServerTypes, Order, Ends, Unanswered
<1>2. CASE Load
  BY <1>2, <1>setup DEF Load, vars, ProcessInv, ServerTypes, Order, Ends, Unanswered
<1>3. CASE LoadFails
  BY <1>3, <1>setup DEF LoadFails, vars, ProcessInv, ServerTypes, Order, Ends, Unanswered
<1>4. CASE NewServer
  BY <1>4, <1>setup DEF NewServer, vars, ProcessInv, ServerTypes, Order, Ends, Unanswered
<1>5. CASE Start
  BY <1>5, <1>setup DEF Start, vars, ProcessInv, ServerTypes, Order, Ends, Unanswered
<1>6. CASE Listen \/ ListenFails
  BY <1>6, <1>setup
  DEF Listen, ListenFails, vars, ProcessInv, ServerTypes, Order, Ends, Unanswered
<1>7. CASE Signal
  BY <1>7, <1>setup, SignalsAssumption
  DEF Signal, vars, ProcessInv, ServerTypes, Order, Ends, Unanswered
<1>8. CASE ReceiveSignal
  BY <1>8, <1>setup
  DEF ReceiveSignal, vars, ProcessInv, ServerTypes, Order, Ends, Unanswered
<1>9. CASE Poll \/ TimedOut
  <2>1. InFlight = {} => Unanswered = {}
    BY DEF InFlight, Unanswered, ProcessInv, Order
  <2> QED
    BY <1>9, <2>1, <1>setup
    DEF Poll, TimedOut, vars, ProcessInv, ServerTypes, Order, Ends, Unanswered
<1>10. ASSUME NEW r \in Requests, Connect(r) \/ CloseUnused(r) PROVE ProcessInv'
  BY <1>10, <1>setup
  DEF Connect, CloseUnused, vars, ProcessInv, ServerTypes, Order, Ends, Unanswered
<1>11. ASSUME NEW r \in Requests, Request(r) \/ Work(r) PROVE ProcessInv'
  <2>1. /\ exit = "none" /\ r \in connected
        /\ \A q \in Requests : q # r => pc'[q] = pc[q]
        /\ UNCHANGED <<config, stage, listener, connected, signals, told, exit>>
    BY <1>11, AnswersEndNothing
    DEF RequestTypes, ProcessInv, Order, Request, Work, Arrive, Handle, Probe, Enter, Panic,
        ParseFails, ReplyError, Respond, Leave, Record, Goto
  <2> QED
    BY <2>1, <1>setup DEF ProcessInv, ServerTypes, Order, Ends
<1> QED
  BY <1>1, <1>2, <1>3, <1>4, <1>5, <1>6, <1>7, <1>8, <1>9, <1>10, <1>11
  DEF ServerNext, Program, World

\* Both invariants hold in every execution of the server.
THEOREM ServerInvariants == ServerSpec => [](HandlerInv /\ ProcessInv)
<1>1. ServerInit => HandlerInv /\ ProcessInv
  BY HandlerInit, ProcessInit DEF ServerInit
<1>2. HandlerInv /\ ProcessInv /\ [ServerNext]_serverVars => HandlerInv' /\ ProcessInv'
  BY HandlerStep, ProcessStep, ServerStepIsHandlerStep DEF HandlerInv
<1> QED
  BY <1>1, <1>2, PTL DEF ServerSpec

\* The handler inside the process is the handler by itself: start-up, signals,
\* a listener that fails and a shutdown only decide whether a step of it comes
\* (server.go:34-75).
THEOREM HandlerInService == ServerSpec => Spec
<1>1. ServerInit => Init
  BY DEF ServerInit
<1> QED
  BY <1>1, ServerStepIsHandlerStep, PTL DEF ServerSpec, Spec

\* The counters of the handler and the metrics stay exact, and every variable
\* keeps its type, for every set of requests, limit and kind of input, whatever
\* the process is going through (bidrequest.go:33-59, metrics.go:63-82).
THEOREM CountersExactInService == ServerSpec => []ServerInv
<1>1. HandlerInv /\ ProcessInv => ServerInv
  BY HandlerFacts DEF ServerInv, ProcessInv, ServerTypes, ServerTypeOK
<1> QED
  BY <1>1, ServerInvariants, PTL

\* Every status agrees with the request it answers, and every bid is above its
\* floor, for every input (bidrequest.go:62-400).
THEOREM RepliesAreHonest == ServerSpec => []ReplyHonest
BY HandlerHonest, ServerInvariants, PTL

\* Every probe is judged, or refused by the limiter, as HealthJudges says in
\* every state the server can reach (health.go:50-66, 79-156, 188-230;
\* rate_limit.go:15-23).
THEOREM HealthIsJudged == ServerSpec => HealthJudges
BY HandlerHealth, HandlerInService, ServerInvariants, PTL DEF HealthJudges, Spec

\* The process never ends without a reason, and ends with code 0 only when
\* every request that was begun has its answer (main.go:11-28, server.go:43-75,
\* errors.go:177-212).
THEOREM EveryExitExplained == ServerSpec => []ExitExplained
<1>1. ProcessInv => ExitExplained
  BY DEF ProcessInv, ServerTypes, Order, Ends, ExitExplained
<1> QED
  BY <1>1, ServerInvariants, PTL

\* A setting that is given is one value.
LEMMA SingleElement ==
    ASSUME NEW V, NEW s \in Seq(V), Len(s) <= 1, s # <<>>
    PROVE  s = <<Head(s)>>
<1> DEFINE n == Len(s)
<1>1. n \in Nat
  OBVIOUS
<1>2. n # 0
  BY EmptySeq
<1>3. n <= 1
  OBVIOUS
<1> HIDE DEF n
<1>4. n = 1
  BY <1>1, <1>2, <1>3
<1>5. DOMAIN s = 1 .. 1 /\ Head(s) = s[1]
  BY <1>4 DEF n
<1> QED
  BY <1>4, <1>5 DEF n

\* Where the value of a setting comes from (config.go:78-130).
LEMMA SettingSource ==
    ASSUME setup \in Setups, NEW name \in {"port", "environment"}
    PROVE  /\ setup.variables[name] # <<>> => Setting(name) = setup.variables[name][1]
           /\ Setting(name) # Defaults[name] =>
                \/ setup.variables[name] # <<>>
                \/ setup.file = "read" /\ setup.settings[name] = <<Setting(name)>>
<1> DEFINE asked == setup.variables[name]
           written == setup.settings[name]
           inFile == IF setup.file = "read" THEN written ELSE <<>>
<1>1. PICK V : asked \in Given(V) /\ written \in Given(V)
  BY SetupsAssumption
<1>2. Setting(name) = IF asked \o inFile = <<>> THEN Defaults[name] ELSE Head(asked \o inFile)
  BY DEF Setting
<1> HIDE DEF asked, written
<1>3. asked \in Seq(V) /\ written \in Seq(V) /\ Len(written) <= 1 /\ inFile \in Seq(V)
  BY <1>1 DEF Given
<1>4. asked # <<>> => asked \o inFile # <<>> /\ Head(asked \o inFile) = asked[1]
  BY <1>3
<1>5. asked = <<>> => asked \o inFile = inFile
  BY <1>3
<1>6. inFile # <<>> => setup.file = "read" /\ inFile = written /\ written = <<Head(written)>>
  BY <1>3, SingleElement
<1> QED
  BY <1>2, <1>4, <1>5, <1>6 DEF asked, written

\* No address is bound under a configuration that was not read whole or is not
\* valid, and the server runs with what its operator asked for
\* (config.go:78-130, 190-222).
THEOREM OnlyValidIsServed == ServerSpec => []ServesOnlyValid
<1>1. ASSUME ProcessInv, listener # "none" PROVE ServesOnlyValid
  <2>1. config = <<Loaded>> /\ Accepted(Loaded) /\ setup.file # "broken" /\ setup \in Setups
    BY <1>1 DEF ProcessInv, ServerTypes, Order
  <2>2. PICK c : c = config[1]
    OBVIOUS
  <2>3. c = Loaded
    BY <2>1, <2>2
  <2>4. c.port \in Ports /\ c.environment \in Environments
    BY <2>1, <2>3 DEF Accepted
  <2>5. DOMAIN Defaults = {"port", "environment"}
    BY DEF Defaults
  <2>6. c["port"] = Setting("port") /\ c["environment"] = Setting("environment")
    BY <2>3 DEF Loaded
  <2>7. \A name \in DOMAIN Defaults :
            /\ setup.variables[name] # <<>> => c[name] = setup.variables[name][1]
            /\ c[name] # Defaults[name] =>
                \/ setup.variables[name] # <<>>
                \/ setup.file = "read" /\ setup.settings[name] = <<c[name]>>
    BY <2>1, <2>5, <2>6, SettingSource
  <2> QED
    BY <2>1, <2>2, <2>4, <2>7 DEF ServesOnlyValid
<1>2. ASSUME listener = "none" PROVE ServesOnlyValid
  BY <1>2 DEF ServesOnlyValid
<1>3. ProcessInv => ServesOnlyValid
  BY <1>1, <1>2
<1> QED
  BY <1>3, ServerInvariants, PTL
=============================================================================

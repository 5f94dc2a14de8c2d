------------------------- MODULE BidRequestHandler --------------------------
(***************************************************************************)
(* The rate limiter of internal/middleware that stands before every route, *)
(* and the routes: POST /bid/request and /bid/test with BidRequestHandler, *)
(* its counters, the parsing and validation of the request, the response   *)
(* and the metrics of internal/metrics; GET /health, which judges by the   *)
(* counters, and GET /metrics.                                             *)
(*                                                                         *)
(* A request for a bid is a record of what the code looks at: what its     *)
(* body is, the version each place declares, the fields versions are       *)
(* inferred from, and of each impression whether it has an ID, its floor   *)
(* (in tenths) and its media.  Prices are in hundredths.  A probe is a     *)
(* record of what /health finds when it looks: the answer to its ping and  *)
(* how many milliseconds that took, the share of the goroutines allowed in *)
(* percent, and whether the memory is above its mark.                      *)
(***************************************************************************)
EXTENDS Integers, Sequences, FiniteSets

CONSTANTS
    Requests,     \* HTTP requests
    Inputs,       \* requests for a bid: what they may carry
    Probes,       \* requests of the other routes: what they will find
    Burst,        \* of the rate limiter
    Sample        \* requests the health check wants to see before it judges

ASSUME HandlerAssumption ==
    /\ IsFiniteSet(Requests)
    /\ Burst \in Nat \ {0}
    /\ Sample \in Nat

Absent == "absent"       \* no such header or field
Supported == {"2.0", "2.1", "2.2", "2.3", "2.4", "2.5", "2.6"}

-----------------------------------------------------------------------------
(* Parsing, validation and the response, as functions of the input.        *)

\* The body is nil when a caller of the handler made the request without one.
Bodies == {"nil", "unreadable", "empty", "malformed", "object"}

\* What a request can carry, as far as the code looks at it.
ASSUME InputsAssumption ==
    Inputs \subseteq
        [body : Bodies, header : STRING, altHeader : STRING, ext : STRING,
         altExt : STRING, source : BOOLEAN, regs : BOOLEAN, rwdd : BOOLEAN,
         auctionType : BOOLEAN, id : BOOLEAN,
         imps : Seq([id : BOOLEAN, floor : Int, media : SUBSET {"banner", "video"}])]

\* What a probe can find; /metrics looks at none of it.
ASSUME ProbesAssumption ==
    Probes \subseteq
        [path : {"/health", "/metrics"},
         ping : [answer : {"noClient", "error", "pong"}, took : Nat],
         share : Nat, highMemory : BOOLEAN]

\* detectOpenRTBVersion: headers, then the extension, then fields of the body.
Inferred(in) ==
    IF in.source THEN "2.5"
    ELSE IF in.regs THEN "2.4"
    ELSE IF in.rwdd THEN "2.6"
    ELSE "2.5"

Declared(in) ==
    LET places == <<in.header, in.altHeader, in.ext, in.altExt>>
        given == {p \in 1 .. 4 : places[p] # Absent}
    IN  IF given = {} THEN Absent
        ELSE places[CHOOSE p \in given : \A q \in given : p <= q]

Version(in) == IF Declared(in) = Absent THEN Inferred(in) ELSE Declared(in)

\* validateBidRequest, with validateOpenRTBVersion first.
Invalid(in) ==
    IF Version(in) \notin Supported THEN "unsupportedVersion"
    ELSE IF Version(in) \in {"2.0", "2.1"} /\ ~in.auctionType THEN "noAuctionType"
    ELSE IF ~in.id THEN "noRequestId"
    ELSE IF in.imps = <<>> THEN "noImpressions"
    ELSE IF \E i \in DOMAIN in.imps : ~in.imps[i].id THEN "noImpressionId"
    ELSE "none"

\* parseBidRequestWithVersion; a nil body panics in its first line.
ParseError(in) == IF in.body = "object" THEN Invalid(in) ELSE in.body

\* generateSimpleBid.
Price(imp) == IF imp.floor > 0 THEN 11 * imp.floor ELSE 150
Bid(imp) ==
    [price |-> Price(imp),
     size |-> IF "banner" \in imp.media THEN "banner"
              ELSE IF "video" \in imp.media THEN "video" ELSE "none"]

\* GenerateBidResponse: one seat, with a bid for each impression.
BidsFor(in) == [i \in DOMAIN in.imps |-> Bid(in.imps[i])]

-----------------------------------------------------------------------------
VARIABLES
    tokens,           \* of the rate limiter
    activeRequests, totalRequests, failedRequests,
    recorded,         \* metrics: totalRequests of SimpleMetrics
    recordedErrors,   \* metrics: errorRequests
    pc, input, bids,
    reply             \* the HTTP status each client got, 0 before

stats == <<activeRequests, totalRequests, failedRequests>>
metrics == <<recorded, recordedErrors>>
vars == <<tokens, stats, metrics, pc, input, bids, reply>>

Unread == [body |-> "unread"]

Init ==
    /\ tokens = Burst
    /\ activeRequests = 0
    /\ totalRequests = 0
    /\ failedRequests = 0
    /\ recorded = 0
    /\ recordedErrors = 0
    /\ pc = [r \in Requests |-> "new"]
    /\ input = [r \in Requests |-> Unread]
    /\ bids = [r \in Requests |-> <<>>]
    /\ reply = [r \in Requests |-> 0]

-----------------------------------------------------------------------------
(* The readers of the counters: GetRequestStats and the health check.      *)

SuccessRate ==
    ((totalRequests - failedRequests) * 100)
        \div (IF totalRequests > 1 THEN totalRequests ELSE 1)

\* Variant: the sample's bound off by one.
RateWarnsEarly(rate, total) == rate < 90 /\ total >= Sample
RateWarns(rate, total) == rate < 90 /\ total > Sample

\* checkApplicationHealth.
Dependency(redis) ==
    CASE redis = "unhealthy" -> "critical"
      [] redis = "degraded" -> "warning"
      [] OTHER -> "healthy"

WithGoroutines(status, share) ==
    IF share > 90 THEN "critical"
    ELSE IF share > 70 /\ status = "healthy" THEN "warning" ELSE status

Raised(status, flag) ==
    IF flag /\ status # "critical" THEN "warning" ELSE status

\* checkRedisHealth.
RedisHealth(ping) ==
    CASE ping.answer = "noClient" -> "unhealthy"
      [] ping.answer = "error" -> IF ping.took > 2000 THEN "degraded" ELSE "unhealthy"
      [] ping.answer = "pong" -> IF ping.took > 1000 THEN "degraded" ELSE "healthy"

Health(probe) ==
    LET marked == WithGoroutines(Dependency(RedisHealth(probe.ping)), probe.share)
    IN  Raised(Raised(marked, probe.highMemory), RateWarns(SuccessRate, totalRequests))

\* HealthHandler.
HealthCode(status) ==
    CASE status = "warning" -> 206 [] status = "critical" -> 503 [] OTHER -> 200

\* HealthHandler and MetricsHandler, which change nothing.
ProbeCode(probe) == IF probe.path = "/health" THEN HealthCode(Health(probe)) ELSE 200

-----------------------------------------------------------------------------
Goto(r, place) == pc' = [pc EXCEPT ![r] = place]
Reply(r, status) == reply' = [reply EXCEPT ![r] = status]

Refill ==
    /\ tokens < Burst
    /\ tokens' = tokens + 1
    /\ UNCHANGED <<stats, metrics, pc, input, bids, reply>>

\* RateLimiterMiddleware, the last before the handler, whatever the route.
Arrive(r) ==
    /\ pc[r] = "new"
    /\ \E in \in Inputs \cup Probes :
        /\ input' = [input EXCEPT ![r] = in]
        /\ IF tokens > 0
           THEN /\ tokens' = tokens - 1
                /\ Goto(r, IF in \in Probes THEN "probing" ELSE "admitted")
                /\ UNCHANGED reply
           ELSE Goto(r, "done") /\ Reply(r, 429) /\ UNCHANGED tokens
    /\ UNCHANGED <<stats, metrics, bids>>

\* The route of the probe, as it reads the counters.
Probe(r) ==
    /\ pc[r] = "probing"
    /\ Reply(r, ProbeCode(input[r]))
    /\ Goto(r, "done")
    /\ UNCHANGED <<tokens, stats, metrics, input, bids>>

Enter(r) ==
    /\ pc[r] = "admitted"
    /\ activeRequests' = activeRequests + 1
    /\ totalRequests' = totalRequests + 1
    /\ Goto(r, "parsing")
    /\ UNCHANGED <<tokens, failedRequests, metrics, input, bids, reply>>

Panic(r) ==
    /\ pc[r] = "parsing"
    /\ ParseError(input[r]) = "nil"
    /\ Goto(r, "panicking")
    /\ UNCHANGED <<tokens, stats, metrics, input, bids, reply>>

\* Variant: a parse failure that leaves the handler twice.
ParseFailsAndLeaves(r) ==
    /\ pc[r] = "parsing"
    /\ ParseError(input[r]) \notin {"none", "nil"}
    /\ failedRequests' = failedRequests + 1
    /\ activeRequests' = activeRequests - 1
    /\ Goto(r, "failed")
    /\ UNCHANGED <<tokens, totalRequests, metrics, input, bids, reply>>

ParseFails(r) ==
    /\ pc[r] = "parsing"
    /\ ParseError(input[r]) \notin {"none", "nil"}
    /\ failedRequests' = failedRequests + 1
    /\ Goto(r, "failed")
    /\ UNCHANGED <<tokens, activeRequests, totalRequests, metrics, input, bids, reply>>

\* metrics.RecordRequest, then WriteErrorResponse with a validation error.
ReplyError(r) ==
    /\ pc[r] = "failed"
    /\ recorded' = recorded + 1
    /\ recordedErrors' = recordedErrors + 1
    /\ Reply(r, 400)
    /\ Goto(r, "leaving")
    /\ UNCHANGED <<tokens, stats, input, bids>>

\* Variant: a response without validation.
RespondUnvalidated(r) ==
    /\ pc[r] = "parsing"
    /\ input[r].body = "object"
    /\ bids' = [bids EXCEPT ![r] = BidsFor(input[r])]
    /\ Reply(r, 200)
    /\ Goto(r, "leaving")
    /\ UNCHANGED <<tokens, stats, metrics, input>>

Respond(r) ==
    /\ pc[r] = "parsing"
    /\ ParseError(input[r]) = "none"
    /\ bids' = [bids EXCEPT ![r] = BidsFor(input[r])]
    /\ Reply(r, 200)
    /\ Goto(r, "leaving")
    /\ UNCHANGED <<tokens, stats, metrics, input>>

\* The deferred function, up to its call of RecordRequest.
Leave(r) ==
    /\ pc[r] \in {"leaving", "panicking"}
    /\ activeRequests' = activeRequests - 1
    /\ IF pc[r] = "panicking"
       THEN failedRequests' = failedRequests + 1 /\ Reply(r, 500) /\ Goto(r, "recordingError")
       ELSE UNCHANGED <<failedRequests, reply>> /\ Goto(r, "recording")
    /\ UNCHANGED <<tokens, totalRequests, metrics, input, bids>>

\* metrics.RecordRequest, which knows only whether the handler panicked.
Record(r) ==
    /\ pc[r] \in {"recording", "recordingError"}
    /\ recorded' = recorded + 1
    /\ recordedErrors' = recordedErrors + (IF pc[r] = "recording" THEN 0 ELSE 1)
    /\ Goto(r, "done")
    /\ UNCHANGED <<tokens, stats, input, bids, reply>>

Handle(r) ==
    \/ Probe(r) \/ Enter(r) \/ Panic(r) \/ ParseFails(r) \/ ReplyError(r)
    \/ Respond(r) \/ Leave(r) \/ Record(r)

Next == Refill \/ \E r \in Requests : Arrive(r) \/ Handle(r)

Spec == Init /\ [][Next]_vars

-----------------------------------------------------------------------------
Places == {"new", "admitted", "parsing", "panicking", "failed", "leaving",
           "recording", "recordingError", "probing", "done"}

TypeOK ==
    /\ tokens \in 0 .. Burst
    /\ {activeRequests, totalRequests, failedRequests} \subseteq Nat
    /\ {recorded, recordedErrors} \subseteq Nat
    /\ pc \in [Requests -> Places]
    /\ input \in [Requests -> Inputs \cup Probes \cup {Unread}]
    /\ \A r \in Requests : bids[r] \in Seq([price : Nat, size : {"banner", "video", "none"}])
    /\ reply \in [Requests -> {0, 200, 206, 400, 429, 500, 503}]

Probing == {r \in Requests : input[r] \in Probes}

Inside == {r \in Requests :
    pc[r] \in {"parsing", "panicking", "failed", "leaving"}}

\* active_requests is the number of requests inside the handler, also after
\* panics, total_requests those for a bid the limiter let in, and a request
\* counts as failed at most once, so that the success rate stays a percentage.
\* The metrics count each failed request as one error, whether it failed in the
\* parser or panicked; one that failed in the parser is recorded a second time,
\* as a success, by the deferred function.  Probes and refusals of the limiter
\* are in no counter (handlers/bidrequest.go:33-59, 82-87, 439-444;
\* metrics.go:63-82).
StatsExact ==
    LET admitted == {r \in Requests \ Probing : reply[r] # 429}
        finished == {r \in admitted : pc[r] = "done"}
        refused == {r \in Requests : reply[r] = 400}
    IN  /\ activeRequests = Cardinality(Inside)
        /\ totalRequests =
            Cardinality({r \in admitted : pc[r] \notin {"new", "admitted"}})
        /\ failedRequests =
            Cardinality({r \in Requests : pc[r] = "failed" \/ reply[r] \in {400, 500}})
        /\ SuccessRate \in 0 .. 100
        /\ recorded = Cardinality(finished) + Cardinality(refused)
        /\ recordedErrors =
            Cardinality(refused \cup {r \in finished : reply[r] = 500})

\* The status a client gets agrees with its request: 200 only for a valid
\* one, with a bid above the floor for each impression, and 400 only for an
\* invalid one.  A client that declares no version is never refused for its
\* version: what detectOpenRTBVersion infers validateOpenRTBVersion accepts.
ReplyHonest ==
    \A r \in Requests \ Probing : pc[r] = "done" =>
        /\ reply[r] # 0
        /\ reply[r] = 200 => ParseError(input[r]) = "none"
        /\ reply[r] = 400 => ParseError(input[r]) \notin {"none", "nil"}
        /\ reply[r] = 200 =>
            /\ Len(bids[r]) = Len(input[r].imps)
            /\ \A i \in DOMAIN bids[r] :
                bids[r][i].price > 10 * input[r].imps[i].floor
        /\ reply[r] # 200 => bids[r] = <<>>
        /\ reply[r] = 400 /\ input[r].body = "object" /\ Declared(input[r]) = Absent =>
            ParseError(input[r]) \notin {"unsupportedVersion", "noAuctionType"}

\* What the code of /health says of the instance: out of service (503) only
\* without a Redis client, for a ping that failed within two seconds, or for
\* too many goroutines, and never for its failed requests; in full health
\* (200) exactly when Redis answered within a second, no mark is passed, and
\* no more than one request in ten failed once there were enough of them.
Judges(probe, code) ==
    LET failing == totalRequests > Sample /\ failedRequests * 10 > totalRequests
        ping == probe.ping
    IN  /\ code = 503 <=>
            \/ ping.answer = "noClient" \/ probe.share > 90
            \/ ping.answer = "error" /\ ping.took <= 2000
        /\ code = 200 <=>
            /\ ping.answer = "pong" /\ ping.took <= 1000
            /\ probe.share <= 70 /\ ~probe.highMemory /\ ~failing

\* A step keeps to what the property says of probes.
ProbesJudged ==
    /\ \A probe \in Probes : probe.path = "/health" => Judges(probe, ProbeCode(probe))
    /\ \A r \in Requests : input'[r] \in Probes /\ reply'[r] # reply[r] =>
        IF pc[r] = "new"
        THEN reply'[r] = 429 /\ tokens = 0
        ELSE reply'[r] # 429 /\ (input[r].path = "/health" => Judges(input[r], reply'[r]))

\* Every probe of /health that the limiter lets in is judged by what it finds
\* and by the counters of that moment, whatever it would find and however the
\* requests beside it stand.  A ping that fails later than two seconds, as one
\* that times out does, is only a warning.  The limiter refuses a probe (429)
\* only when the bucket it shares with the requests for bids is empty, and
\* then the answer says nothing of the health (handlers/health.go:50-66,
\* 79-156, 188-230; rate_limit.go:15-23; server.go:95, 113-114).
HealthJudges == [][ProbesJudged]_vars

=============================================================================

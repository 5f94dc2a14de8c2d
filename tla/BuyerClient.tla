---------------------------- MODULE BuyerClient -----------------------------
(***************************************************************************)
(* The buyer client of internal/buyers/generic_buyer.go: concurrent calls  *)
(* of SendBidRequest on one client, which share its rate limiter and its   *)
(* Prometheus counters (internal/metrics/metrics.go).                      *)
(*                                                                         *)
(* The limiter is a bucket of tokens that refills by one; the buyer, the   *)
(* network and the client's timeout are the choices of DoFails, Redirect   *)
(* and Respond.                                                            *)
(***************************************************************************)
EXTENDS Integers, FiniteSets

CONSTANTS
    Calls,        \* calls of SendBidRequest
    Deadline,     \* those whose context may be done
    Burst,        \* the limiter's burst
    MaxHops,      \* the requests that net/http makes in one Do, redirects followed
    Refills       \* the limiter's rate is not zero

ASSUME ClientAssumption ==
    /\ IsFiniteSet(Calls)
    /\ Deadline \subseteq Calls
    /\ Burst \in Nat
    /\ MaxHops \in Nat \ {0}
    /\ Refills \in BOOLEAN

MaxRetries == 2

VARIABLES
    validEndpoint,  \* http.NewRequestWithContext accepts the endpoint
    tokens,         \* the limiter's
    requestsTotal, requestsSuccessful, requestsFailed, rateLimitExceeded,
    pc,             \* where each call is
    attempt,        \* its loop variable i
    hops,           \* the requests that its Do has made
    ret,            \* what it returns: a bid, no bid, the error of the limiter, of
                    \* a failure that is counted, or one that is not
    ctxDone,        \* its context is done
    sent,           \* history: how often its bid request was POSTed
    reposted,       \* history: how often of these a redirect asked for it
    heard           \* history: its Do returned an answer

counters == <<requestsTotal, requestsSuccessful, requestsFailed, rateLimitExceeded>>
history == <<sent, reposted, heard>>
vars == <<validEndpoint, tokens, counters, pc, attempt, hops, ret, ctxDone, history>>

Init ==
    /\ validEndpoint \in BOOLEAN
    /\ tokens = Burst
    /\ requestsTotal = 0
    /\ requestsSuccessful = 0
    /\ requestsFailed = 0
    /\ rateLimitExceeded = 0
    /\ pc = [c \in Calls |-> "idle"]
    /\ attempt = [c \in Calls |-> 0]
    /\ hops = [c \in Calls |-> 0]
    /\ ret = [c \in Calls |-> "none"]
    /\ ctxDone = [c \in Calls |-> FALSE]
    /\ sent = [c \in Calls |-> 0]
    /\ reposted = [c \in Calls |-> 0]
    /\ heard = [c \in Calls |-> FALSE]

Refill ==
    /\ Refills /\ tokens < Burst
    /\ tokens' = tokens + 1
    /\ UNCHANGED <<validEndpoint, counters, pc, attempt, hops, ret, ctxDone, history>>

CtxDone(c) ==
    /\ c \in Deadline /\ ~ctxDone[c]
    /\ ctxDone' = [ctxDone EXCEPT ![c] = TRUE]
    /\ UNCHANGED <<validEndpoint, tokens, counters, pc, attempt, hops, ret, history>>

-----------------------------------------------------------------------------
\* What the call returns is settled, with the last of its counters.
Settle(c, value) ==
    /\ ret' = [ret EXCEPT ![c] = value]
    /\ pc' = [pc EXCEPT ![c] = "returning"]

Begin(c) ==
    /\ pc[c] = "idle"
    /\ requestsTotal' = requestsTotal + 1
    /\ pc' = [pc EXCEPT ![c] = "limiter"]
    /\ UNCHANGED <<validEndpoint, tokens, requestsSuccessful, requestsFailed,
                   rateLimitExceeded, attempt, hops, ret, ctxDone, history>>

\* limiter.Wait returns nil.  Of a token and a done context that come
\* together either may win, as if the other had come later.
Granted(c) ==
    /\ pc[c] = "limiter"
    /\ tokens > 0 /\ ~ctxDone[c]
    /\ tokens' = tokens - 1
    /\ pc' = [pc EXCEPT ![c] = "marshal"]
    /\ UNCHANGED <<validEndpoint, counters, attempt, hops, ret, ctxDone, history>>

\* limiter.Wait fails: the context is done, or its deadline comes before the
\* next token, or no token ever comes.
Limited(c) ==
    /\ pc[c] = "limiter"
    /\ \/ ctxDone[c]
       \/ tokens = 0 /\ (c \in Deadline \/ ~Refills \/ Burst = 0)
    /\ rateLimitExceeded' = rateLimitExceeded + 1
    /\ pc' = [pc EXCEPT ![c] = "limited"]
    /\ UNCHANGED <<validEndpoint, tokens, requestsTotal, requestsSuccessful,
                   requestsFailed, attempt, hops, ret, ctxDone, history>>

LimitedUncounted(c) ==
    /\ pc[c] = "limited"
    /\ Settle(c, "limited")
    /\ UNCHANGED <<validEndpoint, tokens, counters, attempt, hops, ctxDone, history>>

\* The second of the two counters of that path.
LimitedFails(c) ==
    /\ pc[c] = "limited"
    /\ requestsFailed' = requestsFailed + 1
    /\ Settle(c, "limited")
    /\ UNCHANGED <<validEndpoint, tokens, requestsTotal, requestsSuccessful,
                   rateLimitExceeded, attempt, hops, ctxDone, history>>

\* json.Marshal, which a NaN price or a malformed extension makes fail.
MarshalFails(c) ==
    /\ pc[c] = "marshal"
    /\ requestsFailed' = requestsFailed + 1
    /\ Settle(c, "failed")
    /\ UNCHANGED <<validEndpoint, tokens, requestsTotal, requestsSuccessful,
                   rateLimitExceeded, attempt, hops, ctxDone, history>>

Marshalled(c) ==
    /\ pc[c] = "marshal"
    /\ pc' = [pc EXCEPT ![c] = "attempt"]
    /\ UNCHANGED <<validEndpoint, tokens, counters, attempt, hops, ret, ctxDone, history>>

-----------------------------------------------------------------------------
(* An attempt of the loop.                                                 *)

\* The error of NewRequestWithContext returns at once and is not counted.
CreateFails(c) ==
    /\ pc[c] = "attempt"
    /\ ~validEndpoint
    /\ Settle(c, "error")
    /\ UNCHANGED <<validEndpoint, tokens, counters, attempt, hops, ctxDone, history>>

\* httpClient.Do starts; with a done context it fails before it sends.
Send(c) ==
    /\ pc[c] = "attempt"
    /\ validEndpoint
    /\ sent' = IF ctxDone[c] THEN sent ELSE [sent EXCEPT ![c] = @ + 1]
    /\ hops' = [hops EXCEPT ![c] = 1]
    /\ pc' = [pc EXCEPT ![c] = "inflight"]
    /\ UNCHANGED <<validEndpoint, tokens, counters, attempt, ret, ctxDone, reposted, heard>>

\* Do has POSTed the request, or follows with GET.
InDo(c) == pc[c] \in {"inflight", "following"}

\* The buyer redirects.  The client has no CheckRedirect, so Do follows: a 307
\* or 308 has it POST the same body again; after a 301, 302 or 303 it sends GET.
Redirect(c) ==
    /\ InDo(c)
    /\ ~ctxDone[c]
    /\ hops[c] < MaxHops
    /\ hops' = [hops EXCEPT ![c] = @ + 1]
    /\ \/ /\ pc[c] = "inflight"
          /\ sent' = [sent EXCEPT ![c] = @ + 1]
          /\ reposted' = [reposted EXCEPT ![c] = @ + 1]
          /\ UNCHANGED pc
       \/ /\ pc' = [pc EXCEPT ![c] = "following"]
          /\ UNCHANGED <<sent, reposted>>
    /\ UNCHANGED <<validEndpoint, tokens, counters, attempt, ret, ctxDone, heard>>

DoFailsForEver(c) ==
    /\ InDo(c)
    /\ hops' = [hops EXCEPT ![c] = 0]
    /\ pc' = [pc EXCEPT ![c] = "attempt"]
    /\ UNCHANGED <<validEndpoint, tokens, counters, attempt, ret, ctxDone, history>>

\* The loop continues, or the call gives up.
NextAttempt(c) ==
    /\ InDo(c)
    /\ hops' = [hops EXCEPT ![c] = 0]
    /\ attempt' = [attempt EXCEPT ![c] = @ + 1]
    /\ \/ /\ attempt[c] + 1 < MaxRetries
          /\ pc' = [pc EXCEPT ![c] = "attempt"]
          /\ UNCHANGED <<requestsFailed, ret>>
       \/ /\ attempt[c] + 1 = MaxRetries
          /\ requestsFailed' = requestsFailed + 1
          /\ Settle(c, "failed")
    /\ UNCHANGED <<validEndpoint, tokens, requestsTotal, requestsSuccessful,
                   rateLimitExceeded, ctxDone, sent, reposted>>

\* Do returns an error: of the connection, of a timeout, of the context, or of
\* a redirect too many.
DoFails(c) == NextAttempt(c) /\ UNCHANGED heard

RetryOnStatus(c) == NextAttempt(c) /\ ~ctxDone[c] /\ heard' = [heard EXCEPT ![c] = TRUE]

\* The buyer answers 200 with a response ("ok"), 204 ("noContent"), another
\* status, or something that cannot be read or decoded.  Only the first is
\* counted; none is retried.
Respond(c) ==
    /\ InDo(c)
    /\ ~ctxDone[c]
    /\ hops' = [hops EXCEPT ![c] = 0]
    /\ heard' = [heard EXCEPT ![c] = TRUE]
    /\ \E reply \in {"ok", "noContent", "status", "unreadable", "garbage"} :
        /\ requestsSuccessful' = requestsSuccessful + (IF reply = "ok" THEN 1 ELSE 0)
        /\ Settle(c, CASE reply = "ok" -> "bid"
                       [] reply = "noContent" -> "nobid"
                       [] OTHER -> "error")
    /\ UNCHANGED <<validEndpoint, tokens, requestsTotal, requestsFailed,
                   rateLimitExceeded, attempt, ctxDone, sent, reposted>>

Return(c) ==
    /\ pc[c] = "returning"
    /\ pc' = [pc EXCEPT ![c] = "returned"]
    /\ UNCHANGED <<validEndpoint, tokens, counters, attempt, hops, ret, ctxDone, history>>

-----------------------------------------------------------------------------
CallStep(c) ==
    \/ Begin(c) \/ Granted(c) \/ Limited(c) \/ LimitedFails(c)
    \/ MarshalFails(c) \/ Marshalled(c)
    \/ CreateFails(c) \/ Send(c) \/ Redirect(c) \/ DoFails(c) \/ Respond(c)
    \/ Return(c)

Next == Refill \/ \E c \in Calls : CallStep(c) \/ CtxDone(c)

Spec == Init /\ [][Next]_vars

(* A call that can go on does; httpClient.Do ends, since the client has a  *)
(* timeout; tokens come at the limiter's rate.  Waiting calls are served   *)
(* in order, which strong fairness of a grant says of a shared bucket.     *)
Fairness ==
    /\ WF_vars(Refill)
    /\ \A c \in Calls :
        /\ WF_vars(pc[c] # "idle" /\ CallStep(c))
        /\ SF_vars(Granted(c))

LiveSpec == Spec /\ Fairness

-----------------------------------------------------------------------------
TypeOK ==
    /\ validEndpoint \in BOOLEAN
    /\ tokens \in 0 .. Burst
    /\ {requestsTotal, requestsSuccessful, requestsFailed, rateLimitExceeded} \subseteq Nat
    /\ pc \in [Calls -> {"idle", "limiter", "limited", "marshal", "attempt",
                         "inflight", "following", "returning", "returned"}]
    /\ attempt \in [Calls -> 0 .. MaxRetries]
    /\ hops \in [Calls -> 0 .. MaxHops]
    /\ ret \in [Calls -> {"none", "bid", "nobid", "limited", "failed", "error"}]
    /\ \A c \in Calls : ret[c] = "none" <=> pc[c] \notin {"returning", "returned"}
    /\ ctxDone \in [Calls -> BOOLEAN]
    /\ sent \in [Calls -> Nat]
    /\ reposted \in [Calls -> Nat]
    /\ heard \in [Calls -> BOOLEAN]

CountOf(value) == Cardinality({c \in Calls : ret[c] = value})

\* The counters are exact at every moment, whatever calls run: every call that
\* began, every bid, and every failure but those of a request that cannot be
\* created and of an answer that is no bid.  A call that the limiter refused is
\* among the failed ones, but for those between the two counters of that path.
CountersConsistent ==
    /\ requestsTotal = Cardinality({c \in Calls : pc[c] # "idle"})
    /\ requestsSuccessful = CountOf("bid")
    /\ requestsFailed = CountOf("limited") + CountOf("failed")
    /\ rateLimitExceeded =
        CountOf("limited") + Cardinality({c \in Calls : pc[c] = "limited"})

\* The counters are consistent, over values of the right types: the attempts
\* never pass the maximum (generic_buyer.go:51-243).
BuyerInv == TypeOK /\ CountersConsistent

\* A bid request is POSTed at most twice, and once more for each redirect that
\* asks for it, of which an attempt follows a bounded number; an answer that is
\* no followed redirect, whatever it is, ends the auction: nothing is POSTed
\* again (generic_buyer.go:99-242).
NoRepeatAfterAnswer ==
    \A c \in Calls :
        /\ sent[c] <= MaxRetries + reposted[c]
        /\ sent[c] <= MaxRetries * MaxHops
        /\ heard[c] => pc[c] \in {"returning", "returned"}

\* Every call returns: no token, no answer, no context can hold it for ever.
EveryCallReturns == \A c \in Calls : pc[c] = "limiter" ~> pc[c] = "returned"

=============================================================================

-------------------------- MODULE BuyerClientProofs --------------------------
(***************************************************************************)
(* Theorems about the buyer client: its counters stay exact, and no buyer  *)
(* gets a bid request more often than its retries and the redirects that   *)
(* the buyer asked for, or again once it answered.                         *)
(***************************************************************************)
EXTENDS BuyerClient, TLAPS, FiniteSetTheorems

\* A set of calls, one more and one less.
LEMMA CallSets ==
    ASSUME NEW S \in SUBSET Calls, NEW c \in Calls
    PROVE  /\ Cardinality(S) \in Nat
           /\ c \notin S => Cardinality(S \cup {c}) = Cardinality(S) + 1
           /\ c \in S => Cardinality(S \ {c}) = Cardinality(S) - 1
<1>1. IsFiniteSet(S)
  BY ClientAssumption, FS_Subset
<1> QED
  BY <1>1, FS_CardinalityType, FS_AddElement, FS_RemoveElement

-----------------------------------------------------------------------------
\* The sets the counters count.
Begun == {c \in Calls : pc[c] # "idle"}
Returned(value) == {c \in Calls : ret[c] = value}
BetweenCounters == {c \in Calls : pc[c] = "limited"}

\* The loop of SendBidRequest: a call has POSTed at most one request for each
\* attempt, the current one included, and one for each redirect it followed with
\* POST, of which an attempt has less than MaxHops; one that heard the buyer has
\* left the loop (generic_buyer.go:99-242).
LoopOf(c) ==
    /\ pc[c] \in {"idle", "limiter", "limited", "marshal"} => attempt[c] = 0
    /\ pc[c] \in {"attempt", "inflight", "following"} => attempt[c] < MaxRetries
    /\ sent[c] <= attempt[c] + reposted[c] +
                    (IF InDo(c) \/ pc[c] \in {"returning", "returned"} THEN 1 ELSE 0)
    /\ sent[c] <= MaxRetries + reposted[c]
    /\ InDo(c) => sent[c] <= attempt[c] * MaxHops + hops[c]
    /\ pc[c] \in {"idle", "limiter", "limited", "marshal", "attempt"} =>
        sent[c] <= attempt[c] * MaxHops
    /\ sent[c] <= MaxRetries * MaxHops
    /\ heard[c] => pc[c] \in {"returning", "returned"}

Loop == \A c \in Calls : LoopOf(c)

\* The inductive invariant.
ClientInv == TypeOK /\ CountersConsistent /\ Loop

\* It holds before the first call.
LEMMA ClientInit == Init => ClientInv
<1> SUFFICES ASSUME Init PROVE ClientInv
  OBVIOUS
<1>1. TypeOK /\ Loop
  BY ClientAssumption DEF Init, TypeOK, Loop, LoopOf, InDo, MaxRetries
<1>2. /\ {c \in Calls : pc[c] # "idle"} = {} /\ {c \in Calls : pc[c] = "limited"} = {}
      /\ {c \in Calls : ret[c] = "bid"} = {} /\ {c \in Calls : ret[c] = "limited"} = {}
      /\ {c \in Calls : ret[c] = "failed"} = {}
  BY DEF Init
<1>3. CountersConsistent
  BY <1>2, FS_EmptySet DEF Init, CountersConsistent, CountOf
<1> QED
  BY <1>1, <1>3 DEF ClientInv

\* Every step keeps the types.
LEMMA TypeStep == TypeOK /\ [Next]_vars => TypeOK'
<1> SUFFICES ASSUME TypeOK, [Next]_vars PROVE TypeOK'
  OBVIOUS
<1> USE ClientAssumption DEF MaxRetries, TypeOK
<1>1. CASE Refill \/ UNCHANGED vars
  BY <1>1 DEF Refill, vars, counters, history
<1>2. ASSUME NEW c \in Calls, CtxDone(c) PROVE TypeOK'
  BY <1>2 DEF CtxDone, counters, history
<1>3. ASSUME NEW c \in Calls, Begin(c) PROVE TypeOK'
  BY <1>3 DEF Begin, history
<1>4. ASSUME NEW c \in Calls, Granted(c) PROVE TypeOK'
  BY <1>4 DEF Granted, counters, history
<1>5. ASSUME NEW c \in Calls, Limited(c) PROVE TypeOK'
  BY <1>5 DEF Limited, history
<1>6. ASSUME NEW c \in Calls, LimitedFails(c) PROVE TypeOK'
  BY <1>6 DEF LimitedFails, Settle, history
<1>7. ASSUME NEW c \in Calls, MarshalFails(c) PROVE TypeOK'
  BY <1>7 DEF MarshalFails, Settle, history
<1>8. ASSUME NEW c \in Calls, Marshalled(c) PROVE TypeOK'
  BY <1>8 DEF Marshalled, counters, history
<1>9. ASSUME NEW c \in Calls, CreateFails(c) PROVE TypeOK'
  BY <1>9 DEF CreateFails, Settle, counters, history
<1>10. ASSUME NEW c \in Calls, Send(c) PROVE TypeOK'
  BY <1>10 DEF Send, counters
<1>11. ASSUME NEW c \in Calls, Redirect(c) PROVE TypeOK'
  BY <1>11 DEF Redirect, InDo, counters
<1>12. ASSUME NEW c \in Calls, DoFails(c) PROVE TypeOK'
  BY <1>12 DEF DoFails, NextAttempt, InDo, Settle
<1>13. ASSUME NEW c \in Calls, Respond(c) PROVE TypeOK'
  BY <1>13 DEF Respond, InDo, Settle
<1>14. ASSUME NEW c \in Calls, Return(c) PROVE TypeOK'
  BY <1>14 DEF Return, counters, history
<1> QED
  BY <1>1, <1>2, <1>3, <1>4, <1>5, <1>6, <1>7, <1>8, <1>9, <1>10, <1>11, <1>12, <1>13, <1>14 DEF Next, CallStep

\* A step of a call leaves the others where they are.
Apart(c) ==
    \A d \in Calls \ {c} :
        /\ pc'[d] = pc[d] /\ attempt'[d] = attempt[d] /\ hops'[d] = hops[d]
        /\ sent'[d] = sent[d] /\ reposted'[d] = reposted[d] /\ heard'[d] = heard[d]

LEMMA StepsApart ==
    ASSUME TypeOK, NEW c \in Calls, CallStep(c) \/ CtxDone(c)
    PROVE  Apart(c)
<1>type. /\ DOMAIN pc = Calls /\ DOMAIN attempt = Calls /\ DOMAIN hops = Calls
         /\ DOMAIN sent = Calls /\ DOMAIN reposted = Calls /\ DOMAIN heard = Calls
  BY DEF TypeOK
<1>1. CASE \/ CtxDone(c) \/ Begin(c) \/ Granted(c) \/ Limited(c) \/ LimitedFails(c)
           \/ MarshalFails(c) \/ Marshalled(c) \/ CreateFails(c) \/ Return(c)
  BY <1>1, <1>type DEF CtxDone, Begin, Granted, Limited, LimitedFails, MarshalFails,
     Marshalled, CreateFails, Return, Settle, history, Apart
<1>2. CASE Send(c) \/ Redirect(c)
  BY <1>2, <1>type DEF Send, Redirect, Apart
<1>3. CASE DoFails(c) \/ Respond(c)
  BY <1>3, <1>type DEF DoFails, NextAttempt, Respond, Settle, Apart
<1> QED
  BY <1>1, <1>2, <1>3 DEF CallStep

\* Every step keeps the loop's bounds.
LEMMA LoopStep == TypeOK /\ Loop /\ [Next]_vars => Loop'
<1> SUFFICES ASSUME TypeOK, Loop, [Next]_vars PROVE Loop'
  OBVIOUS
<1>type. /\ DOMAIN pc = Calls /\ DOMAIN attempt = Calls /\ DOMAIN hops = Calls
         /\ DOMAIN sent = Calls /\ DOMAIN reposted = Calls /\ DOMAIN heard = Calls
         /\ \A c \in Calls : /\ attempt[c] \in 0 .. 2 /\ hops[c] \in 0 .. MaxHops
                             /\ sent[c] \in Nat /\ reposted[c] \in Nat
  BY DEF TypeOK, MaxRetries
<1>hops. /\ MaxHops \in Nat \ {0} /\ MaxRetries = 2
         /\ 0 * MaxHops = 0 /\ 1 * MaxHops = MaxHops /\ 2 * MaxHops = MaxHops + MaxHops
  BY ClientAssumption DEF MaxRetries
<1>1. CASE Refill \/ UNCHANGED vars
  BY <1>1 DEF Refill, vars, history, Loop, LoopOf, InDo
<1>2. ASSUME NEW c \in Calls, CallStep(c) \/ CtxDone(c), LoopOf(c)' PROVE Loop'
  <2>1. ASSUME NEW d \in Calls, d # c PROVE LoopOf(d)'
    BY <1>2, <2>1, StepsApart DEF Apart, Loop, LoopOf, InDo
  <2> QED
    BY <1>2, <2>1 DEF Loop
<1>3. ASSUME NEW c \in Calls,
             \/ CtxDone(c) \/ Begin(c) \/ Granted(c) \/ Limited(c) \/ LimitedFails(c)
             \/ MarshalFails(c) \/ Marshalled(c) \/ CreateFails(c) \/ Return(c)
      PROVE  LoopOf(c)'
  <2>1. LoopOf(c)
    BY DEF Loop
  <2>2. /\ attempt' = attempt /\ sent' = sent /\ reposted' = reposted /\ heard' = heard
        /\ hops' = hops
    BY <1>3 DEF CtxDone, Begin, Granted, Limited, LimitedFails, MarshalFails, Marshalled,
       CreateFails, Return, history
  <2>3. \/ pc' = pc
        \/ pc[c] = "idle" /\ pc'[c] = "limiter"
        \/ pc[c] = "limiter" /\ pc'[c] \in {"marshal", "limited"}
        \/ pc[c] = "marshal" /\ pc'[c] \in {"attempt", "returning"}
        \/ pc[c] \in {"limited", "attempt"} /\ pc'[c] = "returning"
        \/ pc[c] = "returning" /\ pc'[c] = "returned"
    BY <1>3, <1>type DEF CtxDone, Begin, Granted, Limited, LimitedFails, MarshalFails,
       Marshalled, CreateFails, Return, Settle
  <2> QED
    BY <2>1, <2>2, <2>3, <1>type, <1>hops DEF LoopOf, InDo
<1>4. ASSUME NEW c \in Calls, Send(c) PROVE LoopOf(c)'
  <2>1. /\ pc[c] = "attempt" /\ pc'[c] = "inflight" /\ hops'[c] = 1
        /\ attempt' = attempt /\ reposted' = reposted /\ heard' = heard
        /\ sent'[c] = sent[c] \/ sent'[c] = sent[c] + 1
    BY <1>4, <1>type DEF Send
  <2>2. LoopOf(c) /\ attempt[c] \in {0, 1}
    BY <2>1, <1>type, <1>hops DEF Loop, LoopOf
  <2>3. CASE attempt[c] = 0
    BY <2>1, <2>2, <2>3, <1>type, <1>hops DEF LoopOf, InDo
  <2>4. CASE attempt[c] = 1
    BY <2>1, <2>2, <2>4, <1>type, <1>hops DEF LoopOf, InDo
  <2> QED
    BY <2>2, <2>3, <2>4
<1>5. ASSUME NEW c \in Calls, Redirect(c) PROVE LoopOf(c)'
  <2>1. /\ InDo(c) /\ InDo(c)' /\ hops[c] < MaxHops /\ hops'[c] = hops[c] + 1
        /\ attempt' = attempt /\ heard' = heard
        /\ \/ sent'[c] = sent[c] /\ reposted'[c] = reposted[c]
           \/ sent'[c] = sent[c] + 1 /\ reposted'[c] = reposted[c] + 1
    BY <1>5, <1>type DEF Redirect, InDo
  <2>2. LoopOf(c) /\ attempt[c] \in {0, 1} /\ pc[c] \notin {"returning", "returned"}
    BY <2>1, <1>type, <1>hops DEF Loop, LoopOf, InDo
  <2>3. CASE attempt[c] = 0
    BY <2>1, <2>2, <2>3, <1>type, <1>hops DEF LoopOf, InDo
  <2>4. CASE attempt[c] = 1
    BY <2>1, <2>2, <2>4, <1>type, <1>hops DEF LoopOf, InDo
  <2> QED
    BY <2>2, <2>3, <2>4
<1>6. ASSUME NEW c \in Calls, DoFails(c) PROVE LoopOf(c)'
  <2>1. /\ InDo(c) /\ attempt'[c] = attempt[c] + 1
        /\ sent' = sent /\ reposted' = reposted /\ heard' = heard
        /\ \/ attempt[c] + 1 < MaxRetries /\ pc'[c] = "attempt"
           \/ attempt[c] + 1 = MaxRetries /\ pc'[c] = "returning"
    BY <1>6, <1>type DEF DoFails, NextAttempt, Settle
  <2>2. LoopOf(c) /\ attempt[c] \in {0, 1}
    BY <2>1, <1>type, <1>hops DEF Loop, LoopOf, InDo
  <2>3. CASE attempt[c] = 0
    BY <2>1, <2>2, <2>3, <1>type, <1>hops DEF LoopOf, InDo
  <2>4. CASE attempt[c] = 1
    BY <2>1, <2>2, <2>4, <1>type, <1>hops DEF LoopOf, InDo
  <2> QED
    BY <2>2, <2>3, <2>4
<1>7. ASSUME NEW c \in Calls, Respond(c) PROVE LoopOf(c)'
  <2>1. /\ InDo(c) /\ pc'[c] = "returning"
        /\ attempt' = attempt /\ sent' = sent /\ reposted' = reposted
    BY <1>7, <1>type DEF Respond, Settle
  <2>2. LoopOf(c)
    BY DEF Loop
  <2> QED
    BY <2>1, <2>2, <1>type, <1>hops DEF LoopOf, InDo
<1> QED
  BY <1>1, <1>2, <1>3, <1>4, <1>5, <1>6, <1>7 DEF Next, CallStep

\* Every step keeps the counters in line with what calls return.
LEMMA CountersStep ==
    TypeOK /\ CountersConsistent /\ [Next]_vars => CountersConsistent'
<1> SUFFICES ASSUME TypeOK, CountersConsistent, [Next]_vars PROVE CountersConsistent'
  OBVIOUS
<1>type. /\ DOMAIN pc = Calls /\ DOMAIN ret = Calls
         /\ \A c \in Calls : ret[c] = "none" <=> pc[c] \notin {"returning", "returned"}
         /\ requestsTotal \in Nat /\ requestsSuccessful \in Nat
         /\ requestsFailed \in Nat /\ rateLimitExceeded \in Nat
  BY DEF TypeOK
<1>sets. /\ Begun \in SUBSET Calls /\ BetweenCounters \in SUBSET Calls
         /\ \A value : Returned(value) \in SUBSET Calls
  BY DEF Begun, BetweenCounters, Returned
<1>nats. /\ Cardinality(Begun) \in Nat /\ Cardinality(BetweenCounters) \in Nat
         /\ Cardinality(Returned("bid")) \in Nat /\ Cardinality(Returned("limited")) \in Nat
         /\ Cardinality(Returned("failed")) \in Nat
  BY <1>sets, ClientAssumption, FS_Subset, FS_CardinalityType
<1>counts. /\ requestsTotal = Cardinality(Begun)
           /\ requestsSuccessful = Cardinality(Returned("bid"))
           /\ requestsFailed = Cardinality(Returned("limited")) + Cardinality(Returned("failed"))
           /\ rateLimitExceeded = Cardinality(Returned("limited")) + Cardinality(BetweenCounters)
  BY DEF CountersConsistent, CountOf, Begun, Returned, BetweenCounters
<1>then. ASSUME requestsTotal' = Cardinality(Begun'),
                requestsSuccessful' = Cardinality(Returned("bid")'),
                requestsFailed' = Cardinality(Returned("limited")') + Cardinality(Returned("failed")'),
                rateLimitExceeded' = Cardinality(Returned("limited")') + Cardinality(BetweenCounters')
         PROVE  CountersConsistent'
  BY <1>then DEF CountersConsistent, CountOf, Begun, Returned, BetweenCounters
<1>settled. ASSUME NEW c \in Calls, NEW value \in {"bid", "nobid", "limited", "failed", "error"},
                   Settle(c, value), pc[c] \notin {"idle", "returning", "returned"}
            PROVE  /\ Begun' = Begun
                   /\ Returned(value)' = Returned(value) \cup {c} /\ c \notin Returned(value)
                   /\ \A other \in {"bid", "nobid", "limited", "failed", "error"} \ {value} :
                        Returned(other)' = Returned(other)
                   /\ pc[c] # "limited" => BetweenCounters' = BetweenCounters
                   /\ pc[c] = "limited" =>
                        BetweenCounters' = BetweenCounters \ {c} /\ c \in BetweenCounters
  BY <1>settled, <1>type DEF Settle, Begun, Returned, BetweenCounters
<1>1. CASE \/ Refill \/ UNCHANGED vars
           \/ \E c \in Calls : \/ CtxDone(c) \/ Granted(c) \/ Marshalled(c) \/ Send(c)
                               \/ Redirect(c) \/ Return(c)
  <2>1. /\ requestsTotal' = requestsTotal /\ requestsSuccessful' = requestsSuccessful
        /\ requestsFailed' = requestsFailed /\ rateLimitExceeded' = rateLimitExceeded
        /\ ret' = ret
    BY <1>1 DEF Refill, vars, counters, CtxDone, Granted, Marshalled, Send, Redirect, Return
  <2>2. Begun' = Begun /\ BetweenCounters' = BetweenCounters
    BY <1>1, <1>type DEF Refill, vars, CtxDone, Granted, Marshalled, Send, Redirect, InDo,
       Return, Begun, BetweenCounters
  <2>3. \A value : Returned(value)' = Returned(value)
    BY <2>1 DEF Returned
  <2> QED
    BY <2>1, <2>2, <2>3, <1>counts, <1>then
<1>2. ASSUME NEW c \in Calls, Begin(c) PROVE CountersConsistent'
  <2>1. /\ Begun' = Begun \cup {c} /\ c \notin Begun /\ BetweenCounters' = BetweenCounters
        /\ \A value : Returned(value)' = Returned(value)
        /\ requestsTotal' = requestsTotal + 1 /\ requestsSuccessful' = requestsSuccessful
        /\ requestsFailed' = requestsFailed /\ rateLimitExceeded' = rateLimitExceeded
    BY <1>2, <1>type DEF Begin, Begun, Returned, BetweenCounters
  <2> QED
    BY <2>1, <1>counts, <1>sets, <1>then, CallSets
<1>3. ASSUME NEW c \in Calls, Limited(c) PROVE CountersConsistent'
  <2>1. /\ BetweenCounters' = BetweenCounters \cup {c} /\ c \notin BetweenCounters
        /\ Begun' = Begun /\ \A value : Returned(value)' = Returned(value)
        /\ requestsTotal' = requestsTotal /\ requestsSuccessful' = requestsSuccessful
        /\ requestsFailed' = requestsFailed /\ rateLimitExceeded' = rateLimitExceeded + 1
    BY <1>3, <1>type DEF Limited, Begun, Returned, BetweenCounters
  <2>2. Cardinality(BetweenCounters') = Cardinality(BetweenCounters) + 1
    BY <2>1, <1>sets, CallSets
  <2> QED
    BY <2>1, <2>2, <1>counts, <1>nats, <1>then
<1>4. ASSUME NEW c \in Calls, LimitedFails(c) PROVE CountersConsistent'
  <2>1. /\ Settle(c, "limited") /\ pc[c] = "limited"
        /\ requestsTotal' = requestsTotal /\ requestsSuccessful' = requestsSuccessful
        /\ requestsFailed' = requestsFailed + 1 /\ rateLimitExceeded' = rateLimitExceeded
    BY <1>4 DEF LimitedFails
  <2>2. /\ Begun' = Begun /\ Returned("bid")' = Returned("bid")
        /\ Returned("failed")' = Returned("failed")
        /\ Returned("limited")' = Returned("limited") \cup {c} /\ c \notin Returned("limited")
        /\ BetweenCounters' = BetweenCounters \ {c} /\ c \in BetweenCounters
    BY <2>1, <1>settled
  <2>3. /\ Cardinality(Returned("limited")') = Cardinality(Returned("limited")) + 1
        /\ Cardinality(BetweenCounters') = Cardinality(BetweenCounters) - 1
    BY <2>2, <1>sets, CallSets
  <2> QED
    BY <2>1, <2>2, <2>3, <1>counts, <1>nats, <1>then
<1>5. ASSUME NEW c \in Calls, Settle(c, "failed"),
             pc[c] \notin {"idle", "limited", "returning", "returned"},
             requestsFailed' = requestsFailed + 1,
             UNCHANGED <<requestsTotal, requestsSuccessful, rateLimitExceeded>>
      PROVE  CountersConsistent'
  <2>1. /\ Begun' = Begun /\ Returned("bid")' = Returned("bid")
        /\ Returned("limited")' = Returned("limited") /\ BetweenCounters' = BetweenCounters
        /\ Returned("failed")' = Returned("failed") \cup {c} /\ c \notin Returned("failed")
    BY <1>5, <1>settled
  <2>2. Cardinality(Returned("failed")') = Cardinality(Returned("failed")) + 1
    BY <2>1, <1>sets, CallSets
  <2> QED
    BY <1>5, <2>1, <2>2, <1>counts, <1>nats, <1>then
<1>6. ASSUME NEW c \in Calls, NEW value \in {"nobid", "error"}, Settle(c, value),
             pc[c] \notin {"idle", "limited", "returning", "returned"},
             UNCHANGED counters
      PROVE  CountersConsistent'
  <2>1. /\ Begun' = Begun /\ Returned("bid")' = Returned("bid")
        /\ Returned("limited")' = Returned("limited") /\ BetweenCounters' = BetweenCounters
        /\ Returned("failed")' = Returned("failed")
    BY <1>6, <1>settled
  <2> QED
    BY <1>6, <2>1, <1>counts, <1>then DEF counters
<1>7. ASSUME NEW c \in Calls, MarshalFails(c) PROVE CountersConsistent'
  BY <1>5, <1>7 DEF MarshalFails
<1>8. ASSUME NEW c \in Calls, CreateFails(c) PROVE CountersConsistent'
  BY <1>6, <1>8 DEF CreateFails
<1>9. ASSUME NEW c \in Calls, DoFails(c) PROVE CountersConsistent'
  <2>1. /\ pc[c] \in {"inflight", "following"}
        /\ UNCHANGED <<requestsTotal, requestsSuccessful, rateLimitExceeded>>
    BY <1>9 DEF DoFails, NextAttempt, InDo
  <2>2. CASE requestsFailed' = requestsFailed + 1 /\ Settle(c, "failed")
    BY <1>5, <2>1, <2>2
  <2>3. CASE pc' = [pc EXCEPT ![c] = "attempt"] /\ UNCHANGED <<requestsFailed, ret>>
    <3>1. /\ Begun' = Begun /\ BetweenCounters' = BetweenCounters
          /\ \A value : Returned(value)' = Returned(value)
      BY <2>1, <2>3, <1>type DEF Begun, BetweenCounters, Returned
    <3> QED
      BY <2>1, <2>3, <3>1, <1>counts, <1>then
  <2> QED
    BY <1>9, <2>2, <2>3 DEF DoFails, NextAttempt
<1>10. ASSUME NEW c \in Calls, Respond(c) PROVE CountersConsistent'
  <2>1. PICK reply \in {"ok", "noContent", "status", "unreadable", "garbage"} :
            /\ requestsSuccessful' = requestsSuccessful + (IF reply = "ok" THEN 1 ELSE 0)
            /\ Settle(c, CASE reply = "ok" -> "bid"
                           [] reply = "noContent" -> "nobid"
                           [] OTHER -> "error")
    BY <1>10 DEF Respond
  <2>2. /\ pc[c] \in {"inflight", "following"}
        /\ UNCHANGED <<requestsTotal, requestsFailed, rateLimitExceeded>>
    BY <1>10 DEF Respond, InDo
  <2>3. CASE reply # "ok"
    <3>1. requestsSuccessful' = requestsSuccessful
      BY <2>1, <2>3, <1>type
    <3>2. Settle(c, "nobid") \/ Settle(c, "error")
      BY <2>1, <2>3
    <3> QED
      BY <1>6, <2>2, <3>1, <3>2 DEF counters
  <2>4. CASE reply = "ok"
    <3>1. Settle(c, "bid") /\ requestsSuccessful' = requestsSuccessful + 1
      BY <2>1, <2>4
    <3>2. /\ Begun' = Begun /\ Returned("bid")' = Returned("bid") \cup {c}
          /\ c \notin Returned("bid") /\ Returned("limited")' = Returned("limited")
          /\ Returned("failed")' = Returned("failed") /\ BetweenCounters' = BetweenCounters
      BY <2>2, <3>1, <1>settled
    <3> QED
      BY <2>2, <3>1, <3>2, <1>counts, <1>sets, <1>then, CallSets
  <2> QED
    BY <2>3, <2>4
<1> QED
  BY <1>1, <1>2, <1>3, <1>4, <1>7, <1>8, <1>9, <1>10 DEF Next, CallStep

-----------------------------------------------------------------------------
\* The invariant holds in every execution.
THEOREM ClientInvariant == Spec => []ClientInv
<1>1. ClientInv /\ [Next]_vars => ClientInv'
  BY TypeStep, LoopStep, CountersStep DEF ClientInv
<1> QED
  BY <1>1, ClientInit, PTL DEF Spec

\* The counters of the client and of Prometheus are exact at every moment, also
\* between the two counters of a call that the limiter refused, for every set of
\* concurrent calls, burst and rate (generic_buyer.go:51-243).
THEOREM ClientCountersConsistent == Spec => []BuyerInv
<1>1. ClientInv => BuyerInv
  BY DEF ClientInv, BuyerInv
<1> QED
  BY <1>1, ClientInvariant, PTL

\* A bid request is POSTed no more than twice and once for each redirect that
\* has it POSTed again, no more than MaxRetries * MaxHops times in all, and
\* never after an answer that Do returned (generic_buyer.go:99-242).
THEOREM NoAuctionRepeated == Spec => []NoRepeatAfterAnswer
<1>1. ClientInv => NoRepeatAfterAnswer
  BY DEF ClientInv, Loop, LoopOf, NoRepeatAfterAnswer
<1> QED
  BY <1>1, ClientInvariant, PTL
=============================================================================

--------------------------- MODULE BidBatchProofs ---------------------------
(***************************************************************************)
(* Theorems about a batch of bid tasks: when it returns, every item is     *)
(* accounted for.                                                          *)
(***************************************************************************)
EXTENDS BidBatch, TLAPS, FiniteSetTheorems

\* A set of items, one more and one less.
LEMMA ItemSets ==
    ASSUME NEW S \in SUBSET Items, NEW i \in Items
    PROVE  /\ Cardinality(S) \in Nat /\ Cardinality(S) <= Cardinality(Items)
           /\ Cardinality(Items) \in Nat
           /\ i \notin S => Cardinality(S \cup {i}) = Cardinality(S) + 1
           /\ i \in S => Cardinality(S \ {i}) = Cardinality(S) - 1
<1>1. IsFiniteSet(S) /\ IsFiniteSet(Items)
  BY BatchAssumption, FS_Subset
<1>2. /\ Cardinality(S) \in Nat /\ Cardinality(Items) \in Nat
      /\ Cardinality(S) <= Cardinality(Items)
  BY <1>1, FS_CardinalityType, FS_Subset
<1>3. i \notin S => Cardinality(S \cup {i}) = Cardinality(S) + 1
  BY <1>1, FS_AddElement
<1>4. i \in S => Cardinality(S \ {i}) = Cardinality(S) - 1
  BY <1>1, FS_RemoveElement
<1> QED
  BY <1>2, <1>3, <1>4

\* No set of items is larger than that of all.
LEMMA Sizes ==
    ASSUME NEW S \in SUBSET Items
    PROVE  Cardinality(S) \in 0 .. Cardinality(Items)
<1>1. IsFiniteSet(S) /\ IsFiniteSet(Items)
  BY BatchAssumption, FS_Subset
<1>2. /\ Cardinality(S) \in Nat /\ Cardinality(Items) \in Nat
      /\ Cardinality(S) <= Cardinality(Items)
  BY <1>1, BatchAssumption, FS_CardinalityType, FS_Subset
<1> QED
  BY <1>2

-----------------------------------------------------------------------------
\* The types but for the two counters.
BatchTypes ==
    /\ Pool!TypeOK
    /\ batch \subseteq Items
    /\ forwarded \in BOOLEAN /\ hasDeadline \in BOOLEAN
    /\ caller \in {"idle", "waiting", "returned"}
    /\ ctxDone \in BOOLEAN
    /\ item \in [Items -> {"unborn", "new", "waiting", "ok", "error"}]
    /\ forwarder \in [Items -> {"none", "reading", "ended"}]
    /\ resultCh \in [Items -> {"none", "ok", "error"}]
    /\ results \in [Ids -> Items \cup {NoItem}]

\* They hold before the batch.
LEMMA BatchTypesInit == Init => BatchTypes
<1> SUFFICES ASSUME Init PROVE BatchTypes
  OBVIOUS
<1>1. Pool!TypeOK
  BY DEF Init, Pool!Init, Pool!TypeOK
<1>2. /\ item \in [Items -> {"unborn", "new", "waiting", "ok", "error"}]
      /\ forwarder \in [Items -> {"none", "reading", "ended"}]
      /\ resultCh \in [Items -> {"none", "ok", "error"}]
      /\ results \in [Ids -> Items \cup {NoItem}]
  BY DEF Init
<1> QED
  BY <1>1, <1>2 DEF Init, BatchTypes

\* Every step keeps them.
LEMMA BatchTypesStep == BatchTypes /\ [Next]_vars => BatchTypes'
<1> SUFFICES ASSUME BatchTypes, [Next]_vars PROVE BatchTypes'
  OBVIOUS
<1> USE DEF batchVars, itemVars, forwardVars, poolVars
<1>types. /\ open \in BOOLEAN
          /\ verdict \in [Items -> {"none", "accepted", "refused"}]
          /\ executed \in [Items -> BOOLEAN]
          /\ answer \in [Items -> {"none", "task", "ctx", "refused"}]
          /\ batch \subseteq Items
          /\ forwarded \in BOOLEAN /\ hasDeadline \in BOOLEAN
          /\ caller \in {"idle", "waiting", "returned"}
          /\ ctxDone \in BOOLEAN
          /\ item \in [Items -> {"unborn", "new", "waiting", "ok", "error"}]
          /\ forwarder \in [Items -> {"none", "reading", "ended"}]
          /\ resultCh \in [Items -> {"none", "ok", "error"}]
          /\ results \in [Ids -> Items \cup {NoItem}]
  BY DEF BatchTypes, Pool!TypeOK
<1>pool. ASSUME \/ UNCHANGED <<open, verdict, executed, answer>>
                \/ Pool!Open \/ Pool!Close
                \/ \E i \in Items : Pool!Accept(i) \/ Pool!Refuse(i) \/ Pool!Execute(i)
                                      \/ Pool!Answer(i)
         PROVE  Pool!TypeOK'
  <2>1. CASE UNCHANGED <<open, verdict, executed, answer>> \/ Pool!Open \/ Pool!Close
    BY <2>1, <1>types DEF Pool!TypeOK, Pool!Open, Pool!Close
  <2>2. ASSUME NEW i \in Items, Pool!Accept(i) \/ Pool!Refuse(i) PROVE Pool!TypeOK'
    BY <2>2, <1>types DEF Pool!TypeOK, Pool!Accept, Pool!Refuse
  <2>3. ASSUME NEW i \in Items, Pool!Execute(i) PROVE Pool!TypeOK'
    BY <2>3, <1>types DEF Pool!TypeOK, Pool!Execute
  <2>4. ASSUME NEW i \in Items, Pool!Answer(i) PROVE Pool!TypeOK'
    BY <2>4, <1>types DEF Pool!TypeOK, Pool!Answer
  <2> QED
    BY <1>pool, <2>1, <2>2, <2>3, <2>4
<1>1. CASE PoolStep
  <2>1. Pool!TypeOK'
    BY <1>1, <1>pool DEF PoolStep
  <2> QED
    BY <1>1, <2>1, <1>types DEF PoolStep, BatchTypes
<1>2. CASE CtxDone \/ Return \/ UNCHANGED vars
  <2>1. Pool!TypeOK'
    BY <1>2, <1>pool DEF CtxDone, Return, vars
  <2> QED
    BY <1>2, <2>1, <1>types DEF CtxDone, Return, vars, BatchTypes
<1>3. CASE Call
  <2>1. Pool!TypeOK'
    BY <1>3, <1>pool DEF Call
  <2> QED
    BY <1>3, <2>1, <1>types DEF Call, BatchTypes
<1>4. ASSUME NEW i \in Items, SubmitItem(i) PROVE BatchTypes'
  <2>1. Pool!TypeOK'
    BY <1>4, <1>pool DEF SubmitItem
  <2> QED
    BY <1>4, <2>1, <1>types DEF SubmitItem, BatchTypes
<1>5. ASSUME NEW i \in Items, ItemGetsResult(i) PROVE BatchTypes'
  <2>1. Pool!TypeOK'
    BY <1>5, <1>pool DEF ItemGetsResult, JobAnswers
  <2>2. PICK outcome \in {"ok", "error"} : StoreResult(i, outcome)
    BY <1>5, <1>types DEF ItemGetsResult
  <2>3. IdOf[i] \in Ids
    BY DEF Ids
  <2>4. /\ item' \in [Items -> {"unborn", "new", "waiting", "ok", "error"}]
        /\ results' \in [Ids -> Items \cup {NoItem}]
    BY <2>2, <2>3, <1>types DEF StoreResult
  <2>5. resultCh' \in [Items -> {"none", "ok", "error"}]
    BY <1>5, <1>types DEF ItemGetsResult
  <2> QED
    BY <1>5, <2>1, <2>4, <2>5, <1>types DEF ItemGetsResult, BatchTypes
<1>6. ASSUME NEW i \in Items, ItemSeesCtx(i) PROVE BatchTypes'
  <2>1. Pool!TypeOK'
    BY <1>6, <1>pool DEF ItemSeesCtx
  <2>2. IdOf[i] \in Ids
    BY DEF Ids
  <2>3. /\ item' \in [Items -> {"unborn", "new", "waiting", "ok", "error"}]
        /\ results' \in [Ids -> Items \cup {NoItem}]
    BY <1>6, <2>2, <1>types DEF ItemSeesCtx, StoreResult
  <2> QED
    BY <1>6, <2>1, <2>3, <1>types DEF ItemSeesCtx, BatchTypes
<1>7. ASSUME NEW i \in Items, Forward(i) PROVE BatchTypes'
  <2>1. Pool!TypeOK'
    BY <1>7, <1>pool DEF Forward, JobAnswers
  <2> QED
    BY <1>7, <2>1, <1>types DEF Forward, BatchTypes
<1> QED
  BY <1>1, <1>2, <1>3, <1>4, <1>5, <1>6, <1>7 DEF Next, ItemStep

-----------------------------------------------------------------------------
\* The items the error count counts.
Erring == {i \in Items : item[i] = "error"}

\* The parts of the account: which items there are, what the counters count,
\* whose result an ID has, and where a success comes from.
Membership ==
    /\ \A i \in Items : item[i] # "unborn" <=> i \in batch
    /\ caller = "idle" => batch = {}
    /\ caller = "returned" => Stored = batch

Totals ==
    /\ errorCount = IF forwarded THEN Cardinality(Erring) ELSE 0
    /\ tracked = IF forwarded THEN 0 ELSE Cardinality(batch \ Stored)

Attributed ==
    \A i \in Stored : results[IdOf[i]] \in Stored /\ IdOf[results[IdOf[i]]] = IdOf[i]

Earned ==
    \A i \in Items :
        item[i] = "ok" \/ resultCh[i] = "ok" => executed[i] /\ answer[i] = "task"

\* With the types, the inductive invariant.
Accounts == Membership /\ Totals /\ Attributed /\ Earned

\* There is nothing to account for before the batch.
LEMMA AccountsInit == Init => Accounts
<1> SUFFICES ASSUME Init PROVE Accounts
  OBVIOUS
<1>1. Stored = {} /\ Erring = {} /\ batch \ Stored = {}
  BY DEF Init, Stored, Erring
<1>2. Totals
  BY <1>1, FS_EmptySet DEF Init, Totals
<1>3. Membership /\ Attributed /\ Earned
  BY <1>1 DEF Init, Membership, Attributed, Earned
<1> QED
  BY <1>2, <1>3 DEF Accounts

\* What a step may do to the pool.
LEMMA PoolKeeps ==
    ASSUME BatchTypes,
           \/ UNCHANGED poolVars \/ Pool!Open \/ Pool!Close
           \/ \E i \in Items : Pool!Accept(i) \/ Pool!Refuse(i) \/ Pool!Execute(i)
                                 \/ Pool!Answer(i)
    PROVE  \A k \in Items :
            executed[k] /\ answer[k] = "task" => executed'[k] /\ answer'[k] = "task"
<1>types. executed \in [Items -> BOOLEAN]
          /\ answer \in [Items -> {"none", "task", "ctx", "refused"}]
  BY DEF BatchTypes, Pool!TypeOK
<1>1. CASE \/ UNCHANGED poolVars \/ Pool!Open \/ Pool!Close
           \/ \E i \in Items : Pool!Accept(i) \/ Pool!Refuse(i)
  BY <1>1 DEF poolVars, Pool!Open, Pool!Close, Pool!Accept, Pool!Refuse
<1>2. ASSUME NEW i \in Items, Pool!Execute(i)
      PROVE  \A k \in Items :
                executed[k] /\ answer[k] = "task" => executed'[k] /\ answer'[k] = "task"
  BY <1>2, <1>types DEF Pool!Execute
<1>3. ASSUME NEW i \in Items, Pool!Answer(i)
      PROVE  \A k \in Items :
                executed[k] /\ answer[k] = "task" => executed'[k] /\ answer'[k] = "task"
  BY <1>3, <1>types DEF Pool!Answer
<1> QED
  BY <1>1, <1>2, <1>3

\* A success that comes from the pool is that of a task that ran.
LEMMA AnswerIsEarned ==
    ASSUME BatchTypes, NEW i \in Items, NEW outcome, JobAnswers(i, outcome), outcome = "ok"
    PROVE  executed'[i] /\ answer'[i] = "task"
<1>types. answer \in [Items -> {"none", "task", "ctx", "refused"}]
  BY DEF BatchTypes, Pool!TypeOK
<1>1. answer'[i] = "task" /\ Pool!Answer(i)
  BY DEF JobAnswers
<1> QED
  BY <1>1, <1>types DEF Pool!Answer

\* What an item stores keeps the account, in either branch of its select, as
\* long as a success is earned (bid_pool.go:119-150, pool.go:349-370).
LEMMA StoreKeeps ==
    ASSUME BatchTypes, Accounts, NEW i \in Items, NEW outcome \in {"ok", "error"},
           item[i] = "waiting", StoreResult(i, outcome), UNCHANGED <<batchVars, caller>>,
           Earned'
    PROVE  Accounts'
<1>types. /\ item \in [Items -> {"unborn", "new", "waiting", "ok", "error"}]
          /\ results \in [Ids -> Items \cup {NoItem}] /\ batch \subseteq Items
  BY DEF BatchTypes
<1>1. /\ item'[i] = outcome /\ \A k \in Items : k # i => item'[k] = item[k]
      /\ batch' = batch /\ forwarded' = forwarded /\ caller' = caller
      /\ errorCount' = IF forwarded /\ outcome = "error" THEN errorCount + 1 ELSE errorCount
      /\ tracked' = IF forwarded THEN tracked ELSE tracked - 1
  BY <1>types DEF StoreResult, batchVars
<1>2. Stored' = Stored \cup {i} /\ i \notin Stored
  BY <1>1 DEF Stored
<1>3. i \in batch /\ caller # "returned"
  BY <1>2 DEF Accounts, Membership
<1>4. Membership'
  BY <1>1, <1>3 DEF Accounts, Membership
<1>5. Totals'
  <2>1. batch' \ Stored' = (batch \ Stored) \ {i} /\ i \in batch \ Stored
    BY <1>1, <1>2, <1>3
  <2>2. Erring' = (IF outcome = "error" THEN Erring \cup {i} ELSE Erring) /\ i \notin Erring
    BY <1>1 DEF Erring
  <2>3. Erring \in SUBSET Items /\ batch \ Stored \in SUBSET Items
    BY <1>types DEF Erring
  <2>4. errorCount' = IF forwarded' THEN Cardinality(Erring') ELSE 0
    BY <1>1, <2>2, <2>3, ItemSets DEF Accounts, Totals
  <2>5. tracked' = IF forwarded' THEN 0 ELSE Cardinality(batch' \ Stored')
    BY <1>1, <2>1, <2>3, ItemSets DEF Accounts, Totals
  <2> QED
    BY <2>4, <2>5 DEF Totals
<1>6. Attributed'
  <2>1. IdOf[i] \in Ids /\ results' = [results EXCEPT ![IdOf[i]] = i]
    BY DEF StoreResult, Ids
  <2>2. results'[IdOf[i]] = i /\ \A id \in Ids : id # IdOf[i] => results'[id] = results[id]
    BY <2>1, <1>types
  <2>3. \A k \in Stored : IdOf[k] \in Ids
    BY DEF Stored, Ids
  <2> QED
    BY <1>2, <2>1, <2>2, <2>3 DEF Accounts, Attributed
<1> QED
  BY <1>4, <1>5, <1>6 DEF Accounts

\* Every step keeps the account.
LEMMA AccountsStep == BatchTypes /\ Accounts /\ [Next]_vars => Accounts'
<1> SUFFICES ASSUME BatchTypes, Accounts, [Next]_vars PROVE Accounts'
  OBVIOUS
<1>types. /\ item \in [Items -> {"unborn", "new", "waiting", "ok", "error"}]
          /\ resultCh \in [Items -> {"none", "ok", "error"}]
          /\ results \in [Ids -> Items \cup {NoItem}] /\ batch \subseteq Items
  BY DEF BatchTypes
<1>same. ASSUME Stored' = Stored, Erring' = Erring, batch' = batch, forwarded' = forwarded,
                results' = results, errorCount' = errorCount, tracked' = tracked
         PROVE  Totals' /\ Attributed'
  BY <1>same DEF Accounts, Totals, Attributed
<1>1. CASE PoolStep \/ CtxDone \/ Return \/ UNCHANGED vars
  <2>1. /\ item' = item /\ resultCh' = resultCh /\ batch' = batch /\ forwarded' = forwarded
        /\ results' = results /\ errorCount' = errorCount /\ tracked' = tracked
        /\ caller' = caller \/ (caller' = "returned" /\ Stored = batch)
    BY <1>1 DEF PoolStep, CtxDone, Return, vars, itemVars, forwardVars, batchVars
  <2>2. Stored' = Stored /\ Erring' = Erring
    BY <2>1 DEF Stored, Erring
  <2>3. \A k \in Items :
            executed[k] /\ answer[k] = "task" => executed'[k] /\ answer'[k] = "task"
    BY <1>1, PoolKeeps DEF PoolStep, CtxDone, Return, vars, poolVars
  <2>4. Earned'
    BY <2>1, <2>3 DEF Accounts, Earned
  <2>5. Membership'
    BY <2>1, <2>2 DEF Accounts, Membership
  <2> QED
    BY <2>1, <2>2, <2>4, <2>5, <1>same DEF Accounts
<1>2. CASE Call
  <2>1. /\ batch' \in SUBSET Items /\ caller' = "waiting" /\ batch = {}
        /\ \A k \in Items : item[k] = "unborn"
        /\ \A k \in Items : item'[k] = IF k \in batch' THEN "new" ELSE "unborn"
        /\ resultCh' = resultCh /\ results' = results /\ errorCount' = errorCount
        /\ executed' = executed /\ answer' = answer
        /\ tracked' = IF forwarded' THEN tracked ELSE tracked + Cardinality(batch')
    BY <1>2, <1>types DEF Call, Accounts, Membership, forwardVars, poolVars
  <2>2. /\ Stored = {} /\ Stored' = {} /\ Erring = {} /\ Erring' = {}
        /\ batch \ Stored = {} /\ batch' \ Stored' = batch'
    BY <2>1 DEF Stored, Erring
  <2>3. errorCount = 0 /\ tracked = 0 /\ Cardinality({}) = 0
    BY <2>2, FS_EmptySet DEF Accounts, Totals
  <2>4. Totals'
    BY <2>1, <2>2, <2>3, ItemSets, Sizes DEF Totals
  <2>5. Membership' /\ Attributed' /\ Earned'
    BY <2>1, <2>2 DEF Membership, Attributed, Earned, Accounts
  <2> QED
    BY <2>4, <2>5 DEF Accounts
<1>3. ASSUME NEW i \in Items, SubmitItem(i) PROVE Accounts'
  <2>1. /\ item[i] = "new" /\ item'[i] = "waiting"
        /\ \A k \in Items : k # i => item'[k] = item[k]
        /\ resultCh' = resultCh /\ batch' = batch /\ forwarded' = forwarded /\ caller' = caller
        /\ results' = results /\ errorCount' = errorCount /\ tracked' = tracked
    BY <1>3, <1>types DEF SubmitItem, batchVars
  <2>2. Stored' = Stored /\ Erring' = Erring
    BY <2>1 DEF Stored, Erring
  <2>3. \A k \in Items :
            executed[k] /\ answer[k] = "task" => executed'[k] /\ answer'[k] = "task"
    BY <1>3, PoolKeeps DEF SubmitItem
  <2>4. Membership' /\ Earned'
    BY <2>1, <2>2, <2>3 DEF Accounts, Membership, Earned
  <2> QED
    BY <2>1, <2>2, <2>4, <1>same DEF Accounts
<1>4. ASSUME NEW i \in Items, Forward(i) PROVE Accounts'
  <2>1. PICK outcome \in {"ok", "error"} :
            JobAnswers(i, outcome) /\ resultCh' = [resultCh EXCEPT ![i] = outcome]
    BY <1>4 DEF Forward
  <2>2. /\ item' = item /\ batch' = batch /\ forwarded' = forwarded /\ caller' = caller
        /\ results' = results /\ errorCount' = errorCount /\ tracked' = tracked
    BY <1>4 DEF Forward, itemVars, batchVars
  <2>3. Stored' = Stored /\ Erring' = Erring
    BY <2>2 DEF Stored, Erring
  <2>4. \A k \in Items :
            executed[k] /\ answer[k] = "task" => executed'[k] /\ answer'[k] = "task"
    BY <2>1, PoolKeeps DEF JobAnswers
  <2>5. /\ resultCh'[i] = outcome /\ \A k \in Items : k # i => resultCh'[k] = resultCh[k]
        /\ outcome = "ok" => executed'[i] /\ answer'[i] = "task"
    BY <2>1, <1>types, AnswerIsEarned
  <2>6. Earned'
    BY <2>2, <2>4, <2>5 DEF Accounts, Earned
  <2>7. Membership'
    BY <2>2, <2>3 DEF Accounts, Membership
  <2> QED
    BY <2>2, <2>3, <2>6, <2>7, <1>same DEF Accounts
<1>5. ASSUME NEW i \in Items, ItemGetsResult(i) PROVE Accounts'
  <2>1. item[i] = "waiting" /\ UNCHANGED <<batchVars, caller>>
    BY <1>5 DEF ItemGetsResult
  <2>2. CASE forwarded /\ resultCh[i] # "none" /\ StoreResult(i, resultCh[i])
             /\ resultCh' = [resultCh EXCEPT ![i] = "none"] /\ UNCHANGED poolVars
    <3>1. resultCh[i] \in {"ok", "error"}
      BY <2>2, <1>types
    <3>2. Earned'
      BY <2>2, <3>1, <1>types DEF Accounts, Earned, StoreResult, poolVars
    <3> QED
      BY <2>1, <2>2, <3>1, <3>2, StoreKeeps
  <2>3. ASSUME NEW outcome \in {"ok", "error"}, JobAnswers(i, outcome),
               StoreResult(i, outcome), UNCHANGED resultCh
        PROVE  Accounts'
    <3>1. \A k \in Items :
            executed[k] /\ answer[k] = "task" => executed'[k] /\ answer'[k] = "task"
      BY <2>3, PoolKeeps DEF JobAnswers
    <3>2. outcome = "ok" => executed'[i] /\ answer'[i] = "task"
      BY <2>3, AnswerIsEarned
    <3>3. item'[i] = outcome /\ \A k \in Items : k # i => item'[k] = item[k]
      BY <2>3, <1>types DEF StoreResult
    <3>4. Earned'
      BY <2>3, <3>1, <3>2, <3>3 DEF Accounts, Earned
    <3> QED
      BY <2>1, <2>3, <3>4, StoreKeeps
  <2> QED
    BY <1>5, <2>2, <2>3 DEF ItemGetsResult
<1>6. ASSUME NEW i \in Items, ItemSeesCtx(i) PROVE Accounts'
  <2>1. item[i] = "waiting" /\ StoreResult(i, "error") /\ UNCHANGED <<batchVars, caller>>
    BY <1>6 DEF ItemSeesCtx
  <2>2. Earned'
    BY <1>6, <2>1, <1>types
    DEF ItemSeesCtx, StoreResult, Accounts, Earned, poolVars, forwardVars
  <2> QED
    BY <2>1, <2>2, StoreKeeps
<1> QED
  BY <1>1, <1>2, <1>3, <1>4, <1>5, <1>6 DEF Next, ItemStep

-----------------------------------------------------------------------------
\* The invariant holds in every execution.
THEOREM BatchInvariant == Spec => [](BatchTypes /\ Accounts)
<1>1. Init => BatchTypes /\ Accounts
  BY BatchTypesInit, AccountsInit
<1>2. BatchTypes /\ Accounts /\ [Next]_vars => BatchTypes' /\ Accounts'
  BY BatchTypesStep, AccountsStep
<1> QED
  BY <1>1, <1>2, PTL DEF Spec

\* When a batch returns every ID has a result of an item of that ID, no
\* goroutine is still tracked, the error count is right and every success was
\* earned, for every batch, over every pool that behaves as JobService does
\* (bid_pool.go:94-155, pool.go:340-374).
THEOREM BatchIsAccounted == Spec => []BatchInv
<1>1. ASSUME BatchTypes, Accounts PROVE BatchInv
  <2>1. Erring \in SUBSET Items /\ batch \ Stored \in SUBSET Items
    BY <1>1 DEF Erring, BatchTypes
  <2>2. Cardinality(Erring) \in 0 .. Cardinality(Items)
        /\ Cardinality(batch \ Stored) \in 0 .. Cardinality(Items)
        /\ 0 \in 0 .. Cardinality(Items)
    BY <2>1, Sizes
  <2>3. errorCount \in 0 .. Cardinality(Items) /\ tracked \in 0 .. Cardinality(Items)
    BY <1>1, <2>2 DEF Accounts, Totals
  <2>4. TypeOK
    BY <1>1, <2>3 DEF BatchTypes, TypeOK
  <2>5. BatchAccounted
    <3> SUFFICES ASSUME caller = "returned" PROVE BatchAccounted
      BY DEF BatchAccounted
    <3>1. Stored = batch /\ batch \ Stored = {}
      BY <1>1 DEF Accounts, Membership
    <3>2. tracked = 0
      BY <1>1, <3>1, FS_EmptySet DEF Accounts, Totals
    <3> QED
      BY <1>1, <3>1, <3>2 DEF Accounts, Totals, Attributed, Earned, Erring, BatchAccounted
  <2> QED
    BY <2>4, <2>5 DEF BatchInv
<1> QED
  BY <1>1, BatchInvariant, PTL

\* A batch asks nothing of its pool that a JobService does not do: it submits
\* an item once, and reads at most one answer of each job, an executed or a
\* refused one (bid_pool.go:94-155, pool.go:267-294, 340-374).
THEOREM BatchUsesService == Spec => Pool!Spec
<1>1. Init => Pool!Init
  BY DEF Init
<1>2. [Next]_vars => [Pool!Next]_(Pool!vars)
  <2> SUFFICES ASSUME [Next]_vars PROVE [Pool!Next]_(Pool!vars)
    OBVIOUS
  <2>1. CASE PoolStep
    BY <2>1 DEF PoolStep, Pool!Next
  <2>2. ASSUME NEW i \in Items, SubmitItem(i) PROVE Pool!Next
    BY <2>2 DEF SubmitItem, Pool!Next
  <2>3. ASSUME NEW i \in Items, NEW outcome, JobAnswers(i, outcome) PROVE Pool!Next
    BY <2>3 DEF JobAnswers, Pool!Next
  <2>4. ASSUME NEW i \in Items, Forward(i) \/ ItemGetsResult(i)
        PROVE  [Pool!Next]_(Pool!vars)
    BY <2>3, <2>4 DEF Forward, ItemGetsResult, poolVars, Pool!vars
  <2>5. ASSUME NEW i \in Items, ItemSeesCtx(i) PROVE UNCHANGED Pool!vars
    BY <2>5 DEF ItemSeesCtx, poolVars, Pool!vars
  <2>6. CASE CtxDone \/ Call \/ Return \/ UNCHANGED vars
    BY <2>6 DEF CtxDone, Call, Return, vars, poolVars, Pool!vars
  <2> QED
    BY <2>1, <2>2, <2>4, <2>5, <2>6 DEF Next, ItemStep
<1> QED
  BY <1>1, <1>2, PTL DEF Spec, Pool!Spec

=============================================================================

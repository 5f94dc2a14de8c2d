------------------------- MODULE SessionStoreProofs -------------------------
(***************************************************************************)
(* Theorems about the sessions: no session is dropped before it expires,   *)
(* and a call that no other one crosses loses nothing.                     *)
(***************************************************************************)
EXTENDS SessionStore, TLAPS

\* A unit of time brings ExpiresAt nearer by no more than a unit.
LEMMA Moves ==
    ASSUME NEW left \in Lefts
    PROVE  Later(left) \in Lefts /\ Later(left) <= left /\ Later(left) >= left - 1
BY SessionAssumption DEF Later, Lefts

\* Time leaves the order of two times alone.
LEMMA MovesInOrder ==
    ASSUME NEW one \in Lefts, NEW other \in Lefts, one <= other
    PROVE  Later(one) <= Later(other)
BY SessionAssumption DEF Later, Lefts

\* What stands for no session has the type of one.
LEMMA GoneIsSession == Gone \in Sessions /\ Gone.left < 0
BY SessionAssumption DEF Gone, Sessions, Lefts

\* A function of memberships is one of truth values.
LEMMA BooleanFunction ==
    ASSUME NEW S, NEW T
    PROVE  [x \in S |-> x \in T] \in [S -> BOOLEAN]
<1>1. \A x \in S : (x \in T) \in BOOLEAN
  OBVIOUS
<1> QED
  BY <1>1

\* The fields of a session, and of one with another field.
LEMMA SessionFields ==
    ASSUME NEW s \in Sessions
    PROVE  /\ s.data \in SUBSET Keys /\ s.left \in Lefts
           /\ \A left \in Lefts :
                /\ [s EXCEPT !.left = left] \in Sessions
                /\ [s EXCEPT !.left = left].left = left
                /\ [s EXCEPT !.left = left].data = s.data
           /\ \A data \in SUBSET Keys :
                /\ [s EXCEPT !.data = data] \in Sessions
                /\ [s EXCEPT !.data = data].left = s.left
                /\ [s EXCEPT !.data = data].data = data
BY DEF Sessions

\* A session a unit of time later.
LEMMA LaterSession ==
    ASSUME NEW s \in Sessions
    PROVE  /\ [s EXCEPT !.left = Later(@)].left = Later(s.left)
           /\ [s EXCEPT !.left = Later(@)].data = s.data
BY DEF Sessions

\* SetSessionData adds a key and keeps ExpiresAt (storage.go:130-143).
LEMMA ChangedSession ==
    ASSUME NEW s \in Sessions, NEW k
    PROVE  WithData(s, k).data = s.data \cup {k} /\ WithData(s, k).left = s.left
BY DEF Sessions, WithData

\* ExtendSession moves ExpiresAt and keeps the data (storage.go:146-164).
LEMMA ExtendedSession ==
    ASSUME NEW s \in Sessions
    PROVE  Extended(s).data = s.data /\ Extended(s).left = s.left + Extra
BY DEF Sessions, Extended

-----------------------------------------------------------------------------
\* Whoever is about to write asks for an expiry not before ExpiresAt; and
\* whoever has read the session and was not crossed holds all that is stored
\* and lives no shorter.
Kept ==
    \A c \in Clients :
        /\ pc[c] = "store" => copyTTL[c] >= copy[c].left
        /\ c \in Readers /\ ~raced[c] =>
            /\ present
            /\ stored.data \subseteq copy[c].data
            /\ stored.left <= copy[c].left

\* The inductive invariant.
StoreInv == TypeOK /\ KeyOutlivesSession /\ Kept

\* It holds when nobody has a session.
LEMMA StoreInit == Init => StoreInv
<1> SUFFICES ASSUME Init PROVE StoreInv
  OBVIOUS
<1>1. TypeOK
  <2>1. NoTTL \in 1 .. NoTTL /\ 0 \in Lefts
    BY SessionAssumption DEF NoTTL, Lefts
  <2>2. /\ pc \in [Clients -> {"idle", "have", "store"}]
        /\ op \in [Clients -> {"create", "set", "extend"}]
        /\ copy \in [Clients -> Sessions] /\ copyTTL \in [Clients -> Lefts]
    BY <2>1, GoneIsSession DEF Init
  <2>3. raced \in [Clients -> BOOLEAN]
    BY DEF Init
  <2> QED
    BY <2>1, <2>2, <2>3, GoneIsSession DEF Init, TypeOK
<1>2. KeyOutlivesSession /\ Kept
  BY DEF Init, KeyOutlivesSession, Kept, Readers
<1> QED
  BY <1>1, <1>2 DEF StoreInv

\* Every step keeps the types.
LEMMA TypeStep == TypeOK /\ [Next]_vars => TypeOK'
<1> SUFFICES ASSUME TypeOK, [Next]_vars PROVE TypeOK'
  OBVIOUS
<1>type. /\ present \in BOOLEAN /\ stored \in Sessions /\ ttl \in 1 .. NoTTL
         /\ pc \in [Clients -> {"idle", "have", "store"}]
         /\ op \in [Clients -> {"create", "set", "extend"}]
         /\ copy \in [Clients -> Sessions] /\ copyTTL \in [Clients -> Lefts]
         /\ raced \in [Clients -> BOOLEAN]
         /\ ~present => stored = Gone /\ ttl = NoTTL
  BY DEF TypeOK
<1>const. /\ TTL \in Lefts /\ 0 \in Lefts /\ NoTTL \in 1 .. NoTTL
          /\ \A n \in Lefts : n > 0 => n \in 1 .. NoTTL
          /\ \A n \in 1 .. NoTTL : n # 1 => n - 1 \in 1 .. NoTTL
  BY SessionAssumption DEF Lefts, NoTTL
<1>session. [data |-> {}, left |-> TTL] \in Sessions
  BY <1>const DEF Sessions
<1>remove. RemoveKey =>
            /\ ~present' /\ stored' = Gone /\ stored' \in Sessions
            /\ ttl' = NoTTL /\ ttl' \in 1 .. NoTTL
            /\ present' \in BOOLEAN /\ raced' \in [Clients -> BOOLEAN]
  <2>1. RemoveKey => raced' \in [Clients -> BOOLEAN]
    BY BooleanFunction DEF RemoveKey
  <2> QED
    BY <2>1, <1>const, GoneIsSession DEF RemoveKey
<1>1. CASE Tick
  <2>1. copy' \in [Clients -> Sessions]
    <3>1. \A c \in Clients : [copy[c] EXCEPT !.left = Later(@)] \in Sessions
      BY <1>type, Moves, SessionFields
    <3> QED
      BY <1>1, <3>1 DEF Tick
  <2>2. UNCHANGED <<pc, op, copyTTL>>
    BY <1>1 DEF Tick
  <2>3. CASE ttl = 1
    BY <1>1, <1>type, <1>remove, <2>1, <2>2, <2>3 DEF Tick, TypeOK
  <2>4. CASE ttl # 1
    <3>1. stored' = [stored EXCEPT !.left = Later(@)] /\ stored' \in Sessions
      BY <1>1, <1>type, <2>4, Moves, SessionFields DEF Tick
    <3>2. ttl' = (IF ttl = NoTTL THEN ttl ELSE ttl - 1) /\ UNCHANGED <<present, raced>>
      BY <1>1, <2>4 DEF Tick
    <3>3. ~present => stored' = Gone
      <4>1. Later(Gone.left) = Gone.left
        BY SessionAssumption DEF Gone, Later
      <4>2. [Gone EXCEPT !.left = Gone.left] = Gone
        BY DEF Gone
      <4> QED
        BY <1>type, <3>1, <4>1, <4>2
    <3>4. ttl' \in 1 .. NoTTL /\ (ttl = NoTTL => ttl' = NoTTL)
      BY <3>2, <2>4, <1>type, <1>const
    <3>5. present' = present /\ raced' = raced /\ pc' = pc /\ op' = op /\ copyTTL' = copyTTL
      BY <3>2, <2>2
    <3> QED
      BY <1>type, <2>1, <3>1, <3>3, <3>4, <3>5 DEF TypeOK
  <2> QED
    BY <2>3, <2>4
<1>2. CASE Delete
  <2>1. pc' = pc /\ op' = op /\ copy' = copy /\ copyTTL' = copyTTL
    BY <1>2 DEF Delete, client
  <2>2. RemoveKey
    BY <1>2 DEF Delete
  <2>3. /\ ~present' /\ stored' = Gone /\ stored' \in Sessions
        /\ ttl' = NoTTL /\ ttl' \in 1 .. NoTTL
        /\ present' \in BOOLEAN /\ raced' \in [Clients -> BOOLEAN]
    BY <2>2, <1>remove
  <2> QED
    BY <2>1, <2>3, <1>type DEF TypeOK
<1>3. ASSUME NEW c \in Clients, Create(c) PROVE TypeOK'
  BY <1>3, <1>type, <1>const, <1>session DEF Create, server, TypeOK
<1>4. ASSUME NEW c \in Clients, Get(c) PROVE TypeOK'
  <2>1. PICK s \in Sessions : copy' = [copy EXCEPT ![c] = s]
    <3>1. \A k \in Keys : stored.data \cup {k} \in SUBSET Keys
      BY <1>type, SessionFields
    <3>2. \A k \in Keys : WithData(stored, k) \in Sessions
      BY <1>type, <3>1, SessionFields DEF WithData
    <3>3. stored.left + Extra <= MaxLeft => stored.left + Extra \in Lefts
      BY <1>type, SessionFields, SessionAssumption DEF Lefts
    <3>4. stored.left + Extra <= MaxLeft => Extended(stored) \in Sessions
      BY <1>type, <3>3, SessionFields DEF Extended
    <3> QED
      BY <1>4, <3>2, <3>4 DEF Get
  <2>2. copy' \in [Clients -> Sessions]
    BY <2>1, <1>type
  <2> QED
    BY <1>4, <2>2, <1>type DEF Get, server, TypeOK
<1>5. ASSUME NEW c \in Clients, Until(c) PROVE TypeOK'
  <2>1. copy[c].left \in Lefts
    BY <1>type, SessionFields
  <2> QED
    BY <1>5, <2>1, <1>type DEF Until, server, TypeOK
<1>6. ASSUME NEW c \in Clients, Store(c) \/ Fail(c) PROVE TypeOK'
  <2>0. Return(c) \/ UNCHANGED client
    BY <1>6 DEF Store, Fail
  <2>1. /\ pc' \in [Clients -> {"idle", "have", "store"}]
        /\ op' \in [Clients -> {"create", "set", "extend"}]
        /\ copyTTL' \in [Clients -> Lefts]
    BY <2>0, <1>type, <1>const DEF Return, client
  <2>2. copy' \in [Clients -> Sessions]
    BY <2>0, <1>type, GoneIsSession DEF Return, client
  <2>3. CASE Store(c)
    <3>1. raced' \in [Clients -> BOOLEAN]
      <4>1. \A d \in Clients : (d \in Readers) \in BOOLEAN /\ raced[c] \in BOOLEAN
        BY <1>type
      <4>2. \/ raced' = [d \in Clients |-> d # c /\ d \in Readers]
            \/ raced' = [d \in Clients |-> IF d = c THEN raced[c] ELSE d \in Readers]
        BY <2>3 DEF Store
      <4> QED
        BY <4>1, <4>2
    <3> QED
      BY <2>1, <2>2, <2>3, <3>1, <1>type, <1>const DEF Store, TypeOK
  <2>4. CASE Fail(c)
    BY <2>1, <2>2, <2>4, <1>type DEF Fail, server, TypeOK
  <2> QED
    BY <1>6, <2>3, <2>4
<1>7. CASE UNCHANGED vars
  BY <1>7, <1>type DEF vars, server, client, TypeOK
<1> QED
  BY <1>1, <1>2, <1>3, <1>4, <1>5, <1>6, <1>7 DEF Next, ClientStep

\* The types the other steps need.
LEMMA TypeFacts == TypeOK =>
    /\ present \in BOOLEAN /\ stored \in Sessions /\ ttl \in 1 .. NoTTL
    /\ stored.left \in Int /\ stored.left >= -Extra /\ stored.left <= MaxLeft
    /\ \A c \in Clients :
        /\ copy[c] \in Sessions /\ copy[c].left \in Lefts /\ copy[c].left \in Int
        /\ copyTTL[c] \in Lefts /\ copyTTL[c] \in Int
    /\ DOMAIN copy = Clients /\ DOMAIN copyTTL = Clients /\ DOMAIN pc = Clients
    /\ DOMAIN op = Clients /\ DOMAIN raced = Clients
    /\ ~present => stored = Gone /\ ttl = NoTTL
<1> SUFFICES ASSUME TypeOK
             PROVE  /\ present \in BOOLEAN /\ stored \in Sessions /\ ttl \in 1 .. NoTTL
                    /\ stored.left \in Int /\ stored.left >= -Extra /\ stored.left <= MaxLeft
                    /\ \A c \in Clients :
                        /\ copy[c] \in Sessions
                        /\ copy[c].left \in Lefts /\ copy[c].left \in Int
                        /\ copyTTL[c] \in Lefts /\ copyTTL[c] \in Int
                    /\ DOMAIN copy = Clients /\ DOMAIN copyTTL = Clients
                    /\ DOMAIN pc = Clients /\ DOMAIN op = Clients /\ DOMAIN raced = Clients
                    /\ ~present => stored = Gone /\ ttl = NoTTL
  OBVIOUS
<1>1. \A left \in Lefts : left \in Int /\ left >= -Extra /\ left <= MaxLeft
  BY SessionAssumption DEF Lefts
<1>2. /\ present \in BOOLEAN /\ stored \in Sessions /\ ttl \in 1 .. NoTTL
      /\ ~present => stored = Gone /\ ttl = NoTTL
  BY DEF TypeOK
<1>3. stored.left \in Lefts
  BY <1>2, SessionFields
<1>4. \A c \in Clients : copy[c] \in Sessions /\ copyTTL[c] \in Lefts
  BY DEF TypeOK
<1>5. \A c \in Clients : copy[c].left \in Lefts
  BY <1>4, SessionFields
<1>6. /\ DOMAIN copy = Clients /\ DOMAIN copyTTL = Clients
      /\ DOMAIN pc = Clients /\ DOMAIN op = Clients /\ DOMAIN raced = Clients
  BY DEF TypeOK
<1> QED
  BY <1>1, <1>2, <1>3, <1>4, <1>5, <1>6

\* Every step keeps the key as long as the session it holds
\* (storage.go:117-119).
LEMMA OutlivesStep ==
    TypeOK /\ KeyOutlivesSession /\ Kept /\ [Next]_vars => KeyOutlivesSession'
<1> SUFFICES ASSUME TypeOK, KeyOutlivesSession, Kept, [Next]_vars
             PROVE  KeyOutlivesSession'
  OBVIOUS
<1>1. CASE Tick
  <2>1. CASE ttl = 1
    BY <1>1, <2>1 DEF Tick, RemoveKey, KeyOutlivesSession
  <2>2. CASE ttl # 1
    <3>1. stored'.left = Later(stored.left) /\ present' = present
      BY <1>1, <2>2, TypeFacts, LaterSession DEF Tick
    <3>2. ttl' = (IF ttl = NoTTL THEN ttl ELSE ttl - 1)
      BY <1>1, <2>2 DEF Tick
    <3>3. /\ Later(stored.left) = IF stored.left > -Extra THEN stored.left - 1 ELSE stored.left
          /\ stored.left \in Int /\ ttl \in 1 .. NoTTL /\ Extra \in Nat \ {0} /\ NoTTL \in Int
      BY TypeFacts, SessionAssumption DEF Later, NoTTL
    <3> QED
      BY <2>2, <3>1, <3>2, <3>3 DEF KeyOutlivesSession
  <2> QED
    BY <2>1, <2>2
<1>2. CASE Delete
  BY <1>2 DEF Delete, RemoveKey, KeyOutlivesSession
<1>3. ASSUME NEW c \in Clients, Store(c) PROVE KeyOutlivesSession'
  <2>1. /\ stored' = copy[c] /\ ttl' = IF copyTTL[c] > 0 THEN copyTTL[c] ELSE NoTTL
        /\ pc[c] = "store"
    BY <1>3 DEF Store
  <2>2. copyTTL[c] >= copy[c].left
    BY <2>1 DEF Kept
  <2>3. copyTTL[c] \in Int /\ copy[c].left \in Int /\ copyTTL[c] # NoTTL
    BY TypeFacts, SessionAssumption DEF Lefts, NoTTL
  <2> QED
    BY <2>1, <2>2, <2>3 DEF KeyOutlivesSession
<1>4. ASSUME NEW c \in Clients, Create(c) \/ Get(c) \/ Until(c) \/ Fail(c)
      PROVE  KeyOutlivesSession'
  BY <1>4 DEF Create, Get, Until, Fail, server, KeyOutlivesSession
<1>5. CASE UNCHANGED vars
  BY <1>5 DEF vars, server, KeyOutlivesSession
<1> QED
  BY <1>1, <1>2, <1>3, <1>4, <1>5 DEF Next, ClientStep

\* Every step keeps what the readers hold, or marks them as crossed.
LEMMA KeptStep == TypeOK /\ Kept /\ [Next]_vars => Kept'
<1> SUFFICES ASSUME TypeOK, Kept, [Next]_vars PROVE Kept'
  OBVIOUS
<1>1. CASE Tick
  <2>1. ASSUME NEW c \in Clients
        PROVE  /\ copy'[c].left = Later(copy[c].left) /\ copy'[c].data = copy[c].data
               /\ pc'[c] = pc[c] /\ copyTTL'[c] = copyTTL[c]
    <3>1. copy'[c] = [copy[c] EXCEPT !.left = Later(@)]
      BY <1>1 DEF Tick
    <3> QED
      BY <1>1, <3>1, TypeFacts, LaterSession DEF Tick
  <2>2. Readers' = Readers
    BY <1>1 DEF Tick, Readers
  <2>3. ASSUME NEW c \in Clients, pc'[c] = "store" PROVE copyTTL'[c] >= copy'[c].left
    <3>1. copyTTL[c] >= copy[c].left /\ copyTTL'[c] = copyTTL[c]
      BY <2>1, <2>3 DEF Kept
    <3>2. /\ Later(copy[c].left) <= copy[c].left /\ Later(copy[c].left) \in Int
          /\ copyTTL[c] \in Int /\ copy[c].left \in Int
      BY TypeFacts, Moves DEF Lefts
    <3> QED
      BY <2>1, <3>1, <3>2
  <2>4. CASE ttl = 1
    <3>1. \A c \in Readers' : raced'[c]
      BY <1>1, <2>2, <2>4 DEF Tick, RemoveKey, Readers
    <3> QED
      BY <2>3, <3>1 DEF Kept
  <2>5. CASE ttl # 1
    <3>1. /\ stored'.left = Later(stored.left) /\ stored'.data = stored.data
          /\ present' = present /\ raced' = raced
      BY <1>1, <2>5, TypeFacts, LaterSession DEF Tick
    <3>2. ASSUME NEW c \in Readers, ~raced[c]
          PROVE  present /\ stored'.data \subseteq copy'[c].data /\ stored'.left <= copy'[c].left
      <4>1. c \in Clients
        BY DEF Readers
      <4>2. present /\ stored.data \subseteq copy[c].data /\ stored.left <= copy[c].left
        BY <3>2, <4>1 DEF Kept
      <4>3. Later(stored.left) <= Later(copy[c].left)
        BY <4>1, <4>2, TypeFacts, MovesInOrder, SessionFields
      <4> QED
        BY <2>1, <3>1, <4>1, <4>2, <4>3
    <3> QED
      BY <2>2, <2>3, <3>1, <3>2 DEF Kept
  <2> QED
    BY <2>4, <2>5
<1>2. CASE Delete
  <2>1. Readers' = Readers /\ pc' = pc /\ copy' = copy /\ copyTTL' = copyTTL
    BY <1>2 DEF Delete, client, Readers
  <2>2. \A c \in Readers' : raced'[c]
    BY <1>2, <2>1 DEF Delete, RemoveKey, Readers
  <2> QED
    BY <2>1, <2>2 DEF Kept
<1>3. ASSUME NEW c \in Clients, Create(c) PROVE Kept'
  <2>1. /\ pc'[c] = "store" /\ op'[c] = "create" /\ copy'[c].left = TTL /\ copyTTL'[c] = TTL
        /\ \A d \in Clients : d # c =>
            pc'[d] = pc[d] /\ op'[d] = op[d] /\ copy'[d] = copy[d] /\ copyTTL'[d] = copyTTL[d]
        /\ present' = present /\ stored' = stored /\ raced' = raced
    BY <1>3, TypeFacts DEF Create, server
  <2> QED
    BY <2>1, SessionAssumption DEF Kept, Readers
<1>4. ASSUME NEW c \in Clients, Get(c) PROVE Kept'
  <2>1. /\ pc'[c] = "have" /\ present
        /\ \A d \in Clients : d # c =>
            pc'[d] = pc[d] /\ op'[d] = op[d] /\ copy'[d] = copy[d] /\ copyTTL'[d] = copyTTL[d]
        /\ present' = present /\ stored' = stored /\ raced' = raced
    BY <1>4, TypeFacts DEF Get, server
  <2>2. stored.data \subseteq copy'[c].data /\ stored.left <= copy'[c].left
    <3>1. stored \in Sessions /\ stored.data \in SUBSET Keys /\ stored.left \in Int
      BY TypeFacts, SessionFields
    <3>2. PICK s :
            /\ copy' = [copy EXCEPT ![c] = s]
            /\ \/ \E k \in Keys : s = WithData(stored, k)
               \/ s = Extended(stored)
      BY <1>4 DEF Get
    <3>3. copy'[c] = s
      BY <3>2, TypeFacts
    <3>4. stored.data \subseteq s.data /\ (s.left = stored.left \/ s.left = stored.left + Extra)
      <4>1. CASE s = Extended(stored)
        <5>1. s.data = stored.data /\ s.left = stored.left + Extra
          BY <3>1, <4>1, ExtendedSession
        <5> QED
          BY <5>1
      <4>2. ASSUME NEW k \in Keys, s = WithData(stored, k)
            PROVE  stored.data \subseteq s.data /\ s.left = stored.left
        <5>1. s.data = stored.data \cup {k} /\ s.left = stored.left
          BY <3>1, <4>2, ChangedSession
        <5> QED
          BY <5>1
      <4> QED
        BY <3>2, <4>1, <4>2
    <3> QED
      BY <3>1, <3>3, <3>4, SessionAssumption
  <2> QED
    BY <2>1, <2>2 DEF Kept, Readers
<1>5. ASSUME NEW c \in Clients, Until(c) PROVE Kept'
  <2>1. /\ pc[c] = "have" /\ pc'[c] = "store" /\ copyTTL'[c] = copy[c].left
        /\ \A d \in Clients : d # c => pc'[d] = pc[d] /\ copyTTL'[d] = copyTTL[d]
        /\ present' = present /\ stored' = stored /\ raced' = raced /\ op' = op /\ copy' = copy
    BY <1>5, TypeFacts DEF Until, server
  <2>2. Readers' = Readers /\ copy[c].left \in Int
    BY <2>1, TypeFacts DEF Readers
  <2> QED
    BY <2>1, <2>2 DEF Kept
<1>6. ASSUME NEW c \in Clients, Store(c) PROVE Kept'
  <2>1. /\ \/ pc'[c] = "idle"
           \/ /\ UNCHANGED client /\ raced'[c] = raced[c]
              /\ present' /\ stored' = copy[c]
        /\ \A d \in Clients : d # c =>
            pc'[d] = pc[d] /\ op'[d] = op[d] /\ copy'[d] = copy[d] /\ copyTTL'[d] = copyTTL[d]
    BY <1>6, TypeFacts DEF Store, Return, client
  <2>2. \A d \in Clients : d # c /\ d \in Readers => raced'[d]
    BY <1>6 DEF Store
  <2>3. ASSUME NEW d \in Clients, d # c
        PROVE  /\ pc'[d] = "store" => copyTTL'[d] >= copy'[d].left
               /\ d \in Readers' => raced'[d]
    BY <2>1, <2>2, <2>3 DEF Kept, Readers
  <2>4. CASE pc'[c] = "idle"
    BY <2>3, <2>4 DEF Kept, Readers
  <2>5. CASE UNCHANGED client /\ raced'[c] = raced[c] /\ present' /\ stored' = copy[c]
    <3>1. copy'[c] = copy[c] /\ copyTTL'[c] = copyTTL[c] /\ pc'[c] = pc[c]
      BY <2>5 DEF client
    <3>2. stored'.data \subseteq copy'[c].data /\ stored'.left <= copy'[c].left
      BY <2>5, <3>1, TypeFacts
    <3> QED
      BY <2>3, <2>5, <3>1, <3>2 DEF Kept
  <2> QED
    BY <2>1, <2>4, <2>5
<1>7. ASSUME NEW c \in Clients, Fail(c) PROVE Kept'
  <2>1. /\ pc'[c] = "idle"
        /\ \A d \in Clients : d # c =>
            /\ pc'[d] = pc[d] /\ op'[d] = op[d] /\ copy'[d] = copy[d]
            /\ copyTTL'[d] = copyTTL[d] /\ raced'[d] = raced[d]
        /\ present' = present /\ stored' = stored
    BY <1>7, TypeFacts DEF Fail, Return, server
  <2> QED
    BY <2>1 DEF Kept, Readers
<1>8. CASE UNCHANGED vars
  BY <1>8 DEF vars, server, client, Kept, Readers
<1> QED
  BY <1>1, <1>2, <1>3, <1>4, <1>5, <1>6, <1>7, <1>8 DEF Next, ClientStep

-----------------------------------------------------------------------------
\* The invariant holds in every execution.
THEOREM StoreInvariant == Spec => []StoreInv
<1>1. StoreInv /\ [Next]_vars => StoreInv'
  BY TypeStep, OutlivesStep, KeptStep DEF StoreInv
<1> QED
  BY <1>1, StoreInit, PTL DEF Spec

\* Redis never drops a session before its ExpiresAt, for every TTL, extension
\* and set of clients and keys, also when calls stall between the computation
\* of the TTL and the SET (storage.go:117-133).
THEOREM NoSessionLostEarly == Spec => []SessionInv
<1>1. StoreInv => SessionInv
  BY DEF StoreInv, SessionInv
<1> QED
  BY <1>1, StoreInvariant, PTL

\* SetSessionData and ExtendSession lose no key, no extension and no deletion
\* unless another call wrote or removed the session after they read it
\* (storage.go:130-164).
THEOREM UncrossedCallsLoseNothing == Spec => UnracedKeepsAll
<1>1. ASSUME StoreInv, NEW c \in Readers, Store(c), ~raced[c]
      PROVE  present /\ stored.data \subseteq stored'.data /\ stored.left <= stored'.left
  <2>1. c \in Clients
    BY DEF Readers
  <2>2. present /\ stored.data \subseteq copy[c].data /\ stored.left <= copy[c].left
    BY <1>1, <2>1 DEF StoreInv, Kept
  <2>3. stored' = copy[c]
    BY <1>1 DEF Store
  <2> QED
    BY <2>2, <2>3
<1>2. StoreInv =>
        [\A c \in Readers :
            Store(c) /\ ~raced[c] =>
                /\ present
                /\ stored.data \subseteq stored'.data
                /\ stored.left <= stored'.left]_vars
  BY <1>1
<1> QED
  BY <1>2, StoreInvariant, PTL DEF Spec, UnracedKeepsAll
=============================================================================

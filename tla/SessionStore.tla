---------------------------- MODULE SessionStore ----------------------------
(***************************************************************************)
(* Sessions of internal/storage/storage.go: clients that create, update,   *)
(* extend and delete one session in Redis.  SetSessionData and             *)
(* ExtendSession read the session, change their copy and write all of it   *)
(* back; UpdateSession computes the TTL of the key from the clock before   *)
(* it sends the SET.                                                       *)
(*                                                                         *)
(* A time is kept as what is left until it, in units, and at least -Extra: *)
(* a session that far past its ExpiresAt cannot be extended into life.     *)
(***************************************************************************)
EXTENDS Integers

CONSTANTS
    Clients,     \* goroutines that use the session
    Keys,        \* keys of Session.Data
    TTL,         \* the ttl of CreateSession, in units
    Extra,       \* the additionalTime of ExtendSession
    MaxLeft      \* bound on how far ExpiresAt is extended

ASSUME SessionAssumption ==
    /\ TTL \in Nat \ {0} /\ Extra \in Nat \ {0}
    /\ MaxLeft \in Nat /\ MaxLeft >= TTL

NoTTL == MaxLeft + 1     \* the TTL of a key that is absent or never expires
Gone == [data |-> {}, left |-> -Extra]
Later(left) == IF left > -Extra THEN left - 1 ELSE left

VARIABLES
    present,   \* the session's key exists
    stored,    \* its value: the data keys set, and what is left to ExpiresAt
    ttl,       \* units until the key expires
    pc,        \* each client: "idle", "have" (a copy) or "store" (sends SET)
    op,        \* its operation: "create", "set" or "extend"
    copy,      \* its copy of the session
    copyTTL,   \* the expiration it computed for SET
    raced      \* history: the session was written or removed since it was read

server == <<present, stored, ttl>>
client == <<pc, op, copy, copyTTL>>
vars == <<server, client, raced>>

Init ==
    /\ present = FALSE
    /\ stored = Gone
    /\ ttl = NoTTL
    /\ pc = [c \in Clients |-> "idle"]
    /\ op = [c \in Clients |-> "create"]
    /\ copy = [c \in Clients |-> Gone]
    /\ copyTTL = [c \in Clients |-> 0]
    /\ raced = [c \in Clients |-> FALSE]

\* The clients that have read the session and will write it.
Readers == {c \in Clients : pc[c] # "idle" /\ op[c] # "create"}

RemoveKey ==
    /\ present' = FALSE
    /\ stored' = Gone
    /\ ttl' = NoTTL
    /\ raced' = [c \in Clients |-> c \in Readers]

\* A unit of time passes, for the server and for every copy.
Tick ==
    /\ copy' = [c \in Clients |-> [copy[c] EXCEPT !.left = Later(@)]]
    /\ IF ttl = 1
       THEN RemoveKey
       ELSE /\ stored' = [stored EXCEPT !.left = Later(@)]
            /\ ttl' = IF ttl = NoTTL THEN ttl ELSE ttl - 1
            /\ UNCHANGED <<present, raced>>
    /\ UNCHANGED <<pc, op, copyTTL>>

-----------------------------------------------------------------------------
\* CreateSession computes ExpiresAt and sends a SET that overwrites what is there.
Create(c) ==
    /\ pc[c] = "idle"
    /\ pc' = [pc EXCEPT ![c] = "store"]
    /\ op' = [op EXCEPT ![c] = "create"]
    /\ copy' = [copy EXCEPT ![c] = [data |-> {}, left |-> TTL]]
    /\ copyTTL' = [copyTTL EXCEPT ![c] = TTL]
    /\ UNCHANGED <<server, raced>>

GetWithNewData(c) ==
    /\ pc[c] = "idle"
    /\ present
    /\ \/ /\ op' = [op EXCEPT ![c] = "set"]
          /\ \E k \in Keys : copy' = [copy EXCEPT ![c] = [stored EXCEPT !.data = {k}]]
       \/ /\ op' = [op EXCEPT ![c] = "extend"]
          /\ stored.left + Extra <= MaxLeft
          /\ copy' = [copy EXCEPT ![c] = [stored EXCEPT !.left = @ + Extra]]
    /\ pc' = [pc EXCEPT ![c] = "have"]
    /\ UNCHANGED <<server, copyTTL, raced>>

\* What SetSessionData and ExtendSession change in their copy.
WithData(session, k) == [session EXCEPT !.data = @ \cup {k}]
Extended(session) == [session EXCEPT !.left = @ + Extra]

\* GetSession, at the head of SetSessionData and ExtendSession, and the change
\* of the copy; an absent key ends them with an error.
Get(c) ==
    /\ pc[c] = "idle"
    /\ present
    /\ \/ /\ op' = [op EXCEPT ![c] = "set"]
          /\ \E k \in Keys : copy' = [copy EXCEPT ![c] = WithData(stored, k)]
       \/ /\ op' = [op EXCEPT ![c] = "extend"]
          /\ stored.left + Extra <= MaxLeft
          /\ copy' = [copy EXCEPT ![c] = Extended(stored)]
    /\ pc' = [pc EXCEPT ![c] = "have"]
    /\ UNCHANGED <<server, copyTTL, raced>>

\* Variant: an update that keeps the TTL of the creation.
UntilCreation(c) ==
    /\ pc[c] = "have"
    /\ copyTTL' = [copyTTL EXCEPT ![c] = IF ttl = NoTTL THEN 0 ELSE ttl]
    /\ pc' = [pc EXCEPT ![c] = "store"]
    /\ UNCHANGED <<server, op, copy, raced>>

\* time.Until(session.ExpiresAt) in UpdateSession.
Until(c) ==
    /\ pc[c] = "have"
    /\ copyTTL' = [copyTTL EXCEPT ![c] = copy[c].left]
    /\ pc' = [pc EXCEPT ![c] = "store"]
    /\ UNCHANGED <<server, op, copy, raced>>

\* The end of a call; what its copy was no longer matters.
Return(c) ==
    /\ pc' = [pc EXCEPT ![c] = "idle"]
    /\ op' = [op EXCEPT ![c] = "create"]
    /\ copy' = [copy EXCEPT ![c] = Gone]
    /\ copyTTL' = [copyTTL EXCEPT ![c] = 0]

\* SET: the client library sends no expiry for a duration that is not positive,
\* and sends the same SET again when it was done and its reply is lost.
Store(c) ==
    /\ pc[c] = "store"
    /\ present' = TRUE
    /\ stored' = copy[c]
    /\ ttl' = IF copyTTL[c] > 0 THEN copyTTL[c] ELSE NoTTL
    /\ \/ /\ raced' = [d \in Clients |-> d # c /\ d \in Readers]
          /\ Return(c)
       \/ /\ raced' = [d \in Clients |-> IF d = c THEN raced[c] ELSE d \in Readers]
          /\ UNCHANGED client

\* The connection fails before the SET, or for the last time after it.
Fail(c) ==
    /\ pc[c] = "store"
    /\ Return(c)
    /\ raced' = [raced EXCEPT ![c] = FALSE]
    /\ UNCHANGED server

Delete ==
    /\ present
    /\ RemoveKey
    /\ UNCHANGED client

-----------------------------------------------------------------------------
ClientStep(c) == Create(c) \/ Get(c) \/ Until(c) \/ Store(c) \/ Fail(c)

Next == Tick \/ Delete \/ \E c \in Clients : ClientStep(c)

Spec == Init /\ [][Next]_vars

-----------------------------------------------------------------------------
Lefts == -Extra .. MaxLeft
Sessions == [data : SUBSET Keys, left : Lefts]

TypeOK ==
    /\ present \in BOOLEAN
    /\ stored \in Sessions
    /\ ttl \in 1 .. NoTTL
    /\ pc \in [Clients -> {"idle", "have", "store"}]
    /\ op \in [Clients -> {"create", "set", "extend"}]
    /\ copy \in [Clients -> Sessions]
    /\ copyTTL \in [Clients -> Lefts]
    /\ raced \in [Clients -> BOOLEAN]
    /\ ~present => stored = Gone /\ ttl = NoTTL

\* Redis never drops a session before its ExpiresAt, whoever wrote it last and
\* however long the SET took; a session whose key never expires, left by a call
\* that straddled its ExpiresAt, is not one that IsSessionValid accepts
\* (storage.go:117-119, 173).
KeyOutlivesSession ==
    present => IF ttl = NoTTL THEN stored.left <= 0 ELSE ttl >= stored.left

\* No session is lost early, over values of the right types: what a call read
\* and will write back is a session (storage.go:117-133).
SessionInv == TypeOK /\ KeyOutlivesSession

\* The SETs of SetSessionData and ExtendSession lose nothing unless another call wrote or
\* removed the session after they read it: no key of Data, no extension of
\* ExpiresAt, no deletion or expiry (storage.go:130-164).  Without WATCH or a
\* script nothing better holds.
UnracedKeepsAll ==
    [][\A c \in Readers :
        Store(c) /\ ~raced[c] =>
            /\ present
            /\ stored.data \subseteq stored'.data
            /\ stored.left <= stored'.left]_vars

=============================================================================

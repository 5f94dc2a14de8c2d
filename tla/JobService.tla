----------------------------- MODULE JobService -----------------------------
(***************************************************************************)
(* What a pool promises the callers of SubmitTask, whatever its queue, its *)
(* workers and its channels look like: while it is open a job is accepted  *)
(* or refused, once; a refused job is never executed and its caller is     *)
(* told so; an accepted job is executed at most once, and its caller gets  *)
(* at most one answer, of its own job, which is the task's outcome or the  *)
(* error of the job's own context, and which nothing replaces.             *)
(***************************************************************************)
CONSTANT Jobs

VARIABLES
    open,      \* the service accepts jobs
    verdict,   \* "none", "accepted" or "refused"
    executed,  \* the job's task was started
    answer     \* "none", "task", "ctx" or "refused"

vars == <<open, verdict, executed, answer>>

TypeOK ==
    /\ open \in BOOLEAN
    /\ verdict \in [Jobs -> {"none", "accepted", "refused"}]
    /\ executed \in [Jobs -> BOOLEAN]
    /\ answer \in [Jobs -> {"none", "task", "ctx", "refused"}]

Init ==
    /\ open = FALSE
    /\ verdict = [j \in Jobs |-> "none"]
    /\ executed = [j \in Jobs |-> FALSE]
    /\ answer = [j \in Jobs |-> "none"]

Open == ~open /\ open' = TRUE /\ UNCHANGED <<verdict, executed, answer>>
Close == open /\ open' = FALSE /\ UNCHANGED <<verdict, executed, answer>>

Accept(j) ==
    /\ open
    /\ verdict[j] = "none"
    /\ verdict' = [verdict EXCEPT ![j] = "accepted"]
    /\ UNCHANGED <<open, executed, answer>>

\* A full service refuses too, so a refusal does not need it closed.
Refuse(j) ==
    /\ verdict[j] = "none"
    /\ verdict' = [verdict EXCEPT ![j] = "refused"]
    /\ UNCHANGED <<open, executed, answer>>

Execute(j) ==
    /\ verdict[j] = "accepted"
    /\ ~executed[j]
    /\ executed' = [executed EXCEPT ![j] = TRUE]
    /\ UNCHANGED <<open, verdict, answer>>

Answer(j) ==
    /\ answer[j] = "none"
    /\ \/ verdict[j] = "refused" /\ answer' = [answer EXCEPT ![j] = "refused"]
       \/ executed[j] /\ \E kind \in {"task", "ctx"} :
                            answer' = [answer EXCEPT ![j] = kind]
    /\ UNCHANGED <<open, verdict, executed>>

Next ==
    \/ Open \/ Close
    \/ \E j \in Jobs : Accept(j) \/ Refuse(j) \/ Execute(j) \/ Answer(j)

Spec == Init /\ [][Next]_vars

=============================================================================

--------------------------- MODULE ChatJobLifecycle ---------------------------
(***************************************************************************)
(* What the asynchronous API promises about a job, as a client that polls  *)
(* GET /api/chat/jobs/:id sees it (README, "Async Chat Jobs"): a job is    *)
(* created, run, perhaps run again, and ends once, either with an answer   *)
(* or without one. Queue, workers and connections do not appear here.      *)
(***************************************************************************)
EXTENDS Naturals

CONSTANTS Jobs, MaxRetry

VARIABLES
    status,   \* status[j]: what the client is told
    tries,    \* tries[j]: failed runs, retry_count in the row
    answer    \* answer[j]: the message shown as the answer, 0 for none

vars == <<status, tries, answer>>

Init ==
    /\ status = [j \in Jobs |-> "absent"]
    /\ tries = [j \in Jobs |-> 0]
    /\ answer = [j \in Jobs |-> 0]

Turn(j, from, to) ==
    /\ status[j] \in from
    /\ status' = [status EXCEPT ![j] = to]

Create(j) ==
    /\ Turn(j, {"absent"}, "pending")
    /\ UNCHANGED <<tries, answer>>

\* The task could not be published: the job fails without having run.
Refuse(j) ==
    /\ Turn(j, {"pending"}, "failed")
    /\ tries[j] = 0
    /\ UNCHANGED <<tries, answer>>

Run(j) ==
    /\ Turn(j, {"pending"}, "running")
    /\ UNCHANGED <<tries, answer>>

\* A run failed and another one is due.
Retry(j) ==
    /\ Turn(j, {"running"}, "pending")
    /\ tries[j] + 1 < MaxRetry
    /\ tries' = [tries EXCEPT ![j] = @ + 1]
    /\ UNCHANGED answer

\* The last run that is allowed failed.
GiveUp(j) ==
    /\ Turn(j, {"running"}, "failed")
    /\ tries[j] + 1 = MaxRetry
    /\ tries' = [tries EXCEPT ![j] = @ + 1]
    /\ UNCHANGED answer

Answer(j) ==
    /\ Turn(j, {"running"}, "success")
    /\ answer'[j] > 0
    /\ \A k \in Jobs \ {j} : answer'[k] = answer[k]
    /\ UNCHANGED tries

Next ==
    \E j \in Jobs : \/ Create(j) \/ Refuse(j) \/ Run(j)
                    \/ Retry(j) \/ GiveUp(j) \/ Answer(j)

Spec == Init /\ [][Next]_vars
=============================================================================

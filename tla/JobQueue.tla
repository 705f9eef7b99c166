------------------------------ MODULE JobQueue ------------------------------
(***************************************************************************)
(* What the forward worker promises of a run to the callers that register  *)
(* and query it: no leases, no claims and no clock.  A run is executed at  *)
(* least once and for as long as executing it records nothing; at most one *)
(* result is recorded; its reply may be sent again, but neither the result *)
(* nor the final status changes any more.  ForwardRuntime implements it.   *)
(***************************************************************************)
EXTENDS Naturals

CONSTANTS
    Job,
    MaxAttempts     \* executions a job gets without a lease expiring

VARIABLE job        \* what a query of each run shows

Record == [status   : {"absent", "pending", "running", "reply_pending",
                       "completed", "failed", "deferred"},
           attempts : Nat,
           result   : {"none", "answer", "failure", "deferred"}]

Init == job = [j \in Job |-> [status |-> "absent", attempts |-> 0, result |-> "none"]]

Becomes(j, status, result) ==
    job' = [job EXCEPT ![j] = [job[j] EXCEPT !.status = status, !.result = result]]

Submit(j) ==
    /\ job[j].status = "absent"
    /\ job' = [job EXCEPT ![j] = [status |-> "pending", attempts |-> 0, result |-> "none"]]

\* A running job is executed again when its executor is gone.
Execute(j) ==
    /\ job[j].status \in {"pending", "running"}
    /\ job' = [job EXCEPT ![j] = [job[j] EXCEPT !.status = "running",
                                            !.attempts = job[j].attempts + 1]]

\* An execution that failed before it recorded anything is put off.
PutOff(j) ==
    /\ job[j].status = "running" /\ job[j].attempts < MaxAttempts
    /\ Becomes(j, "pending", job[j].result)

RecordResult(j) ==
    /\ job[j].status = "running"
    /\ \E result \in {"answer", "failure"} : Becomes(j, "reply_pending", result)

\* The prompt went into the turn of another message, which will answer it.
Defer(j) == job[j].status = "running" /\ Becomes(j, "deferred", "deferred")

ReplySent(j) ==
    /\ job[j].status = "reply_pending"
    /\ Becomes(j, IF job[j].result = "answer" THEN "completed" ELSE "failed", job[j].result)

Next == \E j \in Job :
    Submit(j) \/ Execute(j) \/ PutOff(j) \/ RecordResult(j) \/ Defer(j) \/ ReplySent(j)

Spec == Init /\ [][Next]_job
=============================================================================

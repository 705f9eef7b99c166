---------------------------- MODULE ForwardJobs ----------------------------
(***************************************************************************)
(* The durable table assistant_codex_forward_jobs and the operations       *)
(* storage/forward-jobs.mjs offers on it.  Every operation is one short    *)
(* transaction, so it is one step here.  Module ForwardRuntime is the      *)
(* client the service runs: it says who calls which operation, and when.   *)
(*                                                                         *)
(* Time.  A column that holds an instant (lease_expires_at,                *)
(* next_attempt_at) is held relative to the present: x > 0 is x ticks      *)
(* ahead.  NULL and an instant long past behave alike in every predicate   *)
(* of the code and are both Past.  An operation reads its `at' before its  *)
(* statement runs; `lag' is how many ticks the statement ran after that    *)
(* reading, so "column <= at" is "column <= -lag".                         *)
(***************************************************************************)
EXTENDS Integers

CONSTANTS
    Job,            \* public_run_id of the rows of one connection_id
    Owner,          \* lease_owner values: one fresh UUID per claim
    NoOwner,        \* lease_owner = ''
    LeaseMs,        \* length of a lease, in ticks
    RetryDelay,     \* longest delay before next_attempt_at, in ticks
    MaxLag,         \* the most ticks a statement runs after it read `at'
    Isolated        \* rows SAFE_EXECUTION_SQL and SAFE_DELIVERY_SQL keep apart

ASSUME TimingAssumption ==
    /\ MaxLag \in Nat
    /\ LeaseMs \in Nat /\ LeaseMs > MaxLag
    /\ RetryDelay \in Nat
ASSUME OwnerAssumption == NoOwner \notin Owner
ASSUME IsolatedAssumption == Isolated \subseteq Job

VARIABLE row

----------------------------------------------------------------------------
Lag  == 0..MaxLag
Past == -MaxLag

Finished == {"completed", "failed", "deferred"}
Recorded == {"reply_pending"} \cup Finished
Status   == {"absent", "pending", "running"} \cup Recorded
Outcome  == {"none", "answer", "failure", "deferred"}

Row == [status        : Status,
        attempts      : Nat,
        replyAttempts : Nat,
        owner         : Owner \cup {NoOwner},
        leaseExpires  : Past..LeaseMs,
        nextAttempt   : Past..RetryDelay,
        result        : Outcome,
        resultBy      : Nat]    \* history: the attempt that recorded it

\* markFinished's status is derived from the recorded result.
StatusFor(result) == CASE result = "answer"   -> "completed"
                       [] result = "failure"  -> "failed"
                       [] result = "deferred" -> "deferred"
                       [] OTHER -> "failed"

AbsentRow == [status |-> "absent", attempts |-> 0, replyAttempts |-> 0,
              owner |-> NoOwner, leaseExpires |-> Past, nextAttempt |-> Past,
              result |-> "none", resultBy |-> 0]

JobsTypeOK == row \in [Job -> Row]

JobsInit == row = [j \in Job |-> AbsentRow]

----------------------------------------------------------------------------
(* Predicates of the WHERE clauses.                                        *)

\* Slip: the owner is not part of the WHERE clause.
HeldByAnyone(j, o, lag) == row[j].leaseExpires > -lag

\* lease_owner=? AND lease_expires_at>?
HeldBy(j, o, lag) == row[j].owner = o /\ row[j].leaseExpires > -lag

\* Slips: a running row is claimed while its lease runs; and never.
ExecutableUnderLease(j, lag) ==
    /\ j \notin Isolated
    /\ \/ row[j].status = "pending" /\ row[j].nextAttempt <= -lag
       \/ row[j].status = "running"
ExecutableOnlyPending(j, lag) ==
    j \notin Isolated /\ row[j].status = "pending" /\ row[j].nextAttempt <= -lag

Executable(j, lag) ==
    /\ j \notin Isolated
    /\ \/ row[j].status = "pending" /\ row[j].nextAttempt <= -lag
       \/ row[j].status = "running" /\ row[j].leaseExpires <= -lag

Deliverable(j, lag) ==
    /\ j \notin Isolated
    /\ row[j].status = "reply_pending"
    /\ row[j].leaseExpires <= -lag
    /\ row[j].nextAttempt <= -lag

Renewable(j, o, lag) == HeldBy(j, o, lag) /\ row[j].status \in {"running"} \cup Recorded

----------------------------------------------------------------------------
(* The operations.                                                         *)

\* INSERT IGNORE by request key: a second registration changes nothing.
Upsert(j, notBefore) ==
    /\ row[j].status = "absent"
    /\ row' = [row EXCEPT ![j] = [AbsentRow EXCEPT !.status = "pending",
                                                   !.nextAttempt = notBefore]]

ClaimById(j, o, lag) ==
    /\ Executable(j, lag)
    /\ row' = [row EXCEPT ![j] = [@ EXCEPT !.status = "running",
                                          !.attempts = row[j].attempts + 1,
                                          !.owner = o,
                                          !.leaseExpires = LeaseMs - lag]]

ClaimReplyById(j, o, lag) ==
    /\ Deliverable(j, lag)
    /\ row' = [row EXCEPT ![j] = [@ EXCEPT !.replyAttempts = row[j].replyAttempts + 1,
                                          !.owner = o,
                                          !.leaseExpires = LeaseMs - lag]]

Renew(j, o, lag) ==
    /\ Renewable(j, o, lag)
    /\ row' = [row EXCEPT ![j] = [@ EXCEPT !.leaseExpires = LeaseMs - lag]]

\* The lease ends with the recording; the owner column keeps its value.
MarkReplyPending(j, o, lag, result, attempt) ==
    /\ HeldBy(j, o, lag) /\ row[j].status = "running"
    /\ row' = [row EXCEPT ![j] = [@ EXCEPT !.status = "reply_pending",
                                          !.leaseExpires = -lag,
                                          !.result = result,
                                          !.resultBy = attempt]]

MarkFinished(j, o, lag, status) ==
    /\ HeldBy(j, o, lag) /\ row[j].status = "reply_pending"
    /\ row' = [row EXCEPT ![j] = [@ EXCEPT !.status = status,
                                          !.owner = NoOwner,
                                          !.leaseExpires = Past]]

MarkFinishedWithoutReply(j, o, lag, attempt) ==
    /\ HeldBy(j, o, lag) /\ row[j].status = "running"
    /\ row' = [row EXCEPT ![j] = [@ EXCEPT !.status = "deferred",
                                          !.owner = NoOwner,
                                          !.leaseExpires = Past,
                                          !.result = "deferred",
                                          !.resultBy = attempt]]

\* The callers of the service pass neither `held', `terminal' nor
\* `preserveAttempt'; `to' is "reply_pending" when replyPending is set.
MarkRetry(j, o, lag, to, delay) ==
    /\ HeldBy(j, o, lag) /\ row[j].status \in {"running", "reply_pending"}
    /\ row' = [row EXCEPT ![j] = [@ EXCEPT !.status = to,
                                          !.nextAttempt = delay,
                                          !.owner = NoOwner,
                                          !.leaseExpires = Past]]

\* One tick of the clock: every instant comes one tick closer.
Elapsed(x) == IF x > Past THEN x - 1 ELSE Past

Elapse == row' = [j \in Job |-> [row[j] EXCEPT
                      !.leaseExpires = Elapsed(@), !.nextAttempt = Elapsed(@)]]
============================================================================

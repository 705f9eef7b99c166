--------------------------- MODULE ForwardRuntime ---------------------------
(***************************************************************************)
(* The forward worker of core/forward-runtime.mjs over the durable table   *)
(* of ForwardJobs: claim, withLease (heartbeat, expiry timer, assertOwned),*)
(* executeOwnedJob and deliverJob.                                         *)
(*                                                                         *)
(* The actors are the claims, not the processes: a claim is one lease      *)
(* owner UUID and the withLease call that runs under it.  Claims of one    *)
(* process and of several interleave in the same way, because the table is *)
(* all they share.  A claim is Idle again, and stands for a fresh UUID,    *)
(* once nothing it sent to the database is outstanding.                    *)
(*                                                                         *)
(* deadline is withLease's local leaseDeadline, relative to the present as *)
(* the columns of the table are; renewAge is the time since the            *)
(* outstanding renewal read requestStarted.                                *)
(***************************************************************************)
EXTENDS ForwardJobs, FiniteSets

CONSTANTS
    NoJob,          \* the job of an idle claim
    MaxAttempts,    \* codex.jobMaxAttempts
    MaxFaults,      \* bound: how many faults of the kinds below may happen
    FaultKinds,     \* subset of AllFaults
    ExecErrors      \* subset of AllErrors: how executing a job may fail

AllFaults == {"crash", "stop", "renew", "write", "delivery", "stall"}
AllErrors == {"store", "network", "fatal"}

ASSUME RuntimeAssumption ==
    /\ NoJob \notin Job
    /\ MaxAttempts \in Nat \ {0}
    /\ MaxFaults \in Nat
    /\ FaultKinds \subseteq AllFaults
    /\ ExecErrors \subseteq AllErrors

VARIABLES
    lease,      \* what each claim is doing
    submits,    \* turn/start calls made for each job
    excuses,    \* see ResubmitHasCause
    faults      \* faults so far

vars == <<row, lease, submits, excuses, faults>>

\* Where a claim is in executeOwnedJob, or in deliverJob.
ExecPhase    == {"starting", "admitting", "turn", "settled", "retrying", "failing"}
DeliverPhase == {"preparing", "sending", "finishing", "requeueing"}
Phase == {"idle", "closed", "claimed", "acquiring"} \cup ExecPhase \cup DeliverPhase

\* An outstanding jobs.renew: sent, or executed with its answer on the way.
RenewState == {"none", "sent", "applied", "refused", "unconfirmed"}

Lease == [phase    : Phase,
          job      : Job \cup {NoJob},
          kind     : {"execute", "deliver"},
          attempt  : Nat,               \* job.attempts, or job.replyAttempts
          deadline : Past..LeaseMs,     \* leaseDeadline
          aborted  : BOOLEAN,           \* controller.abort() was called
          outcome  : Outcome,           \* execute()'s result, or job.result
          renew    : RenewState,
          renewAge : 0..LeaseMs]

IdleLease == [phase |-> "idle", job |-> NoJob, kind |-> "execute", attempt |-> 0,
              deadline |-> Past, aborted |-> FALSE,
              outcome |-> "none", renew |-> "none", renewAge |-> 0]

Open(o) == lease[o].phase \notin {"idle", "closed"}

TypeOK ==
    /\ JobsTypeOK
    /\ lease \in [Owner -> Lease]
    /\ submits \in [Job -> Nat]
    /\ excuses \in [Job -> Nat]
    /\ faults \in 0..MaxFaults

Init ==
    /\ JobsInit
    /\ lease = [o \in Owner |-> IdleLease]
    /\ submits = [j \in Job |-> 0]
    /\ excuses = [j \in Job |-> 0]
    /\ faults = 0

----------------------------------------------------------------------------
(* Helpers.                                                                *)

At(o, p)  == lease[o].phase = p
JobOf(o)  == lease[o].job
Goto(o, p) == lease' = [lease EXCEPT ![o].phase = p]

\* The finally of withLease.  A renewal that is still outstanding outlives it.
Ended(l) == IF l.renew = "none" THEN IdleLease ELSE [l EXCEPT !.phase = "closed"]
End(o)   == lease' = [lease EXCEPT ![o] = Ended(@)]

Fault(kind) ==
    /\ kind \in FaultKinds
    /\ faults < MaxFaults
    /\ faults' = faults + 1

\* assertOwned() returns: the lease is neither lost, nor over, nor stopping.
Owned(o) == ~lease[o].aborted /\ lease[o].deadline > 0

\* Slip: a storage error retried after submission.
WillRetryAnyPhase(error, submitted, attempt) ==
    error \in {"network", "store"} /\ attempt < MaxAttempts

\* retryableError(error, { submitted }) && job.attempts < maxAttempts.  Busy
\* threads, failed turns, commit_unknown and unclassified errors are "fatal".
WillRetry(error, submitted, attempt) ==
    /\ \/ error = "network"
       \/ error = "store" /\ ~submitted
    /\ attempt < MaxAttempts

\* The catch block of executeOwnedJob up to its next await; submitted is
\* "admitted || executed".
CatchPhase(o, error, submitted) ==
    IF WillRetry(error, submitted, lease[o].attempt) THEN "retrying" ELSE "failing"

Catch(o, error, submitted) ==
    /\ lease' = [lease EXCEPT ![o] =
                    IF Owned(o)
                    THEN [@ EXCEPT !.phase = CatchPhase(o, error, submitted)]
                    ELSE Ended(@)]
    /\ excuses' = IF /\ Owned(o) /\ error = "network" /\ submitted
                     /\ WillRetry(error, submitted, lease[o].attempt)
                  THEN [excuses EXCEPT ![JobOf(o)] = @ + 1] ELSE excuses

----------------------------------------------------------------------------
(* Registration and claims.                                                *)

Register(j) ==
    /\ \E notBefore \in 0..RetryDelay : Upsert(j, notBefore)
    /\ UNCHANGED <<lease, submits, excuses, faults>>

Claim(o, j) ==
    /\ At(o, "idle")
    /\ \E lag \in Lag :
          /\ ClaimById(j, o, lag)
          /\ lease' = [lease EXCEPT ![o] =
                 [IdleLease EXCEPT !.phase = "claimed", !.job = j,
                      !.attempt = row[j].attempts + 1, !.deadline = LeaseMs - lag]]
    /\ excuses' = IF row[j].status = "running"
                  THEN [excuses EXCEPT ![j] = @ + 1] ELSE excuses
    /\ UNCHANGED <<submits, faults>>

ClaimReply(o, j) ==
    /\ At(o, "idle")
    /\ \E lag \in Lag :
          /\ ClaimReplyById(j, o, lag)
          /\ lease' = [lease EXCEPT ![o] =
                 [IdleLease EXCEPT !.phase = "claimed", !.job = j, !.kind = "deliver",
                      !.attempt = row[j].replyAttempts + 1, !.outcome = row[j].result,
                      !.deadline = LeaseMs - lag]]
    /\ UNCHANGED <<submits, excuses, faults>>

----------------------------------------------------------------------------
(* withLease: the first renewal, the heartbeat and the expiry timer.       *)

SentRenewal(l) == [l EXCEPT !.renew = "sent", !.renewAge = 0]

FirstRenewal(o) ==
    /\ At(o, "claimed")
    /\ lease' = [lease EXCEPT ![o] =
                    IF Owned(o) THEN SentRenewal([@ EXCEPT !.phase = "acquiring"])
                                ELSE Ended(@)]
    /\ UNCHANGED <<row, submits, excuses, faults>>

\* The timers run while withLease is open and its first renewal is confirmed.
TimersArmed(o) ==
    /\ ~lease[o].aborted
    /\ lease[o].phase \in ExecPhase \cup (DeliverPhase \ {"requeueing"})

\* The heartbeat fires some time after the last confirmed renewal.
Heartbeat(o) ==
    /\ TimersArmed(o)
    /\ lease[o].renew = "none" /\ lease[o].deadline < LeaseMs
    /\ lease' = [lease EXCEPT ![o] =
                    IF @.deadline > 0 THEN SentRenewal(@) ELSE [@ EXCEPT !.aborted = TRUE]]
    /\ UNCHANGED <<row, submits, excuses, faults>>

Expiry(o) ==
    /\ TimersArmed(o) /\ lease[o].deadline <= 0
    /\ lease' = [lease EXCEPT ![o].aborted = TRUE]
    /\ UNCHANGED <<row, submits, excuses, faults>>

\* The database executes the renewal; it read its `at' after requestStarted.
RenewExecutes(o) ==
    /\ lease[o].renew = "sent"
    /\ \E lag \in Lag :
          /\ lag <= lease[o].renewAge
          /\ \/ /\ Renew(JobOf(o), o, lag)
                /\ lease' = [lease EXCEPT ![o].renew = "applied"]
             \/ /\ ~Renewable(JobOf(o), o, lag)
                /\ lease' = [lease EXCEPT ![o].renew = "refused"]
                /\ UNCHANGED row
    /\ UNCHANGED <<submits, excuses, faults>>

\* A transient error, commit_unknown included: it may have been executed.
RenewUnconfirmed(o) ==
    /\ lease[o].renew \in {"sent", "applied"}
    /\ Fault("renew")
    /\ lease' = [lease EXCEPT ![o].renew = "unconfirmed"]
    /\ UNCHANGED <<row, submits, excuses>>

\* renewed(requestStarted) extends the deadline only from a live lease.
Confirmed(l) == /\ l.renew = "applied" /\ ~l.aborted
                /\ l.deadline > 0 /\ l.renewAge < LeaseMs

Settled(l) == [l EXCEPT !.renew = "none", !.renewAge = 0]
ExtendedFromNow(l) == [Settled(l) EXCEPT !.deadline = LeaseMs]    \* slip: counts from the answer
Extended(l) == [Settled(l) EXCEPT !.deadline = LeaseMs - l.renewAge]

FirstPhase(l) == IF l.kind = "execute" THEN "starting" ELSE "preparing"

\* Only deliverJob turns a failed first renewal into a markRetry.
AfterFirstRenewal(l) ==
    IF Confirmed(l) THEN [Extended(l) EXCEPT !.phase = FirstPhase(l)]
    ELSE IF l.renew = "unconfirmed" /\ l.kind = "deliver"
    THEN [Settled(l) EXCEPT !.phase = "requeueing"]
    ELSE Ended(Settled(l))

AfterHeartbeat(l) ==
    IF Confirmed(l) THEN Extended(l)
    ELSE [Settled(l) EXCEPT !.aborted = l.aborted \/ l.renew # "unconfirmed" \/ l.deadline <= 0]

RenewReturns(o) ==
    /\ lease[o].renew \in {"applied", "refused", "unconfirmed"}
    /\ lease' = [lease EXCEPT ![o] =
                    CASE @.phase = "closed"    -> IdleLease
                      [] @.phase = "acquiring" -> AfterFirstRenewal(@)
                      [] OTHER                 -> AfterHeartbeat(@)]
    /\ UNCHANGED <<row, submits, excuses, faults>>

----------------------------------------------------------------------------
(* executeOwnedJob.                                                        *)

\* feedback.start, then assertOwned.
Begin(o) ==
    /\ At(o, "starting")
    /\ IF Owned(o) THEN Goto(o, "admitting") ELSE End(o)
    /\ UNCHANGED <<row, submits, excuses, faults>>

BeginFails(o) ==
    /\ At(o, "starting")
    /\ \E error \in ExecErrors : Catch(o, error, FALSE)
    /\ UNCHANGED <<row, submits, faults>>

\* onStartIntent, then turn/start.  The executor looks at the abort signal
\* only: it does not compare the clock with the deadline.
StartTurn(o) ==
    /\ At(o, "admitting") /\ ~lease[o].aborted
    /\ Goto(o, "turn")
    /\ submits' = [submits EXCEPT ![JobOf(o)] = @ + 1]
    /\ UNCHANGED <<row, excuses, faults>>

\* The turn an earlier attempt started in this process is taken over.
TakeOverTurn(o) ==
    /\ At(o, "admitting") /\ ~lease[o].aborted /\ submits[JobOf(o)] > 0
    /\ Goto(o, "turn")
    /\ UNCHANGED <<row, submits, excuses, faults>>

\* execute() resolved: assertOwned, then the awaits before the result is stored.
Resolve(o, outcome) ==
    lease' = [lease EXCEPT ![o] =
                 IF Owned(o) THEN [@ EXCEPT !.phase = "settled", !.outcome = outcome]
                             ELSE Ended(@)]

\* The receipt of an earlier attempt's turn answers without a new turn.
FindReceipt(o) ==
    /\ At(o, "admitting") /\ submits[JobOf(o)] > 0
    /\ Resolve(o, "answer")
    /\ UNCHANGED <<row, submits, excuses, faults>>

\* The prompt was steered into the active turn of another message.
SteerIntoTurn(o) ==
    /\ At(o, "admitting") /\ ~lease[o].aborted
    /\ Resolve(o, "deferred")
    /\ UNCHANGED <<row, submits, excuses, faults>>

AdmissionFails(o) ==
    /\ At(o, "admitting")
    /\ \E error \in ExecErrors : Catch(o, error, FALSE)
    /\ UNCHANGED <<row, submits, faults>>

TurnCompletes(o) ==
    /\ At(o, "turn") /\ ~lease[o].aborted
    /\ Resolve(o, "answer")
    /\ UNCHANGED <<row, submits, excuses, faults>>

\* A failed or interrupted turn is "fatal".
TurnFails(o) ==
    /\ At(o, "turn")
    /\ \E error \in ExecErrors : Catch(o, error, TRUE)
    /\ UNCHANGED <<row, submits, faults>>

\* checkCallerSignal, or the wait for the turn, throws.
ExecutorAborts(o) ==
    /\ lease[o].phase \in {"admitting", "turn"} /\ lease[o].aborted
    /\ End(o)
    /\ UNCHANGED <<row, submits, excuses, faults>>

\* inbound.markForwarded or feedback.prepare throws.
SettleFails(o) ==
    /\ At(o, "settled")
    /\ \E error \in ExecErrors \ {"network"} : Catch(o, error, TRUE)
    /\ UNCHANGED <<row, submits, faults>>

----------------------------------------------------------------------------
(* The writes that end an execution.  Each is acknowledged, refused because *)
(* the row is no longer held, or fails with or without having been applied. *)

RecordAnswer(o, lag)   == MarkReplyPending(JobOf(o), o, lag, "answer", lease[o].attempt)
RecordDeferred(o, lag) == MarkFinishedWithoutReply(JobOf(o), o, lag, lease[o].attempt)
RecordFailure(o, lag)  == MarkReplyPending(JobOf(o), o, lag, "failure", lease[o].attempt)
PostponeHeld(o, lag)   == MarkRetry(JobOf(o), o, lag, "held", RetryDelay)     \* slip
Postpone(o, lag)       == MarkRetry(JobOf(o), o, lag, "pending", RetryDelay)
RedeliverAfresh(o, lag) == MarkRetry(JobOf(o), o, lag, "pending", RetryDelay) \* slip: no replyPending
Redeliver(o, lag)      == MarkRetry(JobOf(o), o, lag, "reply_pending", RetryDelay)
FinishReply(o, lag)    == MarkFinished(JobOf(o), o, lag, StatusFor(lease[o].outcome))

\* affectedRows = 0: assertLease throws forward_lease_lost.
MayBeRefused(o, statuses) ==
    \E lag \in Lag : ~HeldBy(JobOf(o), o, lag) \/ row[JobOf(o)].status \notin statuses

SettledWrite(o, lag) ==
    \/ lease[o].outcome = "answer"   /\ RecordAnswer(o, lag)
    \/ lease[o].outcome = "deferred" /\ RecordDeferred(o, lag)

Record(o) ==
    /\ At(o, "settled")
    /\ \/ \E lag \in Lag : SettledWrite(o, lag)
       \/ MayBeRefused(o, {"running"}) /\ UNCHANGED row
    /\ End(o)
    /\ UNCHANGED <<submits, excuses, faults>>

\* commit_unknown is fatal; the other storage errors came after submission.
RecordFails(o) ==
    /\ At(o, "settled")
    /\ Fault("write")
    /\ \/ (\E lag \in Lag : SettledWrite(o, lag)) /\ Catch(o, "fatal", TRUE)
       \/ UNCHANGED row /\ Catch(o, "store", TRUE)
    /\ UNCHANGED submits

\* markRetry: the job waits for its next attempt.  An error leaves the row as
\* it is, running under a lease nobody renews.
Retry(o) ==
    /\ At(o, "retrying")
    /\ \/ (\E lag \in Lag : Postpone(o, lag)) /\ UNCHANGED faults
       \/ MayBeRefused(o, {"running", "reply_pending"}) /\ UNCHANGED <<row, faults>>
       \/ Fault("write") /\ ((\E lag \in Lag : Postpone(o, lag)) \/ UNCHANGED row)
    /\ End(o)
    /\ UNCHANGED <<submits, excuses>>

\* markReplyPending with the failure reply.
Fail(o) ==
    /\ At(o, "failing")
    /\ \/ (\E lag \in Lag : RecordFailure(o, lag)) /\ UNCHANGED faults
       \/ MayBeRefused(o, {"running"}) /\ UNCHANGED <<row, faults>>
       \/ Fault("write") /\ ((\E lag \in Lag : RecordFailure(o, lag)) \/ UNCHANGED row)
    /\ End(o)
    /\ UNCHANGED <<submits, excuses>>

----------------------------------------------------------------------------
(* deliverJob.                                                             *)

\* replies.prepare and feedback.finish, each followed by assertOwned.
Prepare(o) ==
    /\ At(o, "preparing")
    /\ IF Owned(o) THEN Goto(o, "sending") ELSE End(o)
    /\ UNCHANGED <<row, submits, excuses, faults>>

\* The card of a silent answer could not be closed: the reply is tried again
\* within the attempt limit.
RetrySilent(o) ==
    /\ At(o, "preparing") /\ Owned(o)
    /\ lease[o].outcome = "answer" /\ lease[o].attempt < MaxAttempts
    /\ \/ (\E lag \in Lag : Redeliver(o, lag)) /\ End(o) /\ UNCHANGED faults
       \/ MayBeRefused(o, {"running", "reply_pending"}) /\ End(o) /\ UNCHANGED <<row, faults>>
       \/ /\ Fault("write")
          /\ (\E lag \in Lag : Redeliver(o, lag)) \/ UNCHANGED row
          /\ Goto(o, "requeueing")
    /\ UNCHANGED <<submits, excuses>>

\* replies.deliver: assertOwned before each message and after the last.
Send(o) ==
    /\ At(o, "sending")
    /\ IF Owned(o) THEN Goto(o, "finishing") ELSE End(o)
    /\ UNCHANGED <<row, submits, excuses, faults>>

DeliveryFails(o) ==
    /\ lease[o].phase \in {"preparing", "sending"}
    /\ Fault("delivery")
    /\ Goto(o, "requeueing")
    /\ UNCHANGED <<row, submits, excuses>>

Finish(o) ==
    /\ At(o, "finishing")
    /\ \/ (\E lag \in Lag : FinishReply(o, lag)) /\ End(o) /\ UNCHANGED faults
       \/ MayBeRefused(o, {"reply_pending"}) /\ End(o) /\ UNCHANGED <<row, faults>>
       \/ /\ Fault("write")
          /\ (\E lag \in Lag : FinishReply(o, lag)) \/ UNCHANGED row
          /\ Goto(o, "requeueing")
    /\ UNCHANGED <<submits, excuses>>

\* The catch block: withLease is over, only the row decides.
Requeue(o) ==
    /\ At(o, "requeueing")
    /\ \/ (\E lag \in Lag : Redeliver(o, lag)) /\ UNCHANGED faults
       \/ MayBeRefused(o, {"running", "reply_pending"}) /\ UNCHANGED <<row, faults>>
       \/ Fault("write") /\ ((\E lag \in Lag : Redeliver(o, lag)) \/ UNCHANGED row)
    /\ End(o)
    /\ UNCHANGED <<submits, excuses>>

----------------------------------------------------------------------------
(* The process and the clock.                                              *)

\* beginStop calls stopLease of every open withLease.
Stop(o) ==
    /\ Open(o) /\ ~At(o, "requeueing") /\ ~lease[o].aborted
    /\ Fault("stop")
    /\ lease' = [lease EXCEPT ![o].aborted = TRUE]
    /\ UNCHANGED <<row, submits, excuses>>

Crash(o) ==
    /\ ~At(o, "idle")
    /\ Fault("crash")
    /\ lease' = [lease EXCEPT ![o] = IdleLease]
    /\ UNCHANGED <<row, submits, excuses>>

\* A tick that ends a live lease is a stall of its process: with prompt
\* renewals the heartbeat, due after a third of the lease, comes first.
Stalled(o) ==
    /\ lease[o].deadline = 1 /\ ~lease[o].aborted
    /\ TimersArmed(o) \/ lease[o].phase \in {"claimed", "acquiring"}

Older(l) == [l EXCEPT !.deadline = Elapsed(@),
                      !.renewAge = IF l.renew # "none" /\ @ < LeaseMs THEN @ + 1 ELSE @]

Tick ==
    /\ Elapse
    /\ lease' = [o \in Owner |-> Older(lease[o])]
    /\ IF \E o \in Owner : Stalled(o) THEN Fault("stall") ELSE UNCHANGED faults
    /\ UNCHANGED <<submits, excuses>>

----------------------------------------------------------------------------
Execution(o) ==
    \/ Begin(o) \/ BeginFails(o)
    \/ StartTurn(o) \/ TakeOverTurn(o) \/ FindReceipt(o) \/ SteerIntoTurn(o)
    \/ AdmissionFails(o) \/ TurnCompletes(o) \/ TurnFails(o) \/ ExecutorAborts(o)
    \/ SettleFails(o) \/ Record(o) \/ RecordFails(o) \/ Retry(o) \/ Fail(o)

Delivery(o) ==
    \/ Prepare(o) \/ RetrySilent(o) \/ Send(o) \/ DeliveryFails(o)
    \/ Finish(o) \/ Requeue(o)

Timers(o) == Heartbeat(o) \/ Expiry(o)
Renewal(o) == RenewExecutes(o) \/ RenewUnconfirmed(o) \/ RenewReturns(o)

Next ==
    \/ \E j \in Job : Register(j)
    \/ \E o \in Owner, j \in Job : Claim(o, j) \/ ClaimReply(o, j)
    \/ \E o \in Owner :
          \/ FirstRenewal(o) \/ Timers(o) \/ Renewal(o)
          \/ Execution(o) \/ Delivery(o)
          \/ Stop(o) \/ Crash(o)
    \/ Tick

Spec == Init /\ [][Next]_vars

(***************************************************************************)
(* Fairness.  The event loop runs every callback that is ready, and every  *)
(* promise of the executor settles: each turn has a timeout, and execute   *)
(* one of its own.  The recovery loop claims whatever is claimable each    *)
(* pollMs, a process is restarted when it dies, and time passes.           *)
(***************************************************************************)
Fairness ==
    /\ \A o \in Owner :
          /\ WF_vars(FirstRenewal(o))
          /\ WF_vars(Execution(o) \/ Delivery(o))
          /\ WF_vars(Timers(o))
          /\ WF_vars(Renewal(o))
    /\ \A j \in Job : WF_vars(\E o \in Owner : Claim(o, j) \/ ClaimReply(o, j))
    /\ WF_vars(Tick)

FairSpec == Spec /\ Fairness

----------------------------------------------------------------------------
(* Properties.                                                             *)

\* The phases in which a claim acts on the strength of its last assertOwned,
\* before any write of its own that may have given the lease up.
Working == {"claimed", "acquiring", "starting", "admitting", "turn", "settled",
            "retrying", "preparing", "sending", "finishing"}

StatusOfKind(kind) == IF kind = "execute" THEN "running" ELSE "reply_pending"

\* A claim whose local deadline is ahead holds the row at least as long: the
\* deadline withLease keeps never outlives lease_expires_at, whatever was
\* lost, late or unconfirmed on the way.
LeaseBacked ==
    \A o \in Owner : lease[o].phase \in Working /\ lease[o].deadline > 0 =>
        /\ row[JobOf(o)].owner = o
        /\ row[JobOf(o)].status = StatusOfKind(lease[o].kind)
        /\ row[JobOf(o)].leaseExpires >= lease[o].deadline

\* No two claims of one job are ever both past assertOwned: a job has one
\* executor, or one deliverer, and never one of each.
SoleOwner ==
    \A o1, o2 \in Owner :
        /\ lease[o1].phase \in Working /\ lease[o1].deadline > 0
        /\ lease[o2].phase \in Working /\ lease[o2].deadline > 0
        /\ JobOf(o1) = JobOf(o2)
        => o1 = o2

\* The recorded result is that of the last attempt: an attempt that was
\* superseded, however late it ends, never records its result.
ResultOfLastAttempt ==
    \A j \in Job : row[j].status \in Recorded => row[j].resultBy = row[j].attempts

\* A queued job has an attempt left: maxAttempts bounds the retries, and only
\* an expired lease takes a job beyond it.
QueuedHasAttemptLeft ==
    \A j \in Job : row[j].status = "pending" => row[j].attempts < MaxAttempts

\* A turn is submitted again only after a lease that expired or an error of
\* the transport after submission: a storage error after submission, which
\* retryableError must not retry, is never the cause.
ResubmitHasCause == \A j \in Job : submits[j] <= 1 + excuses[j]

\* Once a result is recorded no claim can execute the job again, change the
\* result, or reopen it once its reply is finished.
RecordKept ==
    \A j \in Job : row[j].status \in Recorded =>
        /\ row'[j].status \in Recorded
        /\ row'[j].result = row[j].result
        /\ row[j].status \in Finished => row'[j].status = row[j].status

RecordedIsFinal == [][RecordKept]_vars

\* The final status tells what was recorded, whichever claim delivered it.
FinishedAsRecorded ==
    \A j \in Job : row[j].status \in Finished => row[j].status = StatusFor(row[j].result)

\* What a query of the runs shows; leases, claims and times are hidden.
Queue == INSTANCE JobQueue WITH
    job <- [j \in Job |-> [status   |-> row[j].status,
                           attempts |-> row[j].attempts,
                           result   |-> row[j].result]]

\* The worker implements the queue: every claim, renewal, write and fault of
\* any claim is one step of JobQueue, or none.
ImplementsQueue == Queue!Spec

\* Every registered job ends, whatever faults hit it, once they stop.
EventuallyFinished ==
    \A j \in Job \ Isolated : row[j].status = "pending" ~> row[j].status \in Finished

\* docs/storage.md: an unknown native admission is not eligible for
\* automatic re-execution.
UnknownAdmissionNotRequeued ==
    \A j \in Job : row[j].status = "pending" => submits[j] = 0

\* docs/runtime.md: after submission a storage error ends the job with the
\* failure reply, and the turn never runs a second time.
TurnNeverRunsTwice == \A j \in Job : submits[j] <= 1
=============================================================================

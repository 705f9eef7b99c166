---------------------------- MODULE BridgeQueue ----------------------------
(***************************************************************************)
(* The durable queues of storage/store.mjs that the communication worker   *)
(* serves: hook jobs (bridge_jobs) and chat effects (bridge_outbox).  Each *)
(* operation is one transaction, so one step.  The hook jobs are those of  *)
(* one conversation and one hook_id, the scope in which they are ordered;  *)
(* a hook job is its sequence number.                                      *)
(*                                                                         *)
(* Instants are held relative to the present, in ticks: 0 is now or past.  *)
(* A lease token is the pair of its owner and of the attempt it was given  *)
(* to: attempts grows with every committed claim.                          *)
(***************************************************************************)
EXTENDS Naturals

CONSTANTS
    Hook,           \* sequence numbers of the hook jobs
    Effect,         \* rows of the outbox
    Resend,         \* effects of kind create, reply or artifact_send
    Pred,           \* predecessor_id of each effect, or NoEffect
    NoEffect,
    Owner,          \* processes, as lease_owner
    NoOwner,
    LeaseMs,        \* leaseMs of the worker
    RetryMs,        \* longest delay before next_attempt_at
    ResendMs,       \* OUTBOX_UNKNOWN_RETRY_MS
    MaxAttempts     \* attempts after which a hook job fails

ASSUME QueueAssumption ==
    /\ Hook \subseteq Nat /\ Hook \cap Effect = {}
    /\ Resend \subseteq Effect
    /\ NoEffect \notin Effect /\ Pred \in [Effect -> Effect \cup {NoEffect}]
    /\ NoOwner \notin Owner
    /\ LeaseMs \in Nat \ {0} /\ RetryMs \in Nat /\ ResendMs \in Nat
    /\ MaxAttempts \in Nat \ {0}

VARIABLE row

----------------------------------------------------------------------------
Item == Hook \cup Effect

\* "hidden": inserted by a registration that has not committed.
\* "aborted": a sequence number whose registration was rolled back.
HookStatus   == {"absent", "hidden", "aborted", "pending", "running", "succeeded", "failed"}
EffectStatus == {"absent", "pending", "running", "unknown", "sent", "failed"}
Done         == {"succeeded", "failed", "sent"}

Row == [status       : HookStatus \cup EffectStatus,
        attempts     : Nat,
        owner        : Owner \cup {NoOwner},
        leaseExpires : 0..LeaseMs,
        nextAttempt  : 0..RetryMs,
        age          : 0..ResendMs]     \* since first_attempt_at, at most ResendMs

AbsentRow == [status |-> "absent", attempts |-> 0, owner |-> NoOwner,
              leaseExpires |-> 0, nextAttempt |-> 0, age |-> 0]

RowsTypeOK ==
    /\ row \in [Item -> Row]
    /\ \A h \in Hook : row[h].status \in HookStatus
    /\ \A e \in Effect : row[e].status \in EffectStatus
RowsInit   == row = [r \in Item |-> AbsentRow]

----------------------------------------------------------------------------
(* Registration.                                                           *)

\* Slip: sequences are allocated without lockRegistration.
Unlocked(h) == \A x \in Hook : x < h => row[x].status # "absent"

\* lockRegistration: one registration at a time, and sequences only grow.
MayAllocate(h) == \A x \in Hook :
    /\ x < h => row[x].status # "absent"
    /\ row[x].status # "hidden"

\* acceptInbound inserts the job, and commits or rolls back later.
Allocate(h) ==
    /\ row[h].status = "absent" /\ MayAllocate(h)
    /\ row' = [row EXCEPT ![h].status = "hidden"]

EndRegistration(h) ==
    /\ row[h].status = "hidden"
    /\ \E s \in {"pending", "aborted"} : row' = [row EXCEPT ![h].status = s]

\* insertOutbox refuses an effect whose predecessor is not there.
RecordOutbox(e) ==
    /\ row[e].status = "absent"
    /\ Pred[e] # NoEffect => row[Pred[e]].status # "absent"
    /\ row' = [row EXCEPT ![e].status = "pending"]

----------------------------------------------------------------------------
(* Claims.                                                                 *)

\* HOOK_PREDECESSOR_SQL, over the rows a transaction can see.
NoEarlierOpen(h) == \A x \in Hook : x < h => row[x].status \notin {"pending", "running"}

HookDue(h) ==
    /\ \/ row[h].status = "pending" /\ row[h].nextAttempt = 0
       \/ row[h].status = "running" /\ row[h].leaseExpires = 0
    /\ NoEarlierOpen(h)

\* OUTBOX_PREDECESSOR_SQL; slip: a predecessor that has left the queue.
PredecessorTried(rows, e) == Pred[e] # NoEffect => rows[Pred[e]].attempts > 0
PredecessorSent(rows, e) == Pred[e] # NoEffect => rows[Pred[e]].status = "sent"

\* An uncertain send is repeated only for some kinds, for some time.
Resendable(rows, e) ==
    /\ rows[e].status = "unknown" /\ e \in Resend
    /\ rows[e].age < ResendMs /\ rows[e].nextAttempt = 0

EffectDue(rows, e) ==
    /\ \/ rows[e].status = "pending" /\ rows[e].nextAttempt = 0
       \/ Resendable(rows, e)
    /\ PredecessorSent(rows, e)

\* A send lease that ran out is ambiguous.
Lapsed(rows) == {e \in Effect : rows[e].status = "running" /\ rows[e].leaseExpires = 0}
ExpireNone(rows) == rows                        \* slips: nothing expires; it is
LapsedReset(rows) ==                            \* taken for unsent
    [r \in Item |-> IF r \in Lapsed(rows)
                    THEN [rows[r] EXCEPT !.status = "pending", !.owner = NoOwner] ELSE rows[r]]
ExpireOutbox(rows) ==
    [r \in Item |-> IF r \in Lapsed(rows)
                    THEN [rows[r] EXCEPT !.status = "unknown", !.owner = NoOwner] ELSE rows[r]]

Claimed(rows, r, o) ==
    [rows EXCEPT ![r] = [rows[r] EXCEPT !.status = "running", !.owner = o,
                                        !.attempts = rows[r].attempts + 1,
                                        !.leaseExpires = LeaseMs]]

\* claimJobs and claimOutbox: the tables a claim of r may lead to.  The latter
\* first expires send leases, at most every 5 s.
ClaimResults(r, o) ==
    IF r \in Hook THEN {rows \in {Claimed(row, r, o)} : HookDue(r)}
    ELSE {Claimed(base, r, o) : base \in {b \in {row, ExpireOutbox(row)} : EffectDue(b, r)}}

----------------------------------------------------------------------------
(* Operations under a lease.                                               *)

OwnedByTime(r, o, n) == row[r].leaseExpires > 0 \* slip: the token is not compared
Owned(r, o, n) ==
    /\ row[r].owner = o /\ row[r].attempts = n
    /\ row[r].status = "running" /\ row[r].leaseExpires > 0

Settled(r, status, delay) ==
    [row EXCEPT ![r] = [row[r] EXCEPT !.status = status, !.owner = NoOwner,
                                      !.nextAttempt = delay]]

\* Slip: a given-up hook is left unknown.
UnacknowledgedUnknown(n) == IF n >= MaxAttempts THEN "unknown" ELSE "pending"
Unacknowledged(n) == IF n >= MaxAttempts THEN "failed" ELSE "pending"

\* finishJobWithOutbox and retryJob of a hook; settleOutbox of an effect.
Outcome(r, n, result) ==
    CASE r \in Hook /\ result = "ok"       -> Settled(r, "succeeded", 0)
      [] r \in Hook /\ result # "ok"       -> Settled(r, Unacknowledged(n), RetryMs)
      [] r \in Effect /\ result = "ok"     -> Settled(r, "sent", 0)
      [] r \in Effect /\ result = "failed" -> Settled(r, "failed", RetryMs)
      [] OTHER                             -> Settled(r, "unknown", RetryMs)

\* One tick of the clock.
Less(x) == IF x > 0 THEN x - 1 ELSE 0
Elapse ==
    row' = [r \in Item |->
        [row[r] EXCEPT !.leaseExpires = Less(row[r].leaseExpires),
                       !.nextAttempt  = Less(row[r].nextAttempt),
                       !.age = IF row[r].attempts > 0 /\ row[r].age < ResendMs
                               THEN row[r].age + 1 ELSE row[r].age]]
============================================================================

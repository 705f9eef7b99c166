------------------------ MODULE CommunicationWorker ------------------------
(***************************************************************************)
(* The worker of core/communication-runtime.mjs over BridgeQueue: the      *)
(* claim loop with the recovery of claims whose COMMIT was not             *)
(* acknowledged (pendingClaims of store.mjs), the delivery of hooks and    *)
(* chat effects, their settlement, and the classification of storage       *)
(* errors that decides whether the worker goes on.                         *)
(*                                                                         *)
(* A process is an Owner; when it dies, or is restarted by the health      *)
(* watchdog, what it held in memory is gone.                               *)
(***************************************************************************)
EXTENDS BridgeQueue, FiniteSets

CONSTANTS
    NoItem,
    MaxActive,      \* deliveries one process runs at a time
    DeliveryMs,     \* longest delivery, from its start to its settlement
    MaxFaults,      \* bound: how many faults may happen
    FaultKinds      \* subset of AllFaults

AllFaults == {"storage", "crash", "stall"}

ASSUME WorkerAssumption ==
    /\ NoItem \notin Item
    /\ MaxActive \in Nat \ {0} /\ DeliveryMs \in Nat
    /\ MaxFaults \in Nat /\ FaultKinds \subseteq AllFaults

VARIABLES
    healthy,        \* the flag of each process
    pending,        \* pendingClaims: one per table and process
    tasks,          \* deliveries under way
    ran,            \* history: the claims whose delivery was carried out
    faults

vars == <<row, healthy, pending, tasks, ran, faults>>

Table   == {"bridge_jobs", "bridge_outbox"}
TableOf(r) == IF r \in Hook THEN "bridge_jobs" ELSE "bridge_outbox"

Result == {"none", "ok", "failed", "unknown"}
Claim  == [item : Item \cup {NoItem}, attempt : Nat]
NoClaim == [item |-> NoItem, attempt |-> 0]
\* age: ticks since the delivery started; result "none": not carried out yet.
Task   == [item : Item, attempt : Nat, result : Result, age : Nat]

TypeOK ==
    /\ RowsTypeOK
    /\ healthy \in [Owner -> BOOLEAN]
    /\ pending \in [Owner -> [Table -> Claim]]
    /\ tasks \in [Owner -> SUBSET Task]
    /\ ran \subseteq Item \X Nat
    /\ faults \in 0..MaxFaults

Init ==
    /\ RowsInit
    /\ healthy = [o \in Owner |-> TRUE]
    /\ pending = [o \in Owner |-> [t \in Table |-> NoClaim]]
    /\ tasks = [o \in Owner |-> {}]
    /\ ran = {}
    /\ faults = 0

----------------------------------------------------------------------------
Fault(kind) ==
    /\ kind \in FaultKinds
    /\ faults < MaxFaults
    /\ faults' = faults + 1

Launched(r, n) == [item |-> r, attempt |-> n, result |-> "none", age |-> 0]
Launch(o, r, n) == tasks' = [tasks EXCEPT ![o] = @ \cup {Launched(r, n)}]
EndTask(o, t)   == tasks' = [tasks EXCEPT ![o] = @ \ {t}]
Forget(o, table) == pending' = [pending EXCEPT ![o][table] = NoClaim]

Register ==
    /\ \/ \E h \in Hook : Allocate(h) \/ EndRegistration(h)
       \/ \E e \in Effect : RecordOutbox(e)
    /\ UNCHANGED <<healthy, pending, tasks, ran, faults>>

\* The loop counts the deliveries under way before claimJobs, and not again
\* before claimOutbox.
Polls(o, table) ==
    /\ healthy[o]
    /\ Cardinality(tasks[o]) < (IF table = "bridge_jobs" THEN MaxActive ELSE MaxActive + 1)

\* A claim that is not the recovery of an earlier one.
Claims(o, r) == Polls(o, TableOf(r)) /\ pending[o][TableOf(r)] = NoClaim

\* The worker stops while it awaits a claim: what was claimed is not launched.
DroppedClaims(o) == UNION {ClaimResults(r, o) : r \in {x \in Item : Claims(o, x)}}

ClaimAcked(o, r) ==
    /\ Claims(o, r)
    /\ row' \in ClaimResults(r, o)
    /\ Launch(o, r, row[r].attempts + 1)
    /\ UNCHANGED <<healthy, pending, ran, faults>>

\* commit_unknown: the claim is in the table or it is not.
ClaimUnknown(o, r) ==
    /\ Claims(o, r) /\ Fault("storage")
    /\ \E rows \in ClaimResults(r, o) : row' \in {row, rows}
    /\ pending' = [pending EXCEPT ![o][TableOf(r)] = [item |-> r, attempt |-> row[r].attempts + 1]]
    /\ UNCHANGED <<healthy, tasks, ran>>

\* The other half of claimOutbox, when no effect is due.
ExpireLeases(o) ==
    /\ Polls(o, "bridge_outbox")
    /\ pending[o]["bridge_outbox"] = NoClaim /\ Lapsed(row) # {}
    /\ row' = ExpireOutbox(row)
    /\ UNCHANGED <<healthy, pending, tasks, ran, faults>>

\* Slip: a recovered claim stays in pendingClaims.
RecoverKept(o, table) ==
    /\ Polls(o, table)
    /\ pending[o][table] # NoClaim
    /\ Owned(pending[o][table].item, o, pending[o][table].attempt)
    /\ Launch(o, pending[o][table].item, pending[o][table].attempt)
    /\ UNCHANGED <<row, healthy, pending, ran, faults>>

\* recover: the claim is found and still valid, or it is given up.  An error
\* of the confirming read leaves it for the next poll.
Recover(o, table) ==
    /\ Polls(o, table)
    /\ pending[o][table] # NoClaim
    /\ LET c == pending[o][table]
       IN IF Owned(c.item, o, c.attempt) THEN Launch(o, c.item, c.attempt) ELSE UNCHANGED tasks
    /\ Forget(o, table)
    /\ UNCHANGED <<row, healthy, ran, faults>>

\* The HTTP request of hook() or of deliver(): it is confirmed, refused for
\* certain (effects only), or its effect is unknown.
Deliver(o, t) ==
    /\ t \in tasks[o] /\ t.result = "none"
    /\ \E result \in {"ok", "failed", "unknown"} :
          /\ t.item \in Hook => result # "failed"
          /\ tasks' = [tasks EXCEPT ![o] = (@ \ {t}) \cup {[t EXCEPT !.result = result]}]
    /\ ran' = ran \cup {<<t.item, t.attempt>>}
    /\ UNCHANGED <<row, healthy, pending, faults>>

\* finishJobWithOutbox, retryJob or settleOutbox.  stale_lease is none of the
\* transient storage errors: recordStorageFailure stops the worker.
Settle(o, t) ==
    /\ t \in tasks[o] /\ t.result # "none"
    /\ IF Owned(t.item, o, t.attempt)
       THEN row' = Outcome(t.item, t.attempt, t.result) /\ UNCHANGED healthy
       ELSE /\ healthy' = [healthy EXCEPT ![o] = FALSE]
            /\ row' \in {row} \cup DroppedClaims(o)
    /\ EndTask(o, t)
    /\ UNCHANGED <<pending, ran, faults>>

\* A transient error: the durable lease reconciles the row.
SettleFails(o, t) ==
    /\ t \in tasks[o] /\ t.result # "none"
    /\ Fault("storage")
    /\ row' \in {row} \cup (IF Owned(t.item, o, t.attempt)
                            THEN {Outcome(t.item, t.attempt, t.result)} ELSE {})
    /\ EndTask(o, t)
    /\ UNCHANGED <<healthy, pending, ran>>

Restarted(o) ==
    /\ healthy' = [healthy EXCEPT ![o] = TRUE]
    /\ pending' = [pending EXCEPT ![o] = [t \in Table |-> NoClaim]]
    /\ tasks' = [tasks EXCEPT ![o] = {}]
    /\ UNCHANGED <<row, ran>>

Crash(o) == Fault("crash") /\ Restarted(o)

\* unhealthyExitMs: the process exits and its supervisor starts it again.
Watchdog(o) == ~healthy[o] /\ Restarted(o) /\ UNCHANGED faults

\* A delivery that takes longer than its time limits is a stall.
Overdue == \E o \in Owner : \E t \in tasks[o] : t.age >= DeliveryMs

Tick ==
    /\ Elapse
    /\ tasks' = [o \in Owner |-> {[t EXCEPT !.age = IF t.age <= DeliveryMs THEN t.age + 1
                                                                  ELSE t.age] : t \in tasks[o]}]
    /\ IF Overdue THEN Fault("stall") ELSE UNCHANGED faults
    /\ UNCHANGED <<healthy, pending, ran>>

Deliveries(o) == \E t \in tasks[o] : Deliver(o, t) \/ Settle(o, t)

Next ==
    \/ Register
    \/ \E o \in Owner, r \in Item : ClaimAcked(o, r) \/ ClaimUnknown(o, r)
    \/ \E o \in Owner, table \in Table : Recover(o, table)
    \/ \E o \in Owner : ExpireLeases(o) \/ Deliveries(o) \/ Crash(o) \/ Watchdog(o)
    \/ \E o \in Owner : \E t \in tasks[o] : SettleFails(o, t)
    \/ Tick

Spec == Init /\ [][Next]_vars

\* Requests have timeouts, the loop polls both tables, the watchdog and the
\* supervisor restart a stopped process, and time passes.
Fairness ==
    /\ \A o \in Owner :
          /\ WF_vars(Deliveries(o))
          /\ WF_vars(Watchdog(o))
          /\ WF_vars(ExpireLeases(o))
          /\ \A table \in Table : WF_vars(Recover(o, table))
    /\ \A r \in Item : WF_vars(\E o \in Owner : ClaimAcked(o, r))
    /\ \A h \in Hook : WF_vars(EndRegistration(h) /\ UNCHANGED <<healthy, pending, tasks, ran, faults>>)
    /\ WF_vars(Tick)

FairSpec == Spec /\ Fairness

----------------------------------------------------------------------------
(* Properties.                                                             *)

\* A hook job is claimed only after every earlier one of its conversation has
\* ended, those included whose registration was not visible at the time.
HooksInOrder ==
    \A h, x \in Hook : x < h /\ row[h].attempts > 0 =>
        row[x].status \in Done \cup {"aborted"}

\* An effect is claimed only after its predecessor was sent for certain.
EffectsInOrder ==
    \A e \in Effect : row[e].attempts > 0 /\ Pred[e] # NoEffect =>
        row[Pred[e]].status = "sent"

\* An effect the platform would not recognise as a repetition is sent at most
\* once, whatever crashes, lost acknowledgements and lapsed leases do.
SentAtMostOnce ==
    \A e \in Effect \ Resend : \A m, n \in 1..row[e].attempts :
        <<e, m>> \in ran /\ <<e, n>> \in ran => m = n

\* Each claim is carried out at most once: no claim is delivered by two tasks,
\* or again by a task that has yet to start.
EachClaimRunsOnce ==
    /\ \A o1, o2 \in Owner : \A t1 \in tasks[o1], t2 \in tasks[o2] :
          t1.item = t2.item /\ t1.attempt = t2.attempt => o1 = o2 /\ t1 = t2
    /\ \A o \in Owner : \A t \in tasks[o] :
          t.result = "none" => <<t.item, t.attempt>> \notin ran

\* A hook that waits has an attempt left.
HooksGiveUp == \A h \in Hook : row[h].status = "pending" => row[h].attempts < MaxAttempts

\* What has ended stays ended: no late settlement, claim or expiry reopens it.
EndIsFinal ==
    [][\A r \in Item : row[r].status \in Done => row'[r].status = row[r].status]_vars

\* Every hook job ends, and no effect stays pending or running for good
\* unless it waits for a predecessor that was not sent.
EveryRowEnds ==
    /\ \A h \in Hook : row[h].status = "pending" ~> row[h].status \in Done
    /\ \A e \in Effect : Pred[e] = NoEffect =>
          (row[e].status \in {"pending", "running"} ~>
              row[e].status \in {"sent", "failed", "unknown"})
=============================================================================

------------------------ MODULE ForwardRuntime_proofs ------------------------
(***************************************************************************)
(* Proofs, for every number of jobs and claims and every setting of the    *)
(* constants, of the safety properties of ForwardRuntime.  First the type  *)
(* invariant; then an inductive invariant, IInv, from which the others     *)
(* follow; last, on top of it, a count of the rights to submit a turn.     *)
(***************************************************************************)
EXTENDS ForwardRuntime, FiniteSetTheorems, TLAPS

----------------------------------------------------------------------------
(* Type correctness.                                                       *)

\* A field of a claim may be set to any value of its type.
LEMMA Fields ==
    ASSUME NEW l \in Lease
    PROVE  /\ \A x \in Phase : [l EXCEPT !.phase = x] \in Lease
           /\ \A x \in Past..LeaseMs : [l EXCEPT !.deadline = x] \in Lease
           /\ \A x \in BOOLEAN : [l EXCEPT !.aborted = x] \in Lease
           /\ \A x \in Outcome : [l EXCEPT !.outcome = x] \in Lease
           /\ \A x \in RenewState : [l EXCEPT !.renew = x] \in Lease
           /\ \A x \in 0..LeaseMs : [l EXCEPT !.renewAge = x] \in Lease
BY DEF Lease

\* The values the fields of a claim are set to.
LEMMA Values ==
    /\ {"none", "sent", "applied", "refused", "unconfirmed"} = RenewState
    /\ {"idle", "closed", "claimed", "acquiring"} \cup ExecPhase \cup DeliverPhase = Phase
    /\ {"starting", "admitting", "turn", "settled", "retrying", "failing"} = ExecPhase
    /\ {"preparing", "sending", "finishing", "requeueing"} = DeliverPhase
    /\ {"none", "answer", "failure", "deferred"} = Outcome
    /\ 0 \in 0..LeaseMs /\ Past \in Past..LeaseMs
    /\ \A lag \in Lag : LeaseMs - lag \in Past..LeaseMs
    /\ \A age \in 0..LeaseMs : LeaseMs - age \in Past..LeaseMs
BY TimingAssumption
   DEF RenewState, Phase, ExecPhase, DeliverPhase, Outcome, Past, Lag

\* A claim replaced by a well-typed one leaves the claims well typed.
LEMMA ClaimTyped ==
    ASSUME TypeOK, NEW o \in Owner, NEW l \in Lease, lease' = [lease EXCEPT ![o] = l]
    PROVE  lease' \in [Owner -> Lease]
BY DEF TypeOK

\* The end of withLease leaves a well-typed claim.
LEMMA EndTyped ==
    ASSUME NEW l \in Lease
    PROVE  IdleLease \in Lease /\ Ended(l) \in Lease
<1>1. IdleLease \in Lease
  BY RuntimeAssumption, Values DEF Lease, IdleLease
<1>2. QED
  BY <1>1, Fields, Values DEF Ended

\* The records a renewal makes of a claim.
LEMMA RenewalTyped ==
    ASSUME NEW l \in Lease
    PROVE  SentRenewal(l) \in Lease /\ Settled(l) \in Lease /\ Extended(l) \in Lease
<1>1. ASSUME NEW x \in RenewState
      PROVE  [l EXCEPT !.renew = x, !.renewAge = 0] \in Lease
  <2>1. [l EXCEPT !.renew = x] \in Lease
    BY Fields
  <2>2. QED
    BY <2>1, Fields, Values
<1>2. SentRenewal(l) \in Lease /\ Settled(l) \in Lease
  BY <1>1, Values DEF SentRenewal, Settled
<1>3. LeaseMs - l.renewAge \in Past..LeaseMs
  BY Values DEF Lease
<1>4. QED
  BY <1>2, <1>3, Fields DEF Extended

\* A counter of a job may be raised.
LEMMA CountTyped ==
    ASSUME NEW f \in [Job -> Nat], NEW j
    PROVE  [f EXCEPT ![j] = @ + 1] \in [Job -> Nat]
<1>1. CASE j \in Job
  BY <1>1
<1>2. CASE j \notin Job
  <2>1. \A k \in Job : [f EXCEPT ![j] = @ + 1][k] = f[k]
    BY <1>2
  <2>2. QED
    BY <2>1
<1>3. QED
  BY <1>1, <1>2

\* The catch block leaves the claims and the count of causes well typed.
LEMMA CatchTyped ==
    ASSUME TypeOK, NEW o \in Owner, NEW error, NEW submitted, Catch(o, error, submitted)
    PROVE  lease' \in [Owner -> Lease] /\ excuses' \in [Job -> Nat]
<1>1. lease[o] \in Lease
  BY DEF TypeOK
<1>2. CatchPhase(o, error, submitted) \in Phase
  BY Values DEF CatchPhase
<1>3. [lease[o] EXCEPT !.phase = CatchPhase(o, error, submitted)] \in Lease
  BY <1>1, <1>2, Fields
<1>4. lease' \in [Owner -> Lease]
  <2>1. CASE Owned(o)
    BY <2>1, <1>3, ClaimTyped DEF Catch
  <2>2. CASE ~Owned(o)
    BY <2>2, <1>1, EndTyped, ClaimTyped DEF Catch
  <2>3. QED
    BY <2>1, <2>2
<1>5. excuses' \in [Job -> Nat]
  <2>1. [excuses EXCEPT ![JobOf(o)] = @ + 1] \in [Job -> Nat]
    BY CountTyped DEF TypeOK
  <2>2. QED
    BY <2>1 DEF Catch, TypeOK
<1>6. QED
  BY <1>4, <1>5

\* A fault is counted within the bound.
LEMMA FaultTyped ==
    ASSUME TypeOK, NEW kind, Fault(kind)
    PROVE  faults' \in 0..MaxFaults
BY RuntimeAssumption DEF TypeOK, Fault

\* The row that a registration inserts is well typed.
LEMMA QueuedTyped ==
    ASSUME NEW d \in 0..RetryDelay
    PROVE  /\ AbsentRow \in Row
           /\ [AbsentRow EXCEPT !.status = "pending", !.nextAttempt = d] \in Row
<1>1. d \in Past..RetryDelay /\ Past \in Past..RetryDelay /\ Past \in Past..LeaseMs
  BY TimingAssumption DEF Past
<1>2. QED
  BY <1>1 DEF AbsentRow, Row, Status, Outcome

\* The operations of the table keep it well typed.
LEMMA TableTyped ==
    ASSUME JobsTypeOK, NEW j \in Job, NEW o \in Owner, NEW lag \in Lag
    PROVE  /\ \A notBefore \in 0..RetryDelay : Upsert(j, notBefore) => JobsTypeOK'
           /\ ClaimById(j, o, lag) => JobsTypeOK'
           /\ ClaimReplyById(j, o, lag) => JobsTypeOK'
           /\ Renew(j, o, lag) => JobsTypeOK'
           /\ \A result \in Outcome, attempt \in Nat :
                 MarkReplyPending(j, o, lag, result, attempt) => JobsTypeOK'
           /\ \A result \in Outcome : MarkFinished(j, o, lag, StatusFor(result)) => JobsTypeOK'
           /\ \A attempt \in Nat : MarkFinishedWithoutReply(j, o, lag, attempt) => JobsTypeOK'
           /\ \A to \in {"pending", "reply_pending"} :
                 MarkRetry(j, o, lag, to, RetryDelay) => JobsTypeOK'
<1> DEFINE r == row[j]
<1>1. r \in Row /\ r.attempts + 1 \in Nat /\ r.replyAttempts + 1 \in Nat
  BY DEF JobsTypeOK, Row
<1>2. /\ Past \in Past..LeaseMs /\ -lag \in Past..LeaseMs /\ LeaseMs - lag \in Past..LeaseMs
      /\ RetryDelay \in Past..RetryDelay /\ \A d \in 0..RetryDelay : d \in Past..RetryDelay
  BY TimingAssumption DEF Past, Lag
<1>3. /\ {"pending", "running", "reply_pending", "deferred"} \subseteq Status
      /\ "deferred" \in Outcome
      /\ \A result : StatusFor(result) \in Status
  BY DEF Status, Recorded, Finished, Outcome, StatusFor
<1>4. ASSUME NEW q \in Row, row' = [row EXCEPT ![j] = q]
      PROVE  JobsTypeOK'
  BY <1>4 DEF JobsTypeOK
<1>5. ASSUME NEW notBefore \in 0..RetryDelay, Upsert(j, notBefore)
      PROVE  JobsTypeOK'
  <2>1. [AbsentRow EXCEPT !.status = "pending", !.nextAttempt = notBefore] \in Row
    BY QueuedTyped
  <2>2. QED
    BY <1>5, <1>4, <2>1 DEF Upsert
<1>6. ASSUME ClaimById(j, o, lag)
      PROVE  JobsTypeOK'
  <2>1. [r EXCEPT !.status = "running", !.attempts = @ + 1, !.owner = o,
                  !.leaseExpires = LeaseMs - lag] \in Row
    BY <1>1, <1>2, <1>3 DEF Row
  <2>2. QED
    BY <1>6, <1>4, <2>1 DEF ClaimById
<1>7. ASSUME ClaimReplyById(j, o, lag)
      PROVE  JobsTypeOK'
  <2>1. [r EXCEPT !.replyAttempts = @ + 1, !.owner = o, !.leaseExpires = LeaseMs - lag] \in Row
    BY <1>1, <1>2 DEF Row
  <2>2. QED
    BY <1>7, <1>4, <2>1 DEF ClaimReplyById
<1>8. ASSUME Renew(j, o, lag)
      PROVE  JobsTypeOK'
  <2>1. [r EXCEPT !.leaseExpires = LeaseMs - lag] \in Row
    BY <1>1, <1>2 DEF Row
  <2>2. QED
    BY <1>8, <1>4, <2>1 DEF Renew
<1>9. ASSUME NEW result \in Outcome, NEW attempt \in Nat,
             MarkReplyPending(j, o, lag, result, attempt)
      PROVE  JobsTypeOK'
  <2>1. [r EXCEPT !.status = "reply_pending", !.leaseExpires = -lag,
                  !.result = result, !.resultBy = attempt] \in Row
    BY <1>1, <1>2, <1>3 DEF Row
  <2>2. QED
    BY <1>9, <1>4, <2>1 DEF MarkReplyPending
<1>10. ASSUME NEW result \in Outcome, MarkFinished(j, o, lag, StatusFor(result))
      PROVE  JobsTypeOK'
  <2>1. [r EXCEPT !.status = StatusFor(result), !.owner = NoOwner, !.leaseExpires = Past] \in Row
    BY <1>1, <1>2, <1>3 DEF Row
  <2>2. QED
    BY <1>10, <1>4, <2>1 DEF MarkFinished
<1>11. ASSUME NEW attempt \in Nat, MarkFinishedWithoutReply(j, o, lag, attempt)
      PROVE  JobsTypeOK'
  <2>1. [r EXCEPT !.status = "deferred", !.owner = NoOwner, !.leaseExpires = Past,
                  !.result = "deferred", !.resultBy = attempt] \in Row
    BY <1>1, <1>2, <1>3 DEF Row
  <2>2. QED
    BY <1>11, <1>4, <2>1 DEF MarkFinishedWithoutReply
<1>12. ASSUME NEW to \in {"pending", "reply_pending"}, MarkRetry(j, o, lag, to, RetryDelay)
      PROVE  JobsTypeOK'
  <2>1. [r EXCEPT !.status = to, !.nextAttempt = RetryDelay, !.owner = NoOwner,
                  !.leaseExpires = Past] \in Row
    BY <1>1, <1>2, <1>3 DEF Row
  <2>2. QED
    BY <1>12, <1>4, <2>1 DEF MarkRetry
<1>13. QED
  BY <1>5, <1>6, <1>7, <1>8, <1>9, <1>10, <1>11, <1>12

\* A tick keeps every instant of a well-typed table and claim in its range.
LEMMA TickTyped ==
    ASSUME TypeOK, Tick
    PROVE  TypeOK'
<1>1. \A x \in Past..LeaseMs : Elapsed(x) \in Past..LeaseMs
  BY TimingAssumption DEF Elapsed, Past
<1>2. \A x \in Past..RetryDelay : Elapsed(x) \in Past..RetryDelay
  BY TimingAssumption DEF Elapsed, Past
<1>3. JobsTypeOK'
  BY <1>1, <1>2 DEF Tick, Elapse, TypeOK, JobsTypeOK, Row
<1>4. ASSUME NEW o \in Owner
      PROVE  Older(lease[o]) \in Lease
  <2>1. lease[o] \in Lease
    BY DEF TypeOK
  <2>2. [lease[o] EXCEPT !.deadline = Elapsed(@)] \in Lease
    BY <1>1, <2>1, Fields DEF Lease
  <2>3. lease[o].renewAge \in 0..LeaseMs
    BY <2>1 DEF Lease
  <2>4. (IF lease[o].renew # "none" /\ lease[o].renewAge < LeaseMs
         THEN lease[o].renewAge + 1 ELSE lease[o].renewAge) \in 0..LeaseMs
    BY <2>3, TimingAssumption
  <2>5. QED
    BY <2>2, <2>4, Fields DEF Older
<1>5. lease' \in [Owner -> Lease]
  BY <1>4 DEF Tick
<1>6. faults' \in 0..MaxFaults
  BY FaultTyped DEF Tick, TypeOK
<1>7. QED
  BY <1>3, <1>5, <1>6 DEF Tick, TypeOK

\* A claim that replaces the one a token had is well typed.
LEMMA ClaimsTyped ==
    ASSUME TypeOK, NEW o \in Owner, NEW j \in Job, Claim(o, j) \/ ClaimReply(o, j)
    PROVE  TypeOK'
<1>1. /\ row[j] \in Row /\ row[j].result \in Outcome
      /\ row[j].attempts + 1 \in Nat /\ row[j].replyAttempts + 1 \in Nat
  BY DEF TypeOK, JobsTypeOK, Row
<1>2. ASSUME Claim(o, j)
      PROVE  TypeOK'
  <2>1. PICK lag \in Lag :
           /\ ClaimById(j, o, lag)
           /\ lease' = [lease EXCEPT ![o] =
                 [IdleLease EXCEPT !.phase = "claimed", !.job = j,
                      !.attempt = row[j].attempts + 1, !.deadline = LeaseMs - lag]]
    BY <1>2 DEF Claim
  <2>2. JobsTypeOK'
    BY <2>1, TableTyped DEF TypeOK
  <2>3. [IdleLease EXCEPT !.phase = "claimed", !.job = j,
             !.attempt = row[j].attempts + 1, !.deadline = LeaseMs - lag] \in Lease
    BY <1>1, Values DEF IdleLease, Lease
  <2>4. lease' \in [Owner -> Lease]
    BY <2>1, <2>3, ClaimTyped
  <2>5. excuses' \in [Job -> Nat]
    BY <1>2, CountTyped DEF Claim, TypeOK
  <2>6. QED
    BY <1>2, <2>2, <2>4, <2>5 DEF Claim, TypeOK
<1>3. ASSUME ClaimReply(o, j)
      PROVE  TypeOK'
  <2>1. PICK lag \in Lag :
           /\ ClaimReplyById(j, o, lag)
           /\ lease' = [lease EXCEPT ![o] =
                 [IdleLease EXCEPT !.phase = "claimed", !.job = j, !.kind = "deliver",
                      !.attempt = row[j].replyAttempts + 1, !.outcome = row[j].result,
                      !.deadline = LeaseMs - lag]]
    BY <1>3 DEF ClaimReply
  <2>2. JobsTypeOK'
    BY <2>1, TableTyped DEF TypeOK
  <2>3. [IdleLease EXCEPT !.phase = "claimed", !.job = j, !.kind = "deliver",
             !.attempt = row[j].replyAttempts + 1, !.outcome = row[j].result,
             !.deadline = LeaseMs - lag] \in Lease
    BY <1>1, Values DEF IdleLease, Lease
  <2>4. QED
    BY <1>3, <2>1, <2>2, <2>3, ClaimTyped DEF ClaimReply, TypeOK
<1>4. QED
  BY <1>2, <1>3

\* The timers and renewals keep the claims well typed.
LEMMA RenewalsTyped ==
    ASSUME TypeOK, NEW o \in Owner, FirstRenewal(o) \/ Timers(o) \/ Renewal(o)
    PROVE  TypeOK'
<1> DEFINE l == lease[o]
<1>1. l \in Lease /\ l.job \in Job \cup {NoJob}
  BY DEF TypeOK, Lease
<1>2. [l EXCEPT !.aborted = TRUE] \in Lease
  BY <1>1, Fields
<1>3. ASSUME NEW m \in Lease, lease' = [lease EXCEPT ![o] = m]
      PROVE  lease' \in [Owner -> Lease]
  BY <1>3, ClaimTyped
<1>4. ASSUME FirstRenewal(o)
      PROVE  TypeOK'
  <2>1. [l EXCEPT !.phase = "acquiring"] \in Lease
    BY <1>1, Fields, Values
  <2>2. QED
    BY <1>1, <1>3, <1>4, <2>1, EndTyped, RenewalTyped DEF FirstRenewal, TypeOK, JobsTypeOK
<1>5. ASSUME Heartbeat(o)
      PROVE  TypeOK'
  BY <1>1, <1>2, <1>3, <1>5, RenewalTyped DEF Heartbeat, TypeOK, JobsTypeOK
<1>6. ASSUME Expiry(o)
      PROVE  TypeOK'
  BY <1>1, <1>2, <1>3, <1>6 DEF Expiry, TypeOK, JobsTypeOK
<1>7. ASSUME RenewExecutes(o)
      PROVE  TypeOK'
  <2>1. \A x \in RenewState : [l EXCEPT !.renew = x] \in Lease
    BY <1>1, Fields
  <2>2. lease' \in [Owner -> Lease]
    BY <1>3, <1>7, <2>1, Values DEF RenewExecutes
  <2>3. JobsTypeOK'
    <3>1. CASE UNCHANGED row
      BY <3>1 DEF TypeOK, JobsTypeOK
    <3>2. CASE \E lag \in Lag : Renew(JobOf(o), o, lag)
      <4>1. CASE JobOf(o) \in Job
        BY <3>2, <4>1, TableTyped DEF TypeOK
      <4>2. CASE JobOf(o) \notin Job
        BY <3>2, <4>2 DEF TypeOK, JobsTypeOK, Renew
      <4>3. QED
        BY <4>1, <4>2
    <3>3. QED
      BY <1>7, <3>1, <3>2 DEF RenewExecutes
  <2>4. QED
    BY <1>7, <2>2, <2>3 DEF RenewExecutes, TypeOK
<1>8. ASSUME RenewUnconfirmed(o)
      PROVE  TypeOK'
  <2>1. [l EXCEPT !.renew = "unconfirmed"] \in Lease
    BY <1>1, Fields, Values
  <2>2. QED
    BY <1>3, <1>8, <2>1, FaultTyped DEF RenewUnconfirmed, TypeOK, JobsTypeOK
<1>9. ASSUME RenewReturns(o)
      PROVE  TypeOK'
  <2>1. IdleLease \in Lease
    BY <1>1, EndTyped
  <2>2. AfterFirstRenewal(l) \in Lease
    <3>1. Settled(l) \in Lease /\ Extended(l) \in Lease
      BY <1>1, RenewalTyped
    <3>2. FirstPhase(l) \in Phase /\ "requeueing" \in Phase
      BY Values DEF FirstPhase
    <3>3. QED
      BY <3>1, <3>2, Fields, EndTyped DEF AfterFirstRenewal
  <2>3. AfterHeartbeat(l) \in Lease
    <3>1. Settled(l) \in Lease /\ Extended(l) \in Lease
      BY <1>1, RenewalTyped
    <3>2. (l.aborted \/ l.renew # "unconfirmed" \/ l.deadline <= 0) \in BOOLEAN
      BY <1>1 DEF Lease
    <3>3. QED
      BY <3>1, <3>2, Fields DEF AfterHeartbeat
  <2>4. QED
    BY <1>3, <1>9, <2>1, <2>2, <2>3 DEF RenewReturns, TypeOK, JobsTypeOK
<1>10. QED
  BY <1>4, <1>5, <1>6, <1>7, <1>8, <1>9 DEF Timers, Renewal

\* So do the writes of executeOwnedJob and deliverJob.
LEMMA WritesTyped ==
    ASSUME TypeOK, NEW o \in Owner, NEW lag \in Lag
    PROVE  /\ SettledWrite(o, lag) => JobsTypeOK'
           /\ Postpone(o, lag) => JobsTypeOK'
           /\ RecordFailure(o, lag) => JobsTypeOK'
           /\ Redeliver(o, lag) => JobsTypeOK'
           /\ FinishReply(o, lag) => JobsTypeOK'
<1>1. /\ lease[o].attempt \in Nat /\ lease[o].outcome \in Outcome
      /\ "answer" \in Outcome /\ "failure" \in Outcome
  BY DEF TypeOK, Lease, Outcome
<1>2. CASE JobOf(o) \in Job
  BY <1>1, <1>2, TableTyped
     DEF TypeOK, SettledWrite, RecordAnswer, RecordDeferred, RecordFailure, Postpone,
         Redeliver, FinishReply
<1>3. CASE JobOf(o) \notin Job
  BY <1>3
     DEF TypeOK, JobsTypeOK, SettledWrite, RecordAnswer, RecordDeferred, RecordFailure,
         Postpone, Redeliver, FinishReply, MarkReplyPending, MarkFinished,
         MarkFinishedWithoutReply, MarkRetry
<1>4. QED
  BY <1>2, <1>3

\* Every step of executeOwnedJob keeps the types.
LEMMA ExecutionTyped ==
    ASSUME TypeOK, NEW o \in Owner, Execution(o)
    PROVE  TypeOK'
<1> DEFINE l == lease[o]
<1>1. l \in Lease /\ Ended(l) \in Lease
  BY EndTyped DEF TypeOK
<1>2. ASSUME NEW m \in Lease, lease' = [lease EXCEPT ![o] = m]
      PROVE  lease' \in [Owner -> Lease]
  BY <1>2, ClaimTyped
<1>3. ASSUME NEW p \in ExecPhase, Goto(o, p)
      PROVE  lease' \in [Owner -> Lease]
  BY <1>1, <1>2, <1>3, Fields, Values DEF Goto
<1>4. End(o) => lease' \in [Owner -> Lease]
  BY <1>1, <1>2 DEF End
<1>5. ASSUME NEW outcome \in Outcome, Resolve(o, outcome)
      PROVE  lease' \in [Owner -> Lease]
  <2>1. [l EXCEPT !.phase = "settled"] \in Lease
    BY <1>1, Fields, Values
  <2>2. [l EXCEPT !.phase = "settled", !.outcome = outcome] \in Lease
    BY <2>1, Fields
  <2>3. QED
    BY <1>1, <1>2, <1>5, <2>2 DEF Resolve
<1>6. ASSUME UNCHANGED <<row, submits, excuses, faults>>, lease' \in [Owner -> Lease]
      PROVE  TypeOK'
  BY <1>6 DEF TypeOK, JobsTypeOK
<1>7. ASSUME NEW error, NEW submitted, Catch(o, error, submitted),
             UNCHANGED <<row, submits, faults>>
      PROVE  TypeOK'
  BY <1>7, CatchTyped DEF TypeOK, JobsTypeOK
<1>8. ASSUME Begin(o) \/ TakeOverTurn(o) \/ FindReceipt(o) \/ SteerIntoTurn(o)
                \/ TurnCompletes(o) \/ ExecutorAborts(o)
      PROVE  TypeOK'
  BY <1>3, <1>4, <1>5, <1>6, <1>8, Values
     DEF Begin, TakeOverTurn, FindReceipt, SteerIntoTurn, TurnCompletes, ExecutorAborts
<1>9. ASSUME BeginFails(o) \/ AdmissionFails(o) \/ TurnFails(o) \/ SettleFails(o)
      PROVE  TypeOK'
  BY <1>7, <1>9 DEF BeginFails, AdmissionFails, TurnFails, SettleFails
<1>10. ASSUME StartTurn(o)
       PROVE  TypeOK'
  <2>1. submits' \in [Job -> Nat]
    BY <1>10, CountTyped DEF StartTurn, TypeOK
  <2>2. lease' \in [Owner -> Lease]
    BY <1>3, <1>10, Values DEF StartTurn
  <2>3. QED
    BY <1>10, <2>1, <2>2 DEF StartTurn, TypeOK, JobsTypeOK
<1>11. ASSUME Record(o)
       PROVE  TypeOK'
  <2>1. JobsTypeOK'
    BY <1>11, WritesTyped DEF Record, TypeOK, JobsTypeOK
  <2>2. QED
    BY <1>4, <1>11, <2>1 DEF Record, TypeOK
<1>12. ASSUME RecordFails(o)
       PROVE  TypeOK'
  <2>1. JobsTypeOK'
    BY <1>12, WritesTyped DEF RecordFails, TypeOK, JobsTypeOK
  <2>2. lease' \in [Owner -> Lease] /\ excuses' \in [Job -> Nat]
    BY <1>12, CatchTyped DEF RecordFails
  <2>3. QED
    BY <1>12, <2>1, <2>2, FaultTyped DEF RecordFails, TypeOK
<1>13. ASSUME Retry(o)
       PROVE  TypeOK'
  <2>1. JobsTypeOK'
    BY <1>13, WritesTyped DEF Retry, TypeOK, JobsTypeOK
  <2>2. faults' \in 0..MaxFaults
    BY <1>13, FaultTyped DEF Retry, TypeOK
  <2>3. QED
    BY <1>4, <1>13, <2>1, <2>2 DEF Retry, TypeOK
<1>14. ASSUME Fail(o)
       PROVE  TypeOK'
  <2>1. JobsTypeOK'
    BY <1>14, WritesTyped DEF Fail, TypeOK, JobsTypeOK
  <2>2. faults' \in 0..MaxFaults
    BY <1>14, FaultTyped DEF Fail, TypeOK
  <2>3. QED
    BY <1>4, <1>14, <2>1, <2>2 DEF Fail, TypeOK
<1>15. QED
  BY <1>8, <1>9, <1>10, <1>11, <1>12, <1>13, <1>14 DEF Execution

\* And every step of deliverJob.
LEMMA DeliveryTyped ==
    ASSUME TypeOK, NEW o \in Owner, Delivery(o)
    PROVE  TypeOK'
<1>1. lease[o] \in Lease /\ Ended(lease[o]) \in Lease
  BY EndTyped DEF TypeOK
<1>2. ASSUME NEW p \in DeliverPhase, Goto(o, p)
      PROVE  lease' \in [Owner -> Lease]
  BY <1>1, <1>2, ClaimTyped, Fields, Values DEF Goto
<1>3. End(o) => lease' \in [Owner -> Lease]
  BY <1>1, ClaimTyped DEF End
<1>4. ASSUME Prepare(o) \/ Send(o) \/ DeliveryFails(o)
      PROVE  TypeOK'
  BY <1>2, <1>3, <1>4, Values, FaultTyped DEF Prepare, Send, DeliveryFails, TypeOK, JobsTypeOK
<1>5. ASSUME RetrySilent(o)
      PROVE  TypeOK'
  <2>1. JobsTypeOK'
    BY <1>5, WritesTyped DEF RetrySilent, TypeOK, JobsTypeOK
  <2>2. lease' \in [Owner -> Lease]
    BY <1>2, <1>3, <1>5, Values DEF RetrySilent
  <2>3. faults' \in 0..MaxFaults
    BY <1>5, FaultTyped DEF RetrySilent, TypeOK
  <2>4. QED
    BY <1>5, <2>1, <2>2, <2>3 DEF RetrySilent, TypeOK
<1>6. ASSUME Finish(o)
      PROVE  TypeOK'
  <2>1. JobsTypeOK'
    BY <1>6, WritesTyped DEF Finish, TypeOK, JobsTypeOK
  <2>2. lease' \in [Owner -> Lease]
    BY <1>2, <1>3, <1>6, Values DEF Finish
  <2>3. faults' \in 0..MaxFaults
    BY <1>6, FaultTyped DEF Finish, TypeOK
  <2>4. QED
    BY <1>6, <2>1, <2>2, <2>3 DEF Finish, TypeOK
<1>7. ASSUME Requeue(o)
      PROVE  TypeOK'
  <2>1. JobsTypeOK'
    BY <1>7, WritesTyped DEF Requeue, TypeOK, JobsTypeOK
  <2>2. faults' \in 0..MaxFaults
    BY <1>7, FaultTyped DEF Requeue, TypeOK
  <2>3. QED
    BY <1>3, <1>7, <2>1, <2>2 DEF Requeue, TypeOK
<1>8. QED
  BY <1>4, <1>5, <1>6, <1>7 DEF Delivery

\* Every step keeps the types.
LEMMA TypeStep == TypeOK /\ [Next]_vars => TypeOK'
<1> SUFFICES ASSUME TypeOK, [Next]_vars
             PROVE  TypeOK'
  OBVIOUS
<1>1. ASSUME NEW j \in Job, Register(j)
      PROVE  TypeOK'
  <2>1. JobsTypeOK'
    <3>1. PICK notBefore \in 0..RetryDelay : Upsert(j, notBefore)
      BY <1>1 DEF Register
    <3>2. QED
      BY <3>1, QueuedTyped DEF Upsert, TypeOK, JobsTypeOK
  <2>2. QED
    BY <1>1, <2>1 DEF Register, TypeOK
<1>2. ASSUME NEW o \in Owner, NEW j \in Job, Claim(o, j) \/ ClaimReply(o, j)
      PROVE  TypeOK'
  BY <1>2, ClaimsTyped
<1>3. ASSUME NEW o \in Owner, FirstRenewal(o) \/ Timers(o) \/ Renewal(o)
      PROVE  TypeOK'
  BY <1>3, RenewalsTyped
<1>4. ASSUME NEW o \in Owner, Execution(o) \/ Delivery(o)
      PROVE  TypeOK'
  BY <1>4, ExecutionTyped, DeliveryTyped
<1>5. ASSUME NEW o \in Owner, Stop(o) \/ Crash(o)
      PROVE  TypeOK'
  <2>1. [lease[o] EXCEPT !.aborted = TRUE] \in Lease /\ IdleLease \in Lease
    BY Fields, EndTyped DEF TypeOK
  <2>2. lease' \in [Owner -> Lease]
    BY <1>5, <2>1, ClaimTyped DEF Stop, Crash
  <2>3. QED
    BY <1>5, <2>2, FaultTyped DEF Stop, Crash, TypeOK, JobsTypeOK
<1>6. ASSUME Tick
      PROVE  TypeOK'
  BY <1>6, TickTyped
<1>7. CASE UNCHANGED vars
  BY <1>7 DEF vars, TypeOK, JobsTypeOK
<1>8. QED
  BY <1>1, <1>2, <1>3, <1>4, <1>5, <1>6, <1>7 DEF Next

\* The empty table and the idle claims are well typed.
LEMMA TypeInit == Init => TypeOK
<1>1. AbsentRow \in Row
  <2>1. 0 \in 0..RetryDelay
    BY TimingAssumption
  <2>2. QED
    BY <2>1, QueuedTyped
<1>2. IdleLease \in Lease
  BY RuntimeAssumption, Values DEF Lease, IdleLease
<1>3. QED
  BY <1>1, <1>2, RuntimeAssumption DEF Init, JobsInit, TypeOK, JobsTypeOK

\* Type correctness: every instant, counter and control state stays in range.
THEOREM TypeCorrect == Spec => []TypeOK
BY TypeInit, TypeStep, PTL DEF Spec

----------------------------------------------------------------------------
(***************************************************************************)
(* The inductive invariant.  LeaseBacked alone is not inductive: when a    *)
(* renewal returns, the new deadline is right only because the row was     *)
(* extended when the database executed it, and because the answer is older *)
(* than the instant it is counted from.  What a claim may still write      *)
(* depends on which of its writes it has already made.                     *)
(***************************************************************************)
RowOf(o) == row[JobOf(o)]

\* The phases of an execution before the first write that may end it.
Unwritten == {"claimed", "acquiring", "starting", "admitting", "turn", "settled", "retrying"}

\* The control state of a claim and the fields it goes with.
Shape(o) ==
    /\ ~At(o, "idle") => JobOf(o) \in Job
    /\ At(o, "idle") => lease[o].renew = "none"
    /\ lease[o].phase \in ExecPhase => lease[o].kind = "execute"
    /\ lease[o].phase \in DeliverPhase => lease[o].kind = "deliver"
    /\ lease[o].renew # "none" => lease[o].deadline <= LeaseMs - lease[o].renewAge
    /\ At(o, "retrying") => lease[o].attempt < MaxAttempts

\* The deadline of a claim is covered by the lease of its row, and will be
\* when an applied renewal is confirmed.
Backed(o) ==
    lease[o].phase \in Working /\ lease[o].deadline > 0 =>
        /\ RowOf(o).owner = o
        /\ RowOf(o).status = StatusOfKind(lease[o].kind)
        /\ RowOf(o).leaseExpires >= lease[o].deadline
        /\ lease[o].renew = "applied" =>
               RowOf(o).leaseExpires >= LeaseMs - lease[o].renewAge

\* What an executing claim that is still the row's owner knows of the row.
Executes(o) ==
    ~At(o, "idle") /\ lease[o].kind = "execute" /\ RowOf(o).owner = o =>
        /\ RowOf(o).status = "running" => lease[o].attempt = RowOf(o).attempts
        /\ lease[o].phase \in Unwritten => RowOf(o).status = "running"

\* A delivering claim carries the result of its row, owner or not.
Delivers(o) ==
    ~At(o, "idle") /\ lease[o].kind = "deliver" =>
        /\ RowOf(o).status \in Recorded
        /\ lease[o].outcome = RowOf(o).result

RowOK(j) ==
    /\ row[j].status \in Recorded => row[j].resultBy = row[j].attempts
    /\ row[j].status \in Finished => row[j].status = StatusFor(row[j].result)
    /\ row[j].status = "pending" => row[j].attempts < MaxAttempts
    /\ row[j].status = "reply_pending" => row[j].result \in {"answer", "failure"}

ClaimOK(o) == Shape(o) /\ Backed(o) /\ Executes(o) /\ Delivers(o)

IInv ==
    /\ TypeOK
    /\ \A o \in Owner : ClaimOK(o)
    /\ \A j \in Job : RowOK(j)

----------------------------------------------------------------------------
(* Steps of a claim that write no row and move no renewal.                 *)

\* The claim ends, or goes on with its job, deadline and renewal unchanged.
Continues(o) ==
    /\ ~At(o, "idle") /\ lease'[o].phase # "idle"
    /\ lease'[o].job = lease[o].job
    /\ lease'[o].kind = lease[o].kind
    /\ lease'[o].attempt = lease[o].attempt
    /\ lease'[o].deadline = lease[o].deadline
    /\ \/ lease'[o].renew = lease[o].renew
       \/ lease'[o].renew = "unconfirmed" /\ lease[o].renew # "none"
    /\ lease'[o].renewAge = lease[o].renewAge
    /\ lease[o].kind = "deliver" => lease'[o].outcome = lease[o].outcome

Moves(o) ==
    /\ UNCHANGED row
    /\ \A p \in Owner : p # o => lease'[p] = lease[p]
    /\ \/ lease'[o] = IdleLease
       \/ /\ Continues(o)
          /\ lease'[o].phase \in Working => lease[o].phase \in Working
          /\ lease'[o].phase \in Unwritten => lease[o].phase \in Unwritten
          /\ lease'[o].phase \in ExecPhase => lease[o].kind = "execute"
          /\ lease'[o].phase \in DeliverPhase => lease[o].kind = "deliver"
          /\ lease'[o].phase = "retrying" => lease[o].attempt < MaxAttempts

\* Such a step keeps the invariant.
LEMMA MoveKeeps ==
    ASSUME IInv, TypeOK', NEW o \in Owner, Moves(o)
    PROVE  IInv'
<1>1. ASSUME NEW p \in Owner, p # o
      PROVE  ClaimOK(p)'
  BY <1>1 DEF IInv, Moves, ClaimOK, Shape, Backed, Executes, Delivers, RowOf, JobOf, At
<1>2. ClaimOK(o)'
  <2>1. CASE lease'[o] = IdleLease
    BY <2>1 DEF IdleLease, ClaimOK, Shape, Backed, Executes, Delivers, At,
                Working, ExecPhase, DeliverPhase
  <2>2. CASE lease'[o] # IdleLease
    <3>1. Shape(o)'
      BY <2>2 DEF IInv, Moves, Continues, ClaimOK, Shape, At, JobOf
    <3>2. Backed(o)'
      BY <2>2 DEF IInv, Moves, Continues, ClaimOK, Backed, RowOf, JobOf
    <3>3. Executes(o)'
      BY <2>2 DEF IInv, Moves, Continues, ClaimOK, Executes, RowOf, JobOf, At
    <3>4. Delivers(o)'
      BY <2>2 DEF IInv, Moves, Continues, ClaimOK, Delivers, RowOf, JobOf, At
    <3>5. QED
      BY <3>1, <3>2, <3>3, <3>4 DEF ClaimOK
  <2>3. QED
    BY <2>1, <2>2
<1>3. ASSUME NEW j \in Job
      PROVE  RowOK(j)'
  BY DEF IInv, Moves, RowOK
<1>4. QED
  BY <1>1, <1>2, <1>3 DEF IInv

\* The end of withLease.
LEMMA EndMoves ==
    ASSUME IInv, NEW o \in Owner, ~At(o, "idle"), End(o), UNCHANGED row
    PROVE  Moves(o)
BY DEF IInv, TypeOK, End, Ended, Moves, Continues, At, Working, Unwritten, ExecPhase,
       DeliverPhase, Lease

\* The catch block of executeOwnedJob, from any phase that can throw.
LEMMA CatchMoves ==
    ASSUME IInv, NEW o \in Owner, NEW error, NEW submitted, UNCHANGED row,
           lease[o].phase \in {"starting", "admitting", "turn", "settled"},
           Catch(o, error, submitted)
    PROVE  Moves(o)
<1>1. ~At(o, "idle") /\ lease[o] \in Lease /\ lease[o].kind = "execute"
  BY DEF IInv, TypeOK, ClaimOK, Shape, At, ExecPhase
<1>2. CASE Owned(o)
  <2>1. lease' = [lease EXCEPT ![o] = [@ EXCEPT !.phase = CatchPhase(o, error, submitted)]]
    BY <1>2 DEF Catch
  <2>2. \/ CatchPhase(o, error, submitted) = "failing"
        \/ /\ CatchPhase(o, error, submitted) = "retrying"
           /\ lease[o].attempt < MaxAttempts
    BY DEF CatchPhase, WillRetry
  <2>3. QED
    BY <1>1, <2>1, <2>2
       DEF IInv, TypeOK, Moves, Continues, Lease, Working, Unwritten, ExecPhase, DeliverPhase
<1>3. CASE ~Owned(o)
  <2>1. End(o)
    BY <1>3 DEF Catch, End
  <2>2. QED
    BY <1>1, <2>1, EndMoves
<1>4. QED
  BY <1>2, <1>3

\* The steps of executeOwnedJob that write nothing.
LEMMA ExecutionMoves ==
    ASSUME IInv, NEW o \in Owner,
           \/ Begin(o) \/ BeginFails(o)
           \/ StartTurn(o) \/ TakeOverTurn(o) \/ FindReceipt(o) \/ SteerIntoTurn(o)
           \/ AdmissionFails(o) \/ TurnCompletes(o) \/ TurnFails(o) \/ ExecutorAborts(o)
           \/ SettleFails(o)
    PROVE  Moves(o)
<1>1. lease[o] \in Lease
  BY DEF IInv, TypeOK
<1>2. ASSUME NEW p \in {"admitting", "turn"}, lease[o].phase \in {"starting", "admitting"},
             Goto(o, p), UNCHANGED row
      PROVE  Moves(o)
  BY <1>1, <1>2
     DEF IInv, TypeOK, ClaimOK, Shape, Goto, At, Moves, Continues, Lease, Working,
         Unwritten, ExecPhase, DeliverPhase
<1>3. ASSUME NEW outcome, lease[o].phase \in {"admitting", "turn"},
             Resolve(o, outcome), UNCHANGED row
      PROVE  Moves(o)
  <2>1. CASE Owned(o)
    <3>1. lease' = [lease EXCEPT ![o] = [@ EXCEPT !.phase = "settled", !.outcome = outcome]]
      BY <1>3, <2>1 DEF Resolve
    <3>2. lease[o].kind = "execute"
      BY <1>3 DEF IInv, ClaimOK, Shape, ExecPhase
    <3>3. QED
      BY <1>1, <1>3, <3>1, <3>2
         DEF IInv, TypeOK, At, Moves, Continues, Lease, Working, Unwritten,
             ExecPhase, DeliverPhase
  <2>2. CASE ~Owned(o)
    BY <1>3, <2>2, EndMoves DEF Resolve, End, At
  <2>3. QED
    BY <2>1, <2>2
<1>4. CASE Begin(o)
  BY <1>2, <1>4, EndMoves DEF Begin, At
<1>5. CASE StartTurn(o) \/ TakeOverTurn(o)
  BY <1>2, <1>5 DEF StartTurn, TakeOverTurn, At
<1>6. CASE FindReceipt(o) \/ SteerIntoTurn(o) \/ TurnCompletes(o)
  BY <1>3, <1>6 DEF FindReceipt, SteerIntoTurn, TurnCompletes, At
<1>7. CASE ExecutorAborts(o)
  BY <1>7, EndMoves DEF ExecutorAborts, At
<1>8. CASE BeginFails(o) \/ AdmissionFails(o) \/ TurnFails(o) \/ SettleFails(o)
  BY <1>8, CatchMoves DEF BeginFails, AdmissionFails, TurnFails, SettleFails, At
<1>9. QED
  BY <1>4, <1>5, <1>6, <1>7, <1>8

\* The steps of deliverJob, the timers and the process that write nothing.
LEMMA OtherMoves ==
    ASSUME IInv, NEW o \in Owner,
           \/ Prepare(o) \/ Send(o) \/ DeliveryFails(o)
           \/ Expiry(o) \/ RenewUnconfirmed(o) \/ Stop(o) \/ Crash(o)
    PROVE  Moves(o)
<1>1. lease[o] \in Lease
  BY DEF IInv, TypeOK
<1>2. ASSUME NEW p \in {"sending", "finishing", "requeueing"},
             lease[o].phase \in {"preparing", "sending"}, Goto(o, p), UNCHANGED row
      PROVE  Moves(o)
  BY <1>1, <1>2
     DEF IInv, TypeOK, ClaimOK, Shape, Goto, At, Moves, Continues, Lease, Working,
         Unwritten, ExecPhase, DeliverPhase
<1>3. CASE Prepare(o) \/ Send(o)
  BY <1>2, <1>3, EndMoves DEF Prepare, Send, At
<1>4. CASE DeliveryFails(o)
  BY <1>2, <1>4 DEF DeliveryFails
<1>5. CASE Expiry(o) \/ Stop(o)
  BY <1>1, <1>5
     DEF IInv, TypeOK, ClaimOK, Shape, Expiry, TimersArmed, Stop, Open, At, Moves,
         Continues, Lease, Working, Unwritten, ExecPhase, DeliverPhase
<1>6. CASE RenewUnconfirmed(o)
  <2>1. lease' = [lease EXCEPT ![o].renew = "unconfirmed"] /\ UNCHANGED row
        /\ lease[o].renew # "none"
    BY <1>6 DEF RenewUnconfirmed
  <2>2. CASE ~At(o, "idle")
    BY <1>1, <2>1, <2>2
       DEF IInv, TypeOK, ClaimOK, Shape, At, Moves, Continues, Lease, Working,
           Unwritten, ExecPhase, DeliverPhase
  <2>3. QED
    BY <2>1, <2>2 DEF IInv, ClaimOK, Shape
<1>7. CASE Crash(o)
  BY <1>1, <1>7 DEF IInv, TypeOK, Crash, Moves
<1>8. QED
  BY <1>3, <1>4, <1>5, <1>6, <1>7

----------------------------------------------------------------------------
(* Steps that write the row.                                               *)

\* The row leaves "running" or stays recorded.
Advances(old, new) ==
    /\ new.attempts = old.attempts
    /\ \/ old.status = "running" /\ new.status = "pending" /\ new.result = old.result
       \/ old.status = "running" /\ new.status = "reply_pending"
       \/ old.status = "running" /\ new.status = "deferred" /\ new.result = "deferred"
       \/ /\ old.status = "reply_pending" /\ new.result = old.result
          /\ new.status \in {"reply_pending", StatusFor(old.result)}

\* The claim holds the row and writes it once, then works no more.
Writes(o) ==
    LET old == RowOf(o)
        new == row'[JobOf(o)]
    IN  /\ JobOf(o) \in Job
        /\ \A j \in Job : j # JobOf(o) => row'[j] = row[j]
        /\ old.owner = o
        /\ new.owner \in {o, NoOwner}
        /\ new.status # "running"
        /\ old.status \in Recorded => /\ new.status \in Recorded
                                     /\ new.result = old.result
        /\ Advances(old, new)
        /\ \A j \in Job : j = JobOf(o) => RowOK(j)'
        /\ \A p \in Owner : p # o => lease'[p] = lease[p]
        /\ \/ lease'[o] = IdleLease
           \/ /\ Continues(o)
              /\ lease'[o].phase \in {"closed", "failing", "requeueing"}
              /\ lease'[o].phase = "failing" => lease[o].kind = "execute"
              /\ lease'[o].phase = "requeueing" => lease[o].kind = "deliver"

\* Such a write keeps the invariant.
LEMMA WriteKeeps ==
    ASSUME IInv, TypeOK', NEW o \in Owner, Writes(o)
    PROVE  IInv'
<1>1. ASSUME NEW p \in Owner, p # o
      PROVE  ClaimOK(p)'
  <2>1. lease'[p] = lease[p]
    BY <1>1 DEF Writes
  <2>2. CASE JobOf(p) = JobOf(o)
    <3>1. RowOf(p).owner # p /\ (RowOf(p).owner # p)'
      BY <1>1, <2>1, <2>2, OwnerAssumption DEF Writes, RowOf, JobOf
    <3>2. Shape(p)' /\ Backed(p)' /\ Executes(p)'
      BY <2>1, <3>1 DEF IInv, ClaimOK, Shape, Backed, Executes, At, JobOf, RowOf
    <3>3. Delivers(p)'
      BY <2>1, <2>2 DEF IInv, ClaimOK, Delivers, Writes, At, JobOf, RowOf
    <3>4. QED
      BY <3>2, <3>3 DEF ClaimOK
  <2>3. CASE JobOf(p) # JobOf(o)
    <3>1. At(p, "idle") \/ row'[JobOf(p)] = row[JobOf(p)]
      BY <2>3 DEF IInv, ClaimOK, Shape, Writes
    <3>2. "idle" \notin Working
      BY DEF Working
    <3>3. QED
      BY <2>1, <3>1, <3>2
         DEF IInv, ClaimOK, Shape, Backed, Executes, Delivers, At, JobOf, RowOf
  <2>4. QED
    BY <2>2, <2>3
<1>2. ClaimOK(o)'
  <2>1. CASE lease'[o] = IdleLease
    BY <2>1 DEF IdleLease, ClaimOK, Shape, Backed, Executes, Delivers, At,
                Working, ExecPhase, DeliverPhase
  <2>2. CASE lease'[o] # IdleLease
    <3>1. Continues(o) /\ lease'[o].phase \in {"closed", "failing", "requeueing"}
      BY <2>2 DEF Writes
    <3>2. lease'[o].phase \notin Working /\ lease'[o].phase \notin Unwritten
      BY <3>1 DEF Working, Unwritten
    <3>3. Shape(o)'
      BY <2>2, <3>1
         DEF IInv, Writes, Continues, ClaimOK, Shape, At, JobOf, ExecPhase, DeliverPhase
    <3>4. Backed(o)'
      BY <3>2 DEF Backed
    <3>5. Executes(o)'
      BY <3>1, <3>2 DEF Writes, Continues, Executes, At, JobOf, RowOf
    <3>6. Delivers(o)'
      BY <3>1 DEF IInv, ClaimOK, Delivers, Writes, Continues, At, JobOf, RowOf
    <3>7. QED
      BY <3>3, <3>4, <3>5, <3>6 DEF ClaimOK
  <2>3. QED
    BY <2>1, <2>2
<1>3. ASSUME NEW j \in Job
      PROVE  RowOK(j)'
  BY DEF IInv, Writes, RowOK
<1>4. QED
  BY <1>1, <1>2, <1>3 DEF IInv

\* Every write of executeOwnedJob and deliverJob is such a step.
LEMMA WritesOnce ==
    ASSUME IInv, TypeOK', NEW o \in Owner, NEW lag \in Lag, ~At(o, "idle"),
           \/ lease[o].phase = "settled" /\ SettledWrite(o, lag)
           \/ lease[o].phase = "failing" /\ RecordFailure(o, lag)
           \/ lease[o].phase = "retrying" /\ Postpone(o, lag)
           \/ lease[o].phase = "finishing" /\ FinishReply(o, lag)
           \/ lease[o].phase \in {"preparing", "requeueing"} /\ Redeliver(o, lag),
           \/ End(o)
           \/ Goto(o, "failing") /\ lease[o].kind = "execute"
           \/ Goto(o, "requeueing") /\ lease[o].kind = "deliver"
    PROVE  Writes(o)
<1> DEFINE j == JobOf(o)
<1>1. /\ j \in Job /\ row \in [Job -> Row] /\ lease \in [Owner -> Lease]
      /\ row[j] \in Row /\ lease[o] \in Lease
  BY DEF IInv, ClaimOK, Shape, TypeOK, JobsTypeOK
<1>2. /\ \A p \in Owner : p # o => lease'[p] = lease[p]
      /\ \/ lease'[o] = IdleLease
         \/ /\ Continues(o)
            /\ lease'[o].phase \in {"closed", "failing", "requeueing"}
            /\ lease'[o].phase = "failing" => lease[o].kind = "execute"
            /\ lease'[o].phase = "requeueing" => lease[o].kind = "deliver"
  BY <1>1 DEF End, Ended, Goto, Continues, Lease, At
<1>3. CASE lease[o].phase = "settled" /\ SettledWrite(o, lag)
  <2>1. /\ row[j].owner = o /\ row[j].status = "running"
        /\ lease[o].attempt = row[j].attempts
    BY <1>3 DEF SettledWrite, RecordAnswer, RecordDeferred, MarkReplyPending,
                MarkFinishedWithoutReply, HeldBy, IInv, ClaimOK, Shape, Executes, At,
                RowOf, ExecPhase
  <2>2. /\ \A k \in Job : k # j => row'[k] = row[k]
        /\ row'[j].owner \in {o, NoOwner}
        /\ \/ row'[j].status = "reply_pending" /\ row'[j].result = "answer"
           \/ row'[j].status = "deferred" /\ row'[j].result = "deferred"
        /\ row'[j].resultBy = lease[o].attempt /\ row'[j].attempts = row[j].attempts
    <3>1. CASE RecordAnswer(o, lag)
      BY <1>1, <3>1 DEF RecordAnswer, MarkReplyPending, HeldBy, Row
    <3>2. CASE RecordDeferred(o, lag)
      BY <1>1, <3>2 DEF RecordDeferred, MarkFinishedWithoutReply, HeldBy, Row
    <3>3. QED
      BY <1>3, <3>1, <3>2 DEF SettledWrite
  <2>3. QED
    BY <1>1, <1>2, <2>1, <2>2 DEF Writes, Advances, RowOf, RowOK, Recorded, Finished, StatusFor
<1>4. CASE lease[o].phase = "failing" /\ RecordFailure(o, lag)
  <2>1. /\ row[j].owner = o /\ row[j].status = "running"
        /\ lease[o].attempt = row[j].attempts
    BY <1>4 DEF RecordFailure, MarkReplyPending, HeldBy, IInv, ClaimOK, Shape, Executes,
                At, RowOf, ExecPhase
  <2>2. /\ \A k \in Job : k # j => row'[k] = row[k]
        /\ row'[j].owner = o /\ row'[j].status = "reply_pending"
        /\ row'[j].result = "failure"
        /\ row'[j].resultBy = lease[o].attempt /\ row'[j].attempts = row[j].attempts
    BY <1>1, <1>4, <2>1 DEF RecordFailure, MarkReplyPending, Row
  <2>3. QED
    BY <1>1, <1>2, <2>1, <2>2 DEF Writes, Advances, RowOf, RowOK, Recorded, Finished
<1>5. CASE lease[o].phase = "retrying" /\ Postpone(o, lag)
  <2>1. /\ row[j].owner = o /\ row[j].status = "running"
        /\ lease[o].attempt = row[j].attempts /\ lease[o].attempt < MaxAttempts
    BY <1>5 DEF Postpone, MarkRetry, HeldBy, IInv, ClaimOK, Shape, Executes,
                At, RowOf, ExecPhase, Unwritten
  <2>2. /\ \A k \in Job : k # j => row'[k] = row[k]
        /\ row'[j].owner = NoOwner /\ row'[j].status = "pending"
        /\ row'[j].attempts = row[j].attempts /\ row'[j].result = row[j].result
    BY <1>1, <1>5, <2>1 DEF Postpone, MarkRetry, Row
  <2>3. QED
    BY <1>1, <1>2, <2>1, <2>2 DEF Writes, Advances, RowOf, RowOK, Recorded, Finished
<1>6. CASE lease[o].phase = "finishing" /\ FinishReply(o, lag)
  <2>1. /\ row[j].owner = o /\ row[j].status = "reply_pending"
        /\ lease[o].outcome = row[j].result /\ row[j].resultBy = row[j].attempts
    BY <1>1, <1>6 DEF FinishReply, MarkFinished, HeldBy, IInv, ClaimOK, Shape, Delivers,
                      At, RowOf, RowOK, DeliverPhase, Recorded
  <2>2. /\ \A k \in Job : k # j => row'[k] = row[k]
        /\ row'[j].owner = NoOwner /\ row'[j].status = StatusFor(row[j].result)
        /\ row'[j].result = row[j].result
        /\ row'[j].resultBy = row[j].resultBy /\ row'[j].attempts = row[j].attempts
    BY <1>1, <1>6, <2>1 DEF FinishReply, MarkFinished, Row
  <2>3. StatusFor(row[j].result) \in Finished
    BY DEF StatusFor, Finished
  <2>4. QED
    BY <1>1, <1>2, <2>1, <2>2, <2>3 DEF Writes, Advances, RowOf, RowOK, Recorded, Finished
<1>7. CASE lease[o].phase \in {"preparing", "requeueing"} /\ Redeliver(o, lag)
  <2>1. /\ row[j].owner = o /\ row[j].status = "reply_pending"
        /\ row[j].resultBy = row[j].attempts /\ row[j].result \in {"answer", "failure"}
    BY <1>1, <1>7 DEF Redeliver, MarkRetry, HeldBy, IInv, ClaimOK, Shape, Delivers,
                      At, RowOf, RowOK, DeliverPhase, Recorded, Finished
  <2>2. /\ \A k \in Job : k # j => row'[k] = row[k]
        /\ row'[j].owner = NoOwner /\ row'[j].status = "reply_pending"
        /\ row'[j].result = row[j].result
        /\ row'[j].resultBy = row[j].resultBy /\ row'[j].attempts = row[j].attempts
    BY <1>1, <1>7, <2>1 DEF Redeliver, MarkRetry, Row
  <2>3. QED
    BY <1>1, <1>2, <2>1, <2>2 DEF Writes, Advances, RowOf, RowOK, Recorded, Finished
<1>8. QED
  BY <1>3, <1>4, <1>5, <1>6, <1>7

\* A step of executeOwnedJob or deliverJob moves the claim or writes its row.
LEMMA ExecutionSteps ==
    ASSUME IInv, TypeOK', NEW o \in Owner, Execution(o)
    PROVE  Moves(o) \/ Writes(o)
<1>1. ASSUME UNCHANGED row, ~At(o, "idle"), End(o)
      PROVE  Moves(o)
  BY <1>1, EndMoves
<1>2. CASE Record(o)
  BY <1>1, <1>2, WritesOnce DEF Record, At
<1>3. CASE RecordFails(o)
  <2>1. lease[o].phase = "settled" /\ lease[o].kind = "execute"
    BY <1>3 DEF RecordFails, At, IInv, ClaimOK, Shape, ExecPhase
  <2>2. CASE (\E lag \in Lag : SettledWrite(o, lag)) /\ Catch(o, "fatal", TRUE)
    <3>1. End(o) \/ Goto(o, "failing")
      BY <2>2 DEF Catch, CatchPhase, WillRetry, End, Goto
    <3>2. QED
      BY <2>1, <2>2, <3>1, WritesOnce DEF At
  <2>3. CASE UNCHANGED row /\ Catch(o, "store", TRUE)
    BY <2>1, <2>3, CatchMoves
  <2>4. QED
    BY <1>3, <2>2, <2>3 DEF RecordFails
<1>4. CASE Retry(o)
  BY <1>1, <1>4, WritesOnce DEF Retry, At
<1>5. CASE Fail(o)
  BY <1>1, <1>5, WritesOnce DEF Fail, At
<1>6. QED
  BY <1>2, <1>3, <1>4, <1>5, ExecutionMoves DEF Execution

\* So does a step of deliverJob.
LEMMA DeliverySteps ==
    ASSUME IInv, TypeOK', NEW o \in Owner, Delivery(o)
    PROVE  Moves(o) \/ Writes(o)
<1>1. ASSUME UNCHANGED row, lease[o].phase \in {"preparing", "finishing", "requeueing"},
             End(o) \/ Goto(o, "requeueing")
      PROVE  Moves(o)
  <2>1. CASE End(o)
    BY <1>1, <2>1, EndMoves DEF At
  <2>2. CASE Goto(o, "requeueing")
    BY <1>1, <2>2
       DEF IInv, TypeOK, ClaimOK, Shape, Goto, At, Moves, Continues, Lease, Working,
           Unwritten, ExecPhase, DeliverPhase
  <2>3. QED
    BY <1>1, <2>1, <2>2
<1>2. lease[o].phase \in DeliverPhase => lease[o].kind = "deliver"
  BY DEF IInv, ClaimOK, Shape
<1>3. CASE RetrySilent(o)
  <2>1. lease[o].phase = "preparing" /\ lease[o].kind = "deliver"
    BY <1>2, <1>3 DEF RetrySilent, At, DeliverPhase
  <2>2. CASE UNCHANGED row
    BY <1>1, <1>3, <2>1, <2>2, EndMoves DEF RetrySilent, At
  <2>3. CASE \E lag \in Lag : Redeliver(o, lag)
    BY <1>3, <2>1, <2>3, WritesOnce DEF RetrySilent, At
  <2>4. QED
    BY <1>3, <2>2, <2>3 DEF RetrySilent
<1>4. CASE Finish(o)
  <2>1. lease[o].phase = "finishing" /\ lease[o].kind = "deliver"
    BY <1>2, <1>4 DEF Finish, At, DeliverPhase
  <2>2. CASE UNCHANGED row
    BY <1>1, <1>4, <2>1, <2>2, EndMoves DEF Finish, At
  <2>3. CASE \E lag \in Lag : FinishReply(o, lag)
    BY <1>4, <2>1, <2>3, WritesOnce DEF Finish, At
  <2>4. QED
    BY <1>4, <2>2, <2>3 DEF Finish
<1>5. CASE Requeue(o)
  BY <1>1, <1>5, WritesOnce DEF Requeue, At
<1>6. QED
  BY <1>3, <1>4, <1>5, OtherMoves DEF Delivery

----------------------------------------------------------------------------
(* Renewals, claims, registrations and the clock.                          *)

\* Only the claim o changed, and no row: the rest of IInv is unaffected.
LEMMA OnlyClaim ==
    ASSUME IInv, TypeOK', NEW o \in Owner, UNCHANGED row,
           \A p \in Owner : p # o => lease'[p] = lease[p],
           ClaimOK(o)'
    PROVE  IInv'
<1>1. ASSUME NEW p \in Owner, p # o
      PROVE  ClaimOK(p)'
  BY <1>1 DEF IInv, ClaimOK, Shape, Backed, Executes, Delivers, At, JobOf, RowOf
<1>2. ASSUME NEW j \in Job
      PROVE  RowOK(j)'
  BY DEF IInv, RowOK
<1>3. QED
  BY <1>1, <1>2 DEF IInv

\* A renewal is sent: nothing it will be counted from is later than now.
LEMMA SendKeeps ==
    ASSUME IInv, TypeOK', NEW o \in Owner, NEW p \in {lease[o].phase, "acquiring"},
           ~At(o, "idle"), p = "acquiring" => lease[o].phase \in {"claimed", "acquiring"},
           lease' = [lease EXCEPT ![o] = SentRenewal([@ EXCEPT !.phase = p])], UNCHANGED row
    PROVE  IInv'
<1>1. /\ lease[o] \in Lease /\ lease \in [Owner -> Lease]
      /\ lease[o].deadline \in Past..LeaseMs
  BY DEF IInv, TypeOK, Lease
<1>2. /\ lease'[o].phase = p /\ lease'[o].renew = "sent" /\ lease'[o].renewAge = 0
      /\ lease'[o].job = lease[o].job /\ lease'[o].kind = lease[o].kind
      /\ lease'[o].attempt = lease[o].attempt /\ lease'[o].deadline = lease[o].deadline
      /\ lease'[o].outcome = lease[o].outcome
      /\ \A q \in Owner : q # o => lease'[q] = lease[q]
  BY <1>1 DEF SentRenewal, Lease
<1>3. lease'[o].deadline <= LeaseMs - lease'[o].renewAge
  BY <1>1, <1>2, TimingAssumption DEF Past
<1>4. Shape(o)'
  BY <1>2, <1>3 DEF IInv, ClaimOK, Shape, At, JobOf, ExecPhase, DeliverPhase
<1>5. Backed(o)' /\ Executes(o)' /\ Delivers(o)'
  BY <1>2
     DEF IInv, ClaimOK, Backed, Executes, Delivers, At, JobOf, RowOf, Working, Unwritten
<1>6. QED
  BY <1>2, <1>4, <1>5, OnlyClaim DEF ClaimOK

\* FirstRenewal and Heartbeat send a renewal or move the claim.
LEMMA SendSteps ==
    ASSUME IInv, TypeOK', NEW o \in Owner, FirstRenewal(o) \/ Heartbeat(o)
    PROVE  IInv'
<1>1. lease[o] \in Lease /\ lease \in [Owner -> Lease]
  BY DEF IInv, TypeOK
<1>2. CASE FirstRenewal(o)
  <2>1. CASE Owned(o)
    BY <1>2, <2>1, SendKeeps DEF FirstRenewal, At
  <2>2. CASE ~Owned(o)
    BY <1>2, <2>2, EndMoves, MoveKeeps DEF FirstRenewal, End, At
  <2>3. QED
    BY <2>1, <2>2
<1>3. CASE Heartbeat(o)
  <2>1. ~At(o, "idle") /\ UNCHANGED row
    BY <1>3 DEF Heartbeat, TimersArmed, At, ExecPhase, DeliverPhase
  <2>2. CASE lease[o].deadline > 0
    <3>1. [lease[o] EXCEPT !.phase = lease[o].phase] = lease[o]
      BY <1>1 DEF Lease
    <3>2. lease' = [lease EXCEPT ![o] = SentRenewal([@ EXCEPT !.phase = lease[o].phase])]
      BY <1>3, <2>2, <3>1 DEF Heartbeat
    <3>3. QED
      BY <2>1, <3>2, SendKeeps DEF At
  <2>3. CASE ~(lease[o].deadline > 0)
    <3>1. lease' = [lease EXCEPT ![o] = [@ EXCEPT !.aborted = TRUE]]
      BY <1>3, <2>3 DEF Heartbeat
    <3>2. Moves(o)
      BY <1>1, <2>1, <3>1
         DEF IInv, ClaimOK, Shape, At, Moves, Continues, Lease, Working, Unwritten,
             ExecPhase, DeliverPhase
    <3>3. QED
      BY <3>2, MoveKeeps
  <2>4. QED
    BY <2>2, <2>3
<1>4. QED
  BY <1>2, <1>3

\* The database executes a renewal: the row is extended for its owner only.
LEMMA RenewExecutesKeeps ==
    ASSUME IInv, TypeOK', NEW o \in Owner, RenewExecutes(o)
    PROVE  IInv'
<1>1. /\ lease[o] \in Lease /\ lease \in [Owner -> Lease] /\ row \in [Job -> Row]
      /\ ~At(o, "idle") /\ JobOf(o) \in Job /\ row[JobOf(o)] \in Row
  BY DEF IInv, TypeOK, JobsTypeOK, RenewExecutes, ClaimOK, Shape
<1>2. PICK lag \in Lag :
         /\ lag <= lease[o].renewAge
         /\ \/ /\ Renew(JobOf(o), o, lag)
               /\ lease' = [lease EXCEPT ![o].renew = "applied"]
            \/ /\ ~Renewable(JobOf(o), o, lag)
               /\ lease' = [lease EXCEPT ![o].renew = "refused"]
               /\ UNCHANGED row
  BY DEF RenewExecutes
<1>3. /\ \A p \in Owner : p # o => lease'[p] = lease[p]
      /\ lease'[o].renew \in {"applied", "refused"}
      /\ lease'[o].phase = lease[o].phase /\ lease'[o].job = lease[o].job
      /\ lease'[o].kind = lease[o].kind /\ lease'[o].attempt = lease[o].attempt
      /\ lease'[o].deadline = lease[o].deadline /\ lease'[o].outcome = lease[o].outcome
      /\ lease'[o].renewAge = lease[o].renewAge
  BY <1>1, <1>2 DEF Lease
<1>4. Shape(o)'
  BY <1>3 DEF IInv, ClaimOK, RenewExecutes, Shape, At, JobOf
<1>5. CASE UNCHANGED row /\ lease'[o].renew = "refused"
  <2>1. Backed(o)' /\ Executes(o)' /\ Delivers(o)'
    BY <1>3, <1>5 DEF IInv, ClaimOK, Backed, Executes, Delivers, At, JobOf, RowOf
  <2>2. QED
    BY <1>3, <1>4, <1>5, <2>1, OnlyClaim DEF ClaimOK
<1>6. CASE Renew(JobOf(o), o, lag)
  <2>1. /\ RowOf(o).owner = o
        /\ \A k \in Job : k # JobOf(o) => row'[k] = row[k]
        /\ row'[JobOf(o)] = [row[JobOf(o)] EXCEPT !.leaseExpires = LeaseMs - lag]
    BY <1>1, <1>6 DEF Renew, Renewable, HeldBy, RowOf
  <2>2. /\ row'[JobOf(o)].leaseExpires = LeaseMs - lag
        /\ \A k \in Job : /\ row'[k].owner = row[k].owner
                           /\ row'[k].status = row[k].status
                           /\ row'[k].attempts = row[k].attempts
                           /\ row'[k].result = row[k].result
                           /\ row'[k].resultBy = row[k].resultBy
    BY <1>1, <2>1 DEF Row
  <2>3. LeaseMs - lag >= LeaseMs - lease[o].renewAge
    BY <1>1, <1>2, TimingAssumption DEF Lag, Lease
  <2>4. lease[o].deadline <= LeaseMs - lease[o].renewAge
    BY DEF IInv, ClaimOK, Shape, RenewExecutes
  <2>5. /\ lease[o].deadline \in Int /\ LeaseMs - lag \in Int
        /\ LeaseMs - lease[o].renewAge \in Int
    BY <1>1, TimingAssumption DEF Lease, Lag, Past
  <2>6. LeaseMs - lag >= lease[o].deadline
    BY <2>3, <2>4, <2>5
  <2>7. Backed(o)'
    BY <1>1, <1>3, <2>1, <2>2, <2>3, <2>6 DEF IInv, ClaimOK, Backed, JobOf, RowOf
  <2>8. Executes(o)' /\ Delivers(o)'
    BY <1>1, <1>3, <2>2 DEF IInv, ClaimOK, Executes, Delivers, At, JobOf, RowOf
  <2>9. ASSUME NEW p \in Owner, p # o
        PROVE  ClaimOK(p)'
    <3>1. Shape(p)' /\ (~At(p, "idle") => JobOf(p) \in Job)
      BY <1>3, <2>9 DEF IInv, ClaimOK, Shape, At, JobOf
    <3>2. Executes(p)' /\ Delivers(p)'
      BY <1>3, <2>2, <2>9, <3>1
         DEF IInv, ClaimOK, Executes, Delivers, At, JobOf, RowOf
    <3>3. Backed(p)'
      <4>1. "idle" \notin Working
        BY DEF Working
      <4>2. CASE JobOf(p) = JobOf(o)
        BY <1>3, <2>1, <2>9, <4>2 DEF IInv, ClaimOK, Backed, JobOf, RowOf
      <4>3. CASE JobOf(p) # JobOf(o)
        BY <1>3, <2>1, <2>9, <3>1, <4>1, <4>3
           DEF IInv, ClaimOK, Backed, At, JobOf, RowOf
      <4>4. QED
        BY <4>2, <4>3
    <3>4. QED
      BY <3>1, <3>2, <3>3 DEF ClaimOK
  <2>10. ASSUME NEW k \in Job
         PROVE  RowOK(k)'
    BY <2>2 DEF IInv, RowOK
  <2>11. QED
    BY <1>4, <2>7, <2>8, <2>9, <2>10 DEF IInv, ClaimOK
<1>7. QED
  BY <1>1, <1>2, <1>5, <1>6 DEF Lease

\* A renewal returns: a confirmed one extends the deadline to where the row
\* already is; any other leaves the deadline alone.
LEMMA RenewReturnsKeeps ==
    ASSUME IInv, TypeOK', NEW o \in Owner, RenewReturns(o)
    PROVE  IInv'
<1> DEFINE l == lease[o]
           m == lease'[o]
<1>1. /\ l \in Lease /\ lease \in [Owner -> Lease] /\ UNCHANGED row
      /\ ~At(o, "idle") /\ JobOf(o) \in Job /\ RowOf(o) \in Row
      /\ l.deadline \in Int /\ l.renewAge \in Int /\ LeaseMs \in Int
  BY TimingAssumption
     DEF IInv, TypeOK, JobsTypeOK, RenewReturns, ClaimOK, Shape, RowOf, Lease, Past
<1>2. \A p \in Owner : p # o => lease'[p] = lease[p]
  BY DEF RenewReturns
<1>3. /\ Settled(l).renew = "none" /\ Settled(l).phase = l.phase
      /\ Settled(l).job = l.job /\ Settled(l).kind = l.kind
      /\ Settled(l).attempt = l.attempt /\ Settled(l).outcome = l.outcome
      /\ Settled(l).deadline = l.deadline /\ Settled(l) \in Lease
  BY <1>1, RenewalTyped DEF Settled, Lease
<1>4. /\ Extended(l).renew = "none" /\ Extended(l).phase = l.phase
      /\ Extended(l).job = l.job /\ Extended(l).kind = l.kind
      /\ Extended(l).attempt = l.attempt /\ Extended(l).outcome = l.outcome
      /\ Extended(l).deadline = LeaseMs - l.renewAge /\ Extended(l) \in Lease
  BY <1>1, <1>3, RenewalTyped DEF Extended, Lease
<1>5. CASE m = IdleLease
  <2>1. ClaimOK(o)'
    BY <1>5 DEF IdleLease, ClaimOK, Shape, Backed, Executes, Delivers, At,
                Working, ExecPhase, DeliverPhase
  <2>2. QED
    BY <1>1, <1>2, <2>1, OnlyClaim
<1>6. ASSUME NEW p \in Phase,
             m.phase = p, m.renew = "none", m.job = l.job, m.kind = l.kind,
             m.attempt = l.attempt, m.outcome = l.outcome,
             \/ m.deadline = l.deadline
             \/ Confirmed(l) /\ m.deadline = LeaseMs - l.renewAge,
             p # "idle",
             \/ p = l.phase
             \/ l.phase = "acquiring" /\ p \in {FirstPhase(l), "requeueing"},
             p = "requeueing" => l.kind = "deliver"
      PROVE  IInv'
  <2>1. /\ p \in ExecPhase => l.kind = "execute"
        /\ p \in DeliverPhase => l.kind = "deliver"
        /\ p = "retrying" => l.attempt < MaxAttempts
        /\ p \in Working => l.phase \in Working
        /\ p \in Unwritten => l.phase \in Unwritten
    BY <1>1, <1>6
       DEF IInv, ClaimOK, Shape, FirstPhase, At, ExecPhase, DeliverPhase, Working,
           Unwritten, Lease
  <2>2. Shape(o)'
    BY <1>1, <1>6, <2>1 DEF Shape, At, JobOf
  <2>3. Backed(o)'
    <3>1. CASE m.deadline = l.deadline
      BY <1>1, <1>6, <2>1, <3>1 DEF IInv, ClaimOK, Backed, JobOf, RowOf
    <3>2. CASE Confirmed(l) /\ m.deadline = LeaseMs - l.renewAge
      BY <1>1, <1>6, <2>1, <3>2 DEF IInv, ClaimOK, Backed, Confirmed, JobOf, RowOf
    <3>3. QED
      BY <1>6, <3>1, <3>2
  <2>4. Executes(o)' /\ Delivers(o)'
    BY <1>1, <1>6, <2>1 DEF IInv, ClaimOK, Executes, Delivers, At, JobOf, RowOf
  <2>5. QED
    BY <1>1, <1>2, <2>2, <2>3, <2>4, OnlyClaim DEF ClaimOK
<1>7. CASE At(o, "acquiring")
  <2>1. m = AfterFirstRenewal(l)
    BY <1>1, <1>7 DEF RenewReturns, At
  <2>2. CASE Confirmed(l)
    <3>1. m = [Extended(l) EXCEPT !.phase = FirstPhase(l)]
      BY <2>1, <2>2 DEF AfterFirstRenewal
    <3>2. FirstPhase(l) \in Phase /\ FirstPhase(l) \notin {"idle", "requeueing"}
      BY Values DEF FirstPhase
    <3>3. /\ m.phase = FirstPhase(l) /\ m.renew = "none" /\ m.job = l.job
          /\ m.kind = l.kind /\ m.attempt = l.attempt /\ m.outcome = l.outcome
          /\ m.deadline = LeaseMs - l.renewAge
      BY <1>4, <3>1 DEF Lease
    <3>4. QED
      BY <1>6, <1>7, <2>2, <3>2, <3>3 DEF At
  <2>3. CASE ~Confirmed(l) /\ l.renew = "unconfirmed" /\ l.kind = "deliver"
    <3>1. m = [Settled(l) EXCEPT !.phase = "requeueing"]
      BY <2>1, <2>3 DEF AfterFirstRenewal
    <3>2. /\ m.phase = "requeueing" /\ m.renew = "none" /\ m.job = l.job
          /\ m.kind = l.kind /\ m.attempt = l.attempt /\ m.outcome = l.outcome
          /\ m.deadline = l.deadline
      BY <1>3, <3>1 DEF Lease
    <3>3. QED
      BY <1>6, <1>7, <2>3, <3>2, Values DEF At
  <2>4. CASE ~Confirmed(l) /\ ~(l.renew = "unconfirmed" /\ l.kind = "deliver")
    BY <1>3, <1>5, <2>1, <2>4 DEF AfterFirstRenewal, Ended
  <2>5. QED
    BY <2>2, <2>3, <2>4
<1>8. CASE At(o, "closed")
  BY <1>1, <1>5, <1>8 DEF RenewReturns, At
<1>9. CASE ~At(o, "acquiring") /\ ~At(o, "closed")
  <2>1. m = AfterHeartbeat(l)
    BY <1>1, <1>9 DEF RenewReturns, At
  <2>2. CASE Confirmed(l)
    <3>1. m = Extended(l)
      BY <2>1, <2>2 DEF AfterHeartbeat
    <3>2. /\ l.phase \in Phase /\ l.phase # "idle"
          /\ l.phase = "requeueing" => l.kind = "deliver"
      BY <1>1 DEF IInv, ClaimOK, Shape, Lease, DeliverPhase, At
    <3>3. /\ m.phase = l.phase /\ m.renew = "none" /\ m.job = l.job
          /\ m.kind = l.kind /\ m.attempt = l.attempt /\ m.outcome = l.outcome
          /\ m.deadline = LeaseMs - l.renewAge
      BY <1>4, <3>1
    <3>4. QED
      BY <1>6, <2>2, <3>2, <3>3 DEF At
  <2>3. CASE ~Confirmed(l)
    <3>1. PICK b : m = [Settled(l) EXCEPT !.aborted = b]
      BY <2>1, <2>3 DEF AfterHeartbeat
    <3>2. /\ m.phase = l.phase /\ m.renew = "none" /\ m.job = l.job
          /\ m.kind = l.kind /\ m.attempt = l.attempt /\ m.outcome = l.outcome
          /\ m.deadline = l.deadline
      BY <1>3, <3>1 DEF Lease
    <3>3. /\ l.phase \in Phase /\ l.phase # "idle"
          /\ l.phase = "requeueing" => l.kind = "deliver"
      BY <1>1 DEF IInv, ClaimOK, Shape, Lease, DeliverPhase, At
    <3>4. QED
      BY <1>6, <3>2, <3>3 DEF At
  <2>4. QED
    BY <2>2, <2>3
<1>10. QED
  BY <1>7, <1>8, <1>9

\* A claim makes its token the owner: whoever had the row has lost it.
LEMMA ClaimKeeps ==
    ASSUME IInv, TypeOK', NEW o \in Owner, NEW j \in Job, NEW lag \in Lag,
           ClaimById(j, o, lag) \/ ClaimReplyById(j, o, lag),
           NEW m, lease' = [lease EXCEPT ![o] = m],
           m.phase = "claimed", m.job = j, m.renew = "none", m.deadline = LeaseMs - lag,
           \/ /\ ClaimById(j, o, lag)
              /\ m.kind = "execute" /\ m.attempt = row[j].attempts + 1
           \/ /\ ClaimReplyById(j, o, lag)
              /\ m.kind = "deliver" /\ m.outcome = row[j].result
    PROVE  IInv'
<1>1. /\ lease \in [Owner -> Lease] /\ row \in [Job -> Row] /\ row[j] \in Row
      /\ row[j].leaseExpires \in Int /\ lag \in Int /\ LeaseMs - lag \in Int
      /\ LeaseMs - lag > 0 /\ lag >= 0
  BY TimingAssumption DEF IInv, TypeOK, JobsTypeOK, Row, Lag, Past
<1>2. lease'[o] = m /\ \A p \in Owner : p # o => lease'[p] = lease[p]
  BY <1>1
<1>3. /\ \A k \in Job : k # j => row'[k] = row[k]
      /\ row'[j].owner = o /\ row'[j].leaseExpires = LeaseMs - lag
      /\ row'[j].result = row[j].result /\ row'[j].resultBy = row[j].resultBy
  <2>1. CASE ClaimById(j, o, lag)
    BY <1>1, <2>1 DEF ClaimById, Row
  <2>2. CASE ClaimReplyById(j, o, lag)
    BY <1>1, <2>2 DEF ClaimReplyById, Row
  <2>3. QED
    BY <2>1, <2>2
<1>4. \/ /\ row[j].status \in {"pending", "running"}
         /\ row'[j].status = "running" /\ row'[j].attempts = row[j].attempts + 1
         /\ row[j].status = "running" => row[j].leaseExpires <= -lag
         /\ m.kind = "execute" /\ m.attempt = row[j].attempts + 1
      \/ /\ row[j].status = "reply_pending"
         /\ row'[j].status = "reply_pending" /\ row'[j].attempts = row[j].attempts
         /\ row[j].leaseExpires <= -lag
         /\ m.kind = "deliver" /\ m.outcome = row[j].result
  <2>1. CASE ClaimById(j, o, lag) /\ m.kind = "execute" /\ m.attempt = row[j].attempts + 1
    <3>1. row[j].status \in {"pending", "running"}
          /\ (row[j].status = "running" => row[j].leaseExpires <= -lag)
      BY <2>1 DEF ClaimById, Executable
    <3>2. row'[j].status = "running" /\ row'[j].attempts = row[j].attempts + 1
      BY <1>1, <2>1 DEF ClaimById, Row
    <3>3. QED
      BY <2>1, <3>1, <3>2
  <2>2. CASE ClaimReplyById(j, o, lag) /\ m.kind = "deliver" /\ m.outcome = row[j].result
    <3>1. row[j].status = "reply_pending" /\ row[j].leaseExpires <= -lag
      BY <2>2 DEF ClaimReplyById, Deliverable
    <3>2. row'[j].status = "reply_pending" /\ row'[j].attempts = row[j].attempts
      BY <1>1, <2>2, <3>1 DEF ClaimReplyById, Row
    <3>3. QED
      BY <2>2, <3>1, <3>2
  <2>3. QED
    BY <2>1, <2>2
<1>5. ClaimOK(o)'
  <2>1. Shape(o)'
    BY <1>2 DEF Shape, At, JobOf, ExecPhase, DeliverPhase
  <2>2. Backed(o)'
    BY <1>1, <1>2, <1>3, <1>4 DEF Backed, JobOf, RowOf, StatusOfKind
  <2>3. Executes(o)'
    BY <1>2, <1>3, <1>4 DEF Executes, At, JobOf, RowOf
  <2>4. Delivers(o)'
    BY <1>2, <1>3, <1>4 DEF Delivers, At, JobOf, RowOf, Recorded
  <2>5. QED
    BY <2>1, <2>2, <2>3, <2>4 DEF ClaimOK
<1>6. ASSUME NEW p \in Owner, p # o
      PROVE  ClaimOK(p)'
  <2>1. Shape(p)' /\ (~At(p, "idle") => JobOf(p) \in Job)
    BY <1>2, <1>6 DEF IInv, ClaimOK, Shape, At, JobOf
  <2>2. CASE JobOf(p) = j
    <3>1. Executes(p)'
      BY <1>2, <1>3, <1>6, <2>2 DEF Executes, JobOf, RowOf
    <3>2. Delivers(p)'
      BY <1>2, <1>3, <1>4, <1>6, <2>2
         DEF IInv, ClaimOK, Delivers, At, JobOf, RowOf, Recorded, Finished
    <3>3. Backed(p)'
      <4>1. ~(lease[p].phase \in Working /\ lease[p].deadline > 0)
        <5>1. lease[p].deadline \in Int /\ lease[p].kind \in {"execute", "deliver"}
          BY <1>1, TimingAssumption DEF Lease, Past
        <5>2. QED
          BY <1>1, <1>4, <2>2, <5>1
             DEF IInv, ClaimOK, Backed, JobOf, RowOf, StatusOfKind
      <4>2. QED
        BY <1>2, <1>6, <4>1 DEF Backed
    <3>4. QED
      BY <2>1, <3>1, <3>2, <3>3 DEF ClaimOK
  <2>3. CASE JobOf(p) # j
    <3>1. "idle" \notin Working
      BY DEF Working
    <3>2. QED
      BY <1>2, <1>3, <1>6, <2>1, <2>3, <3>1
         DEF IInv, ClaimOK, Backed, Executes, Delivers, At, JobOf, RowOf
  <2>4. QED
    BY <2>2, <2>3
<1>7. ASSUME NEW k \in Job
      PROVE  RowOK(k)'
  BY <1>3, <1>4 DEF IInv, RowOK, Recorded, Finished
<1>8. QED
  BY <1>5, <1>6, <1>7 DEF IInv

\* claimOne, claimReplyOne and processRegistered keep the invariant.
LEMMA ClaimSteps ==
    ASSUME IInv, TypeOK', NEW o \in Owner, NEW j \in Job, Claim(o, j) \/ ClaimReply(o, j)
    PROVE  IInv'
<1>1. CASE Claim(o, j)
  <2>1. PICK lag \in Lag :
           /\ ClaimById(j, o, lag)
           /\ lease' = [lease EXCEPT ![o] =
                 [IdleLease EXCEPT !.phase = "claimed", !.job = j,
                      !.attempt = row[j].attempts + 1, !.deadline = LeaseMs - lag]]
    BY <1>1 DEF Claim
  <2> DEFINE m == [IdleLease EXCEPT !.phase = "claimed", !.job = j,
                       !.attempt = row[j].attempts + 1, !.deadline = LeaseMs - lag]
  <2>2. /\ m.phase = "claimed" /\ m.job = j /\ m.renew = "none" /\ m.kind = "execute"
        /\ m.deadline = LeaseMs - lag /\ m.attempt = row[j].attempts + 1
    BY DEF IdleLease
  <2> HIDE DEF m
  <2>3. QED
    BY <2>1, <2>2, ClaimKeeps DEF m
<1>2. CASE ClaimReply(o, j)
  <2>1. PICK lag \in Lag :
           /\ ClaimReplyById(j, o, lag)
           /\ lease' = [lease EXCEPT ![o] =
                 [IdleLease EXCEPT !.phase = "claimed", !.job = j, !.kind = "deliver",
                      !.attempt = row[j].replyAttempts + 1, !.outcome = row[j].result,
                      !.deadline = LeaseMs - lag]]
    BY <1>2 DEF ClaimReply
  <2> DEFINE m == [IdleLease EXCEPT !.phase = "claimed", !.job = j, !.kind = "deliver",
                       !.attempt = row[j].replyAttempts + 1, !.outcome = row[j].result,
                       !.deadline = LeaseMs - lag]
  <2>2. /\ m.phase = "claimed" /\ m.job = j /\ m.renew = "none" /\ m.kind = "deliver"
        /\ m.deadline = LeaseMs - lag /\ m.outcome = row[j].result
    BY DEF IdleLease
  <2> HIDE DEF m
  <2>3. QED
    BY <2>1, <2>2, ClaimKeeps DEF m
<1>3. QED
  BY <1>1, <1>2

\* register keeps the invariant: the new row has no claim.
LEMMA RegisterKeeps ==
    ASSUME IInv, TypeOK', NEW j \in Job, Register(j)
    PROVE  IInv'
<1>1. PICK d \in 0..RetryDelay : Upsert(j, d)
  BY DEF Register
<1>2. /\ UNCHANGED lease /\ row \in [Job -> Row]
      /\ \A k \in Job : k # j => row'[k] = row[k]
      /\ row[j].status = "absent" /\ row'[j].status = "pending"
      /\ row'[j].owner = NoOwner /\ row'[j].attempts = 0
  BY <1>1 DEF Register, Upsert, AbsentRow, IInv, TypeOK, JobsTypeOK
<1>3. ASSUME NEW p \in Owner
      PROVE  ClaimOK(p)'
  <2>1. Shape(p)' /\ (~At(p, "idle") => JobOf(p) \in Job) /\ "idle" \notin Working
    BY <1>2 DEF IInv, ClaimOK, Shape, At, JobOf, Working
  <2>2. CASE JobOf(p) = j
    <3>1. lease[p].kind \in {"execute", "deliver"}
      BY DEF IInv, TypeOK, Lease
    <3>2. Executes(p)'
      BY <1>2, <2>2, OwnerAssumption DEF Executes, JobOf, RowOf
    <3>3. Backed(p)' /\ Delivers(p)'
      BY <1>2, <2>2, <3>1
         DEF IInv, ClaimOK, Backed, Delivers, At, JobOf, RowOf, StatusOfKind, Recorded,
             Finished
    <3>4. QED
      BY <2>1, <3>2, <3>3 DEF ClaimOK
  <2>3. CASE JobOf(p) # j
    BY <1>2, <2>1, <2>3 DEF IInv, ClaimOK, Backed, Executes, Delivers, At, JobOf, RowOf
  <2>4. QED
    BY <2>2, <2>3
<1>4. ASSUME NEW k \in Job
      PROVE  RowOK(k)'
  BY <1>2, RuntimeAssumption DEF IInv, RowOK, Recorded, Finished
<1>5. QED
  BY <1>3, <1>4 DEF IInv

\* A tick brings the end of the row's lease no closer than the deadline.
LEMMA TickKeeps ==
    ASSUME IInv, TypeOK', Tick
    PROVE  IInv'
<1>1. \A j \in Job : /\ row'[j].owner = row[j].owner /\ row'[j].status = row[j].status
                     /\ row'[j].attempts = row[j].attempts
                     /\ row'[j].result = row[j].result
                     /\ row'[j].resultBy = row[j].resultBy
                     /\ row'[j].leaseExpires = Elapsed(row[j].leaseExpires)
  BY DEF Tick, Elapse, IInv, TypeOK, JobsTypeOK, Row
<1>2. ASSUME NEW o \in Owner
      PROVE  ClaimOK(o)'
  <2> DEFINE l == lease[o]
             m == lease'[o]
  <2>1. /\ l \in Lease /\ m = Older(l)
        /\ l.deadline \in Past..LeaseMs /\ l.renewAge \in 0..LeaseMs
    BY DEF Tick, IInv, TypeOK, Lease
  <2>2. /\ m.phase = l.phase /\ m.job = l.job /\ m.kind = l.kind /\ m.renew = l.renew
        /\ m.attempt = l.attempt /\ m.outcome = l.outcome
        /\ m.deadline = Elapsed(l.deadline)
        /\ m.renewAge = IF l.renew # "none" /\ l.renewAge < LeaseMs
                        THEN l.renewAge + 1 ELSE l.renewAge
    BY <2>1 DEF Older, Lease
  <2>3. ~At(o, "idle") => JobOf(o) \in Job
    BY DEF IInv, ClaimOK, Shape
  <2>4. l.renew # "none" => m.deadline <= LeaseMs - m.renewAge
    <3>1. l.renew # "none" => l.deadline <= LeaseMs - l.renewAge
      BY DEF IInv, ClaimOK, Shape
    <3>2. QED
      BY <2>1, <2>2, <3>1, TimingAssumption DEF Elapsed, Past
  <2>5. Shape(o)'
    BY <2>2, <2>3, <2>4 DEF IInv, ClaimOK, Shape, At, JobOf
  <2>6. Backed(o)'
    <3>1. SUFFICES ASSUME m.phase \in Working, m.deadline > 0
                   PROVE  Backed(o)'
      BY DEF Backed
    <3>2. l.phase \in Working /\ l.deadline > 0 /\ m.deadline = l.deadline - 1
      BY <2>1, <2>2, <3>1, TimingAssumption DEF Elapsed, Past
    <3>3. /\ RowOf(o).owner = o
          /\ RowOf(o).status = StatusOfKind(l.kind)
          /\ RowOf(o).leaseExpires >= l.deadline
          /\ l.renew = "applied" => RowOf(o).leaseExpires >= LeaseMs - l.renewAge
      BY <3>2 DEF IInv, ClaimOK, Backed
    <3>4. JobOf(o) \in Job
      BY <2>3, <3>2 DEF At, Working
    <3>5. RowOf(o).leaseExpires \in Int /\ l.deadline \in Int
      BY <2>1, <3>4, TimingAssumption DEF IInv, TypeOK, JobsTypeOK, Row, RowOf, Past
    <3>6. row'[JobOf(o)].leaseExpires = RowOf(o).leaseExpires - 1
      BY <1>1, <3>2, <3>3, <3>4, <3>5, TimingAssumption DEF Elapsed, Past, RowOf
    <3>7. l.renew = "applied" =>
             l.renewAge < LeaseMs /\ m.renewAge = l.renewAge + 1
      <4>1. l.renew = "applied" => l.deadline <= LeaseMs - l.renewAge
        BY DEF IInv, ClaimOK, Shape
      <4>2. QED
        BY <2>1, <2>2, <3>2, <4>1, TimingAssumption DEF Past
    <3>8. QED
      BY <1>1, <2>1, <2>2, <3>2, <3>3, <3>4, <3>5, <3>6, <3>7, TimingAssumption
         DEF Backed, JobOf, RowOf
  <2>7. Executes(o)' /\ Delivers(o)'
    BY <1>1, <2>2, <2>3 DEF IInv, ClaimOK, Executes, Delivers, At, JobOf, RowOf
  <2>8. QED
    BY <2>5, <2>6, <2>7 DEF ClaimOK
<1>3. ASSUME NEW j \in Job
      PROVE  RowOK(j)'
  BY <1>1 DEF IInv, RowOK
<1>4. QED
  BY <1>2, <1>3 DEF IInv

\* Every step keeps the invariant.
LEMMA InductiveStep == IInv /\ [Next]_vars => IInv'
<1> SUFFICES ASSUME IInv, [Next]_vars
             PROVE  IInv'
  OBVIOUS
<1>1. TypeOK'
  BY TypeStep DEF IInv
<1>2. ASSUME NEW o \in Owner, Moves(o) \/ Writes(o)
      PROVE  IInv'
  BY <1>1, <1>2, MoveKeeps, WriteKeeps
<1>3. ASSUME NEW j \in Job, Register(j)
      PROVE  IInv'
  BY <1>1, <1>3, RegisterKeeps
<1>4. ASSUME NEW o \in Owner, NEW j \in Job, Claim(o, j) \/ ClaimReply(o, j)
      PROVE  IInv'
  BY <1>1, <1>4, ClaimSteps
<1>5. ASSUME NEW o \in Owner, FirstRenewal(o) \/ Timers(o) \/ Renewal(o)
      PROVE  IInv'
  BY <1>1, <1>2, <1>5, SendSteps, OtherMoves, RenewExecutesKeeps, RenewReturnsKeeps
     DEF Timers, Renewal
<1>6. ASSUME NEW o \in Owner, Execution(o) \/ Delivery(o)
      PROVE  IInv'
  BY <1>1, <1>2, <1>6, ExecutionSteps, DeliverySteps
<1>7. ASSUME NEW o \in Owner, Stop(o) \/ Crash(o)
      PROVE  IInv'
  BY <1>2, <1>7, OtherMoves
<1>8. ASSUME Tick
      PROVE  IInv'
  BY <1>1, <1>8, TickKeeps
<1>9. CASE UNCHANGED vars
  BY <1>1, <1>9
     DEF vars, IInv, ClaimOK, Shape, Backed, Executes, Delivers, RowOK, At, JobOf, RowOf
<1>10. QED
  BY <1>3, <1>4, <1>5, <1>6, <1>7, <1>8, <1>9 DEF Next

\* The invariant holds in every reachable state.
LEMMA Inductive == Spec => []IInv
<1>1. Init => IInv
  <2>1. Init => TypeOK
    BY TypeInit
  <2>2. ASSUME Init, NEW o \in Owner
        PROVE  ClaimOK(o)
    BY <2>2 DEF Init, IdleLease, ClaimOK, Shape, Backed, Executes, Delivers, At, Working,
                ExecPhase, DeliverPhase
  <2>3. ASSUME Init, NEW j \in Job
        PROVE  RowOK(j)
    BY <2>3 DEF Init, JobsInit, AbsentRow, RowOK, Recorded, Finished
  <2>4. QED
    BY <2>1, <2>2, <2>3 DEF IInv
<1>2. QED
  BY <1>1, InductiveStep, PTL DEF Spec

----------------------------------------------------------------------------
(* What follows from the invariant.                                        *)

\* withLease: a claim whose deadline is ahead holds its row at least as long,
\* whichever renewals were lost, late or unconfirmed.
THEOREM DeadlineIsBacked == Spec => []LeaseBacked
<1>1. IInv => LeaseBacked
  BY DEF IInv, ClaimOK, Backed, LeaseBacked, RowOf
<1>2. QED
  BY <1>1, Inductive, PTL

\* Two claims of a job are never both past assertOwned.
THEOREM OneOwner == Spec => []SoleOwner
<1>1. IInv => SoleOwner
  BY DEF IInv, ClaimOK, Backed, SoleOwner, RowOf
<1>2. QED
  BY <1>1, Inductive, PTL

\* A superseded attempt never records its result.
THEOREM LastAttemptRecords == Spec => []ResultOfLastAttempt
<1>1. IInv => ResultOfLastAttempt
  BY DEF IInv, RowOK, ResultOfLastAttempt
<1>2. QED
  BY <1>1, Inductive, PTL

\* retryableError and jobMaxAttempts bound the retries of a job.
THEOREM RetriesBounded == Spec => []QueuedHasAttemptLeft
<1>1. IInv => QueuedHasAttemptLeft
  BY DEF IInv, RowOK, QueuedHasAttemptLeft
<1>2. QED
  BY <1>1, Inductive, PTL

\* The final status of a job is that of its recorded result.
THEOREM FinishedStatus == Spec => []FinishedAsRecorded
<1>1. IInv => FinishedAsRecorded
  BY DEF IInv, RowOK, FinishedAsRecorded
<1>2. QED
  BY <1>1, Inductive, PTL

\* A recorded result is never changed, and a finished job never reopened, by
\* any claim of any process.
THEOREM RecordIsFinal == Spec => RecordedIsFinal
<1>1. IInv /\ [Next]_vars => [RecordKept]_vars
  <2> SUFFICES ASSUME IInv, [Next]_vars, NEW j \in Job, row[j].status \in Recorded
               PROVE  \/ /\ row'[j].status \in Recorded
                         /\ row'[j].result = row[j].result
                         /\ row[j].status \in Finished => row'[j].status = row[j].status
                      \/ UNCHANGED vars
    BY DEF RecordKept
  <2> DEFINE Kept == row'[j].status = row[j].status /\ row'[j].result = row[j].result
  <2>0. row \in [Job -> Row] /\ row[j] \in Row /\ TypeOK'
    BY TypeStep DEF IInv, TypeOK, JobsTypeOK
  <2>1. CASE UNCHANGED row
    BY <2>1
  <2>2. ASSUME NEW o \in Owner, Moves(o) \/ Writes(o)
        PROVE  /\ row'[j].status \in Recorded
               /\ row'[j].result = row[j].result
               /\ row[j].status \in Finished => row'[j].status = row[j].status
    BY <2>2 DEF Moves, Writes, Advances, RowOf, Finished
  <2>3. ASSUME NEW k \in Job, Register(k)
        PROVE  Kept
    BY <2>0, <2>3 DEF Register, Upsert, Recorded, Finished
  <2>4. ASSUME NEW o \in Owner, NEW k \in Job, Claim(o, k)
        PROVE  Kept
    BY <2>0, <2>4 DEF Claim, ClaimById, Executable, Recorded, Finished
  <2>5. ASSUME NEW o \in Owner, NEW k \in Job, ClaimReply(o, k)
        PROVE  Kept
    BY <2>0, <2>5 DEF ClaimReply, ClaimReplyById, Row
  <2>6. ASSUME NEW o \in Owner, RenewExecutes(o)
        PROVE  Kept
    BY <2>0, <2>6 DEF RenewExecutes, Renew, Row
  <2>7. ASSUME NEW o \in Owner, FirstRenewal(o) \/ Heartbeat(o) \/ RenewReturns(o)
        PROVE  UNCHANGED row
    BY <2>7 DEF FirstRenewal, Heartbeat, RenewReturns
  <2>8. ASSUME Tick
        PROVE  Kept
    BY <2>0, <2>8 DEF Tick, Elapse, Row
  <2>9. CASE UNCHANGED vars
    BY <2>9
  <2>10. QED
    BY <2>0, <2>1, <2>2, <2>3, <2>4, <2>5, <2>6, <2>7, <2>8, <2>9,
       ExecutionSteps, DeliverySteps, OtherMoves
       DEF Next, Timers, Renewal
<1>2. QED
  BY <1>1, Inductive, PTL DEF Spec, RecordedIsFinal

----------------------------------------------------------------------------
(* The worker implements JobQueue.                                         *)

\* The fields of a row that a query shows.
View(r) == [status |-> r.status, attempts |-> r.attempts, result |-> r.result]

Shown == [j \in Job |-> View(row[j])]

\* A write of a row shows as a step of the queue, or not at all.
LEMMA WriteShows ==
    ASSUME NEW j \in Job, row \in [Job -> Row], \A k \in Job : k # j => row'[k] = row[k],
           Advances(row[j], row'[j]), RowOK(j), RowOK(j)'
    PROVE  Queue!Next \/ UNCHANGED Shown
<1> DEFINE old == row[j]
           new == row'[j]
<1>1. Shown' = [Shown EXCEPT ![j] = [Shown[j] EXCEPT !.status = new.status,
                                                     !.result = new.result]]
  BY DEF Shown, View, Advances
<1>2. CASE old.status = "running" /\ new.status = "pending" /\ new.result = old.result
  <2>1. Queue!PutOff(j)
    BY <1>1, <1>2 DEF Queue!PutOff, Queue!Becomes, Shown, View, RowOK, Advances
  <2>2. QED
    BY <2>1 DEF Queue!Next
<1>3. CASE old.status = "running" /\ new.status = "reply_pending"
  <2>1. Queue!RecordResult(j)
    BY <1>1, <1>3 DEF Queue!RecordResult, Queue!Becomes, Shown, View, RowOK
  <2>2. QED
    BY <2>1 DEF Queue!Next
<1>4. CASE old.status = "running" /\ new.status = "deferred" /\ new.result = "deferred"
  <2>1. Queue!Defer(j)
    BY <1>1, <1>4 DEF Queue!Defer, Queue!Becomes, Shown, View
  <2>2. QED
    BY <2>1 DEF Queue!Next
<1>5. CASE /\ old.status = "reply_pending" /\ new.result = old.result
           /\ new.status = "reply_pending"
  <2>1. View(row'[j]) = View(row[j])
    BY <1>5 DEF View, Advances
  <2>2. \A k \in Job : View(row'[k]) = View(row[k])
    BY <2>1
  <2>3. QED
    BY <2>2 DEF Shown
<1>6. CASE /\ old.status = "reply_pending" /\ new.result = old.result
           /\ new.status = StatusFor(old.result)
  <2>1. Queue!ReplySent(j)
    BY <1>1, <1>6 DEF Queue!ReplySent, Queue!Becomes, Shown, View, RowOK, StatusFor
  <2>2. QED
    BY <2>1 DEF Queue!Next
<1>7. QED
  BY <1>2, <1>3, <1>4, <1>5, <1>6 DEF Advances

\* So does every step.
LEMMA QueueStep ==
    ASSUME IInv, [Next]_vars
    PROVE  Queue!Next \/ UNCHANGED Shown
<1>0. row \in [Job -> Row] /\ \A j \in Job : RowOK(j) /\ row[j] \in Row
  BY DEF IInv, TypeOK, JobsTypeOK
<1>1. CASE UNCHANGED row
  BY <1>1 DEF Shown
<1>2. ASSUME NEW o \in Owner, Writes(o)
      PROVE  Queue!Next \/ UNCHANGED Shown
  BY <1>0, <1>2, WriteShows DEF Writes, RowOf
<1>3. ASSUME NEW j \in Job, Register(j)
      PROVE  Queue!Next
  <2>1. /\ row[j].status = "absent"
        /\ row'[j].status = "pending" /\ row'[j].attempts = 0 /\ row'[j].result = "none"
        /\ \A k \in Job : k # j => row'[k] = row[k]
    BY <1>0, <1>3 DEF Register, Upsert, AbsentRow
  <2>2. Queue!Submit(j)
    BY <2>1 DEF Queue!Submit, Shown, View
  <2>3. QED
    BY <2>2 DEF Queue!Next
<1>4. ASSUME NEW o \in Owner, NEW j \in Job, Claim(o, j)
      PROVE  Queue!Next
  <2>1. /\ row[j].status \in {"pending", "running"} /\ row'[j].status = "running"
        /\ row'[j].attempts = row[j].attempts + 1 /\ row'[j].result = row[j].result
        /\ \A k \in Job : k # j => row'[k] = row[k]
    BY <1>0, <1>4 DEF Claim, ClaimById, Executable, Row
  <2>2. Queue!Execute(j)
    BY <2>1 DEF Queue!Execute, Shown, View
  <2>3. QED
    BY <2>2 DEF Queue!Next
<1>5. ASSUME NEW o \in Owner, NEW j \in Job, ClaimReply(o, j)
      PROVE  UNCHANGED Shown
  BY <1>0, <1>5 DEF ClaimReply, ClaimReplyById, Row, Shown, View
<1>6. ASSUME NEW o \in Owner, RenewExecutes(o)
      PROVE  UNCHANGED Shown
  BY <1>0, <1>6 DEF RenewExecutes, Renew, Row, Shown, View
<1>7. ASSUME NEW o \in Owner, FirstRenewal(o) \/ Heartbeat(o) \/ RenewReturns(o)
      PROVE  UNCHANGED row
  BY <1>7 DEF FirstRenewal, Heartbeat, RenewReturns
<1>8. ASSUME Tick
      PROVE  UNCHANGED Shown
  BY <1>0, <1>8 DEF Tick, Elapse, Row, Shown, View
<1>9. TypeOK'
  BY TypeStep DEF IInv
<1>10. ASSUME NEW o \in Owner, Moves(o)
       PROVE  UNCHANGED row
  BY <1>10 DEF Moves
<1>11. CASE UNCHANGED vars
  BY <1>1, <1>11 DEF vars
<1>12. QED
  BY <1>1, <1>2, <1>3, <1>4, <1>5, <1>6, <1>7, <1>8, <1>9, <1>10, <1>11,
     ExecutionSteps, DeliverySteps, OtherMoves
     DEF Next, Timers, Renewal

\* What callers see of the worker is a behaviour of the abstract queue: any
\* number of claims, with any faults, execute at least once, record at most
\* one result and end with its status.
THEOREM WorkerImplementsQueue == Spec => ImplementsQueue
<1>1. Init => Queue!Init
  BY DEF Init, JobsInit, AbsentRow, Queue!Init
<1>2. IInv /\ [Next]_vars => [Queue!Next]_Shown
  BY QueueStep
<1>3. QED
  BY <1>1, <1>2, Inductive, PTL DEF Spec, ImplementsQueue, Queue!Spec, Shown, View

----------------------------------------------------------------------------
(***************************************************************************)
(* Why a turn is not submitted again without a cause.  Each job has one    *)
(* right to submit a turn: its row has it before it is claimed, the claim  *)
(* then, and StartTurn spends it.  A right is created only with a cause.   *)
(***************************************************************************)

\* The phases in which a claim has the right, or is about to give it back to the row.
Unsubmitted == {"claimed", "acquiring", "starting", "admitting", "retrying"}

MayStart(o, j) == JobOf(o) = j /\ lease[o].kind = "execute" /\ lease[o].phase \in Unsubmitted
Starters(j) == {o \in Owner : MayStart(o, j)}
Unclaimed(j) == IF row[j].status \in {"absent", "pending"} THEN 1 ELSE 0

Accounted ==
    \A j \in Job :
        /\ IsFiniteSet(Starters(j))
        /\ Cardinality(Starters(j)) + Unclaimed(j) + submits[j] <= 1 + excuses[j]

\* What the claim o, the row and the counters of a job add up to.
Held(o, j) == IF MayStart(o, j) THEN 1 ELSE 0
Balance(o, j) == Held(o, j) + Unclaimed(j) + submits[j] - excuses[j]

\* A step of one claim that raises no balance.
LEMMA BalanceKeeps ==
    ASSUME TypeOK, TypeOK', Accounted, NEW o \in Owner,
           \A p \in Owner : p # o => lease'[p] = lease[p],
           \A j \in Job : Balance(o, j)' <= Balance(o, j)
    PROVE  Accounted'
<1> SUFFICES ASSUME NEW j \in Job
             PROVE  /\ IsFiniteSet(Starters(j)')
                    /\ Cardinality(Starters(j)') + Unclaimed(j)' + submits'[j] <= 1 + excuses'[j]
    BY DEF Accounted
<1> DEFINE rest == Starters(j) \ {o}
<1>1. IsFiniteSet(Starters(j)) /\ Cardinality(Starters(j)) + Unclaimed(j) + submits[j] <= 1 + excuses[j]
    BY DEF Accounted
<1>2. Starters(j)' \ {o} = rest
    BY DEF Starters, MayStart, JobOf
<1>3. /\ o \in Starters(j) <=> MayStart(o, j)
      /\ o \in Starters(j)' <=> MayStart(o, j)'
    BY DEF Starters
<1>4. /\ IsFiniteSet(rest) /\ Cardinality(rest) \in Nat
      /\ Cardinality(Starters(j)) = Cardinality(rest) + Held(o, j)
  <2>1. IsFiniteSet(rest) /\ Cardinality(rest) = IF o \in Starters(j) THEN Cardinality(Starters(j)) - 1
                                                 ELSE Cardinality(Starters(j))
    BY <1>1, FS_RemoveElement
  <2>2. Cardinality(rest) \in Nat /\ Cardinality(Starters(j)) \in Nat
    BY <1>1, <2>1, FS_CardinalityType
  <2> QED
    BY <1>3, <2>1, <2>2 DEF Held
<1> HIDE DEF rest
<1>5. /\ IsFiniteSet(Starters(j)')
      /\ Cardinality(Starters(j)') = Cardinality(rest) + Held(o, j)'
  <2>1. CASE MayStart(o, j)'
    <3>1. Starters(j)' = rest \cup {o} /\ o \notin rest
      BY <1>2, <1>3, <2>1 DEF rest
    <3> QED
      BY <1>4, <2>1, <3>1, FS_AddElement DEF Held
  <2>2. CASE ~MayStart(o, j)'
    <3>1. Starters(j)' = rest
      BY <1>2, <1>3, <2>2
    <3> QED
      BY <1>4, <2>2, <3>1 DEF Held
  <2> QED
    BY <2>1, <2>2
<1>6. /\ submits[j] \in Nat /\ excuses[j] \in Nat /\ submits'[j] \in Nat /\ excuses'[j] \in Nat
      /\ Unclaimed(j) \in {0, 1} /\ Unclaimed(j)' \in {0, 1}
      /\ Held(o, j) \in {0, 1} /\ Held(o, j)' \in {0, 1}
    BY DEF TypeOK, Unclaimed, Held
<1>7. Held(o, j)' + Unclaimed(j)' + submits'[j] - excuses'[j] <=
      Held(o, j) + Unclaimed(j) + submits[j] - excuses[j]
    BY DEF Balance
<1> QED
    BY <1>1, <1>4, <1>5, <1>6, <1>7

\* A step that neither gives a claim the right, nor a row, nor spends one.
Unspending(o) ==
    /\ \A p \in Owner : p # o => lease'[p] = lease[p]
    /\ \A j \in Job : /\ MayStart(o, j)' => MayStart(o, j)
                      /\ row'[j].status \in {"absent", "pending"} => row[j].status \in {"absent", "pending"}
                      /\ excuses'[j] >= excuses[j]
    /\ UNCHANGED submits

LEMMA UnspendingKeeps ==
    ASSUME TypeOK, TypeOK', Accounted, NEW o \in Owner, Unspending(o)
    PROVE  Accounted'
<1>1. ASSUME NEW j \in Job PROVE Balance(o, j)' <= Balance(o, j)
  <2>1. submits[j] \in Nat /\ excuses[j] \in Nat /\ submits'[j] = submits[j] /\ excuses'[j] \in Nat
        /\ excuses'[j] >= excuses[j]
    BY DEF TypeOK, Unspending
  <2>2. /\ Held(o, j) \in {0, 1} /\ Held(o, j)' \in {0, 1} /\ Held(o, j)' <= Held(o, j)
        /\ Unclaimed(j) \in {0, 1} /\ Unclaimed(j)' \in {0, 1} /\ Unclaimed(j)' <= Unclaimed(j)
    BY DEF Held, Unclaimed, Unspending
  <2> QED
    BY <2>1, <2>2 DEF Balance
<1> QED
    BY <1>1, BalanceKeeps DEF Unspending

\* No claim moves, and no row begins or ceases to wait for its first claim.
LEMMA SameKeeps ==
    ASSUME Accounted, UNCHANGED <<submits, excuses>>,
           \A o \in Owner : /\ lease'[o].job = lease[o].job /\ lease'[o].kind = lease[o].kind
                            /\ lease'[o].phase = lease[o].phase,
           \A j \in Job : Unclaimed(j)' = Unclaimed(j)
    PROVE  Accounted'
<1>1. \A j \in Job : Starters(j)' = Starters(j)
    BY DEF Starters, MayStart, JobOf
<1> QED
    BY <1>1 DEF Accounted

----------------------------------------------------------------------------
\* How a step changes the phase of its claim.
LEMMA PhaseMoves ==
    ASSUME TypeOK, NEW o \in Owner
    PROVE  /\ End(o) => /\ lease'[o].phase \in {"idle", "closed"}
                        /\ \A p \in Owner : p # o => lease'[p] = lease[p]
           /\ \A x : Goto(o, x) => /\ lease'[o].phase = x /\ lease'[o].job = lease[o].job
                                   /\ \A p \in Owner : p # o => lease'[p] = lease[p]
<1>1. lease[o] \in Lease /\ lease \in [Owner -> Lease]
    BY DEF TypeOK
<1>2. Ended(lease[o]).phase \in {"idle", "closed"}
    BY <1>1 DEF Ended, IdleLease, Lease
<1>3. End(o) => lease'[o] = Ended(lease[o]) /\ \A p \in Owner : p # o => lease'[p] = lease[p]
    BY <1>1 DEF End
<1>4. \A x : Goto(o, x) => /\ lease'[o].phase = x /\ lease'[o].job = lease[o].job
                           /\ \A p \in Owner : p # o => lease'[p] = lease[p]
    BY <1>1 DEF Goto, Lease
<1> QED
    BY <1>2, <1>3, <1>4

\* A claim that ends, or goes where it has no right, gives its own up.
LEMMA EndUnspending ==
    ASSUME TypeOK, NEW o \in Owner, UNCHANGED <<submits, excuses>>,
           End(o) \/ \E x \in Phase \ Unsubmitted : Goto(o, x),
           \A j \in Job : row'[j].status \in {"absent", "pending"} => row[j].status \in {"absent", "pending"}
    PROVE  Unspending(o)
<1>1. lease'[o].phase \notin Unsubmitted /\ \A p \in Owner : p # o => lease'[p] = lease[p]
    BY PhaseMoves DEF Unsubmitted
<1>2. \A j \in Job : excuses[j] \in Nat
    BY DEF TypeOK
<1> QED
    BY <1>1, <1>2 DEF Unspending, MayStart

\* The writes that record or deliver a result leave no row waiting for a claim.
LEMMA RecordingRows ==
    ASSUME IInv, NEW o \in Owner, ~At(o, "idle"), NEW lag \in Lag,
           \/ RecordAnswer(o, lag) \/ RecordDeferred(o, lag) \/ RecordFailure(o, lag)
           \/ Redeliver(o, lag) \/ FinishReply(o, lag)
    PROVE  \A j \in Job : row'[j].status \in {"absent", "pending"} => row[j].status \in {"absent", "pending"}
<1>1. JobOf(o) \in Job /\ row \in [Job -> Row]
    BY DEF IInv, TypeOK, JobsTypeOK, ClaimOK, Shape
<1>2. \A result : StatusFor(result) \notin {"absent", "pending"}
    BY DEF StatusFor
<1>3. ASSUME NEW r, r.status \notin {"absent", "pending"}, row' = [row EXCEPT ![JobOf(o)] = r]
      PROVE  \A j \in Job : row'[j].status \in {"absent", "pending"} => row[j].status \in {"absent", "pending"}
    BY <1>1, <1>3
<1> DEFINE old == row[JobOf(o)]
<1>4. old \in Row
    BY <1>1
<1>5. CASE RecordAnswer(o, lag) \/ RecordFailure(o, lag)
  <2>1. PICK result : row' = [row EXCEPT ![JobOf(o)] =
            [old EXCEPT !.status = "reply_pending", !.leaseExpires = -lag, !.result = result,
                        !.resultBy = lease[o].attempt]]
    BY <1>5 DEF RecordAnswer, RecordFailure, MarkReplyPending
  <2> QED
    BY <1>3, <1>4, <2>1 DEF Row
<1>6. CASE RecordDeferred(o, lag)
  <2>1. row' = [row EXCEPT ![JobOf(o)] =
            [old EXCEPT !.status = "deferred", !.owner = NoOwner, !.leaseExpires = Past, !.result = "deferred",
                        !.resultBy = lease[o].attempt]]
    BY <1>6 DEF RecordDeferred, MarkFinishedWithoutReply
  <2> QED
    BY <1>3, <1>4, <2>1 DEF Row
<1>7. CASE Redeliver(o, lag)
  <2>1. row' = [row EXCEPT ![JobOf(o)] =
            [old EXCEPT !.status = "reply_pending", !.nextAttempt = RetryDelay, !.owner = NoOwner,
                        !.leaseExpires = Past]]
    BY <1>7 DEF Redeliver, MarkRetry
  <2> QED
    BY <1>3, <1>4, <2>1 DEF Row
<1>8. CASE FinishReply(o, lag)
  <2>1. row' = [row EXCEPT ![JobOf(o)] =
            [old EXCEPT !.status = StatusFor(lease[o].outcome), !.owner = NoOwner, !.leaseExpires = Past]]
    BY <1>8 DEF FinishReply, MarkFinished
  <2> QED
    BY <1>2, <1>3, <1>4, <2>1 DEF Row
<1> QED
    BY <1>5, <1>6, <1>7, <1>8

----------------------------------------------------------------------------
\* The timers, renewals and the process: no claim gains a right.
LEMMA OthersUnspending ==
    ASSUME IInv, IInv', NEW o \in Owner,
           \/ FirstRenewal(o) \/ Timers(o) \/ Renewal(o) \/ Stop(o) \/ Crash(o)
    PROVE  Unspending(o)
<1>1. /\ lease[o] \in Lease /\ lease \in [Owner -> Lease] /\ \A j \in Job : excuses[j] \in Nat
      /\ UNCHANGED <<submits, excuses>>
    BY DEF IInv, TypeOK, FirstRenewal, Timers, Heartbeat, Expiry, Renewal, RenewExecutes, RenewUnconfirmed,
           RenewReturns, Stop, Crash
<1>2. ASSUME NEW l \in Lease, lease' = [lease EXCEPT ![o] = l],
             l.phase \in Unsubmitted /\ l.kind = "execute" =>
                 lease[o].phase \in Unsubmitted /\ lease[o].kind = "execute" /\ l.job = lease[o].job,
             \A j \in Job : row'[j].status = row[j].status
      PROVE  Unspending(o)
    BY <1>1, <1>2 DEF Unspending, MayStart, JobOf
<1>3. Ended(lease[o]) \in Lease /\ Ended(lease[o]).phase \notin Unsubmitted /\ IdleLease \in Lease
      /\ IdleLease.phase \notin Unsubmitted
    BY <1>1, EndTyped DEF Ended, IdleLease, Lease, Unsubmitted
<1>4. CASE FirstRenewal(o)
  <2>1. CASE Owned(o)
    <3> DEFINE l == SentRenewal([lease[o] EXCEPT !.phase = "acquiring"])
    <3>1. lease' = [lease EXCEPT ![o] = l] /\ lease[o].phase = "claimed" /\ UNCHANGED row
      BY <1>4, <2>1 DEF FirstRenewal, At
    <3>2. l \in Lease /\ l.job = lease[o].job /\ l.kind = lease[o].kind
      <4>1. "acquiring" \in Phase
        BY Values
      <4>2. [lease[o] EXCEPT !.phase = "acquiring"] \in Lease
        BY <1>1, <4>1, Fields
      <4>3. l \in Lease
        BY <4>2, RenewalTyped
      <4>4. l.job = lease[o].job /\ l.kind = lease[o].kind
        BY <1>1 DEF SentRenewal, Lease
      <4> QED
        BY <4>3, <4>4
    <3> QED
      BY <1>2, <3>1, <3>2 DEF Unsubmitted
  <2>2. CASE ~Owned(o)
    BY <1>2, <1>3, <1>4, <2>2 DEF FirstRenewal
  <2> QED
    BY <2>1, <2>2
<1>5. CASE Heartbeat(o)
  <2> DEFINE s == SentRenewal(lease[o])
             a == [lease[o] EXCEPT !.aborted = TRUE]
  <2>1. /\ s \in Lease /\ s.job = lease[o].job /\ s.kind = lease[o].kind /\ s.phase = lease[o].phase
        /\ a \in Lease /\ a.job = lease[o].job /\ a.kind = lease[o].kind /\ a.phase = lease[o].phase
    <3>1. s \in Lease /\ a \in Lease
      BY <1>1, Fields, RenewalTyped
    <3>2. /\ s.job = lease[o].job /\ s.kind = lease[o].kind /\ s.phase = lease[o].phase
          /\ a.job = lease[o].job /\ a.kind = lease[o].kind /\ a.phase = lease[o].phase
      BY <1>1 DEF SentRenewal, Lease
    <3> QED
      BY <3>1, <3>2
  <2>2. (lease' = [lease EXCEPT ![o] = s] \/ lease' = [lease EXCEPT ![o] = a]) /\ UNCHANGED row
    BY <1>5 DEF Heartbeat
  <2> HIDE DEF s, a
  <2> QED
    BY <1>2, <2>1, <2>2
<1>6. CASE Expiry(o) \/ Stop(o)
  <2> DEFINE a == [lease[o] EXCEPT !.aborted = TRUE]
  <2>1. a \in Lease /\ a.job = lease[o].job /\ a.kind = lease[o].kind /\ a.phase = lease[o].phase
    BY <1>1, Fields DEF Lease
  <2>2. lease' = [lease EXCEPT ![o] = a] /\ UNCHANGED row
    BY <1>6 DEF Expiry, Stop
  <2> HIDE DEF a
  <2> QED
    BY <1>2, <2>1, <2>2
<1>7. CASE Crash(o)
    BY <1>2, <1>3, <1>7 DEF Crash
<1>8. CASE RenewExecutes(o) \/ RenewUnconfirmed(o)
  <2>1. PICK x \in RenewState : lease' = [lease EXCEPT ![o] = [lease[o] EXCEPT !.renew = x]]
    BY <1>8, Values DEF RenewExecutes, RenewUnconfirmed
  <2> DEFINE l == [lease[o] EXCEPT !.renew = x]
  <2>2. l \in Lease /\ l.job = lease[o].job /\ l.kind = lease[o].kind /\ l.phase = lease[o].phase
    BY <1>1, Fields DEF Lease
  <2>3. \A j \in Job : row'[j].status = row[j].status
    <3>1. CASE UNCHANGED row
      BY <3>1
    <3>2. ASSUME NEW lag \in Lag, Renew(JobOf(o), o, lag)
          PROVE  \A j \in Job : row'[j].status = row[j].status
      <4>1. row \in [Job -> Row]
        BY DEF IInv, TypeOK, JobsTypeOK
      <4>2. row' = [row EXCEPT ![JobOf(o)] = [row[JobOf(o)] EXCEPT !.leaseExpires = LeaseMs - lag]]
        BY <3>2 DEF Renew
      <4> QED
        BY <4>1, <4>2 DEF Row
    <3> QED
      BY <1>8, <3>1, <3>2 DEF RenewExecutes, RenewUnconfirmed
  <2> HIDE DEF l
  <2> QED
    BY <1>2, <2>1, <2>2, <2>3 DEF l
<1>9. CASE RenewReturns(o)
  <2> DEFINE l == lease'[o]
  <2>1. l \in Lease /\ lease' = [lease EXCEPT ![o] = l] /\ UNCHANGED row
    BY <1>1, <1>9 DEF RenewReturns, IInv, TypeOK
  <2>2. l.phase \in Unsubmitted /\ l.kind = "execute" =>
            lease[o].phase \in Unsubmitted /\ lease[o].kind = "execute" /\ l.job = lease[o].job
    <3>1. CASE lease[o].phase = "closed"
      BY <1>1, <1>3, <1>9, <3>1 DEF RenewReturns
    <3>2. CASE lease[o].phase = "acquiring"
      <4>1. l = AfterFirstRenewal(lease[o])
        BY <1>1, <1>9, <3>2 DEF RenewReturns
      <4>2. \/ l = Ended(Settled(lease[o]))
            \/ l.job = lease[o].job /\ l.kind = lease[o].kind
        BY <1>1, <4>1 DEF AfterFirstRenewal, Extended, Settled, Lease
      <4>3. Ended(Settled(lease[o])).phase \notin Unsubmitted
        BY <1>1, RenewalTyped DEF Ended, IdleLease, Lease, Unsubmitted
      <4> QED
        BY <3>2, <4>2, <4>3 DEF Unsubmitted
    <3>3. CASE lease[o].phase \notin {"closed", "acquiring"}
      <4>1. l = AfterHeartbeat(lease[o])
        BY <1>1, <1>9, <3>3 DEF RenewReturns
      <4>2. l.job = lease[o].job /\ l.kind = lease[o].kind /\ l.phase = lease[o].phase
        BY <1>1, <4>1 DEF AfterHeartbeat, Extended, Settled, Lease
      <4> QED
        BY <4>2
    <3> QED
      BY <3>1, <3>2, <3>3
  <2> QED
    BY <1>2, <2>1, <2>2
<1> QED
    BY <1>4, <1>5, <1>6, <1>7, <1>8, <1>9 DEF Timers, Renewal

\* deliverJob: its claims have no right to submit a turn, and its writes open no row.
LEMMA DeliveryUnspending ==
    ASSUME IInv, NEW o \in Owner, Delivery(o)
    PROVE  Unspending(o)
<1>1. UNCHANGED <<submits, excuses>> /\ TypeOK
    BY DEF IInv, Delivery, Prepare, RetrySilent, Send, DeliveryFails, Finish, Requeue
<1>2. {"sending", "finishing", "requeueing"} \subseteq Phase \ Unsubmitted
    BY DEF Phase, DeliverPhase, Unsubmitted
<1>3. End(o) \/ \E x \in Phase \ Unsubmitted : Goto(o, x)
    BY <1>2 DEF Delivery, Prepare, RetrySilent, Send, DeliveryFails, Finish, Requeue
<1>4. ~At(o, "idle")
    BY DEF Delivery, Prepare, RetrySilent, Send, DeliveryFails, Finish, Requeue, At
<1>5. UNCHANGED row \/ \E lag \in Lag : Redeliver(o, lag) \/ FinishReply(o, lag)
    BY DEF Delivery, Prepare, RetrySilent, Send, DeliveryFails, Finish, Requeue
<1>6. \A j \in Job : row'[j].status \in {"absent", "pending"} => row[j].status \in {"absent", "pending"}
    BY <1>4, <1>5, RecordingRows
<1> QED
    BY <1>1, <1>3, <1>6, EndUnspending

\* The catch block, when it does not return a right that was spent.
LEMMA CatchUnspending ==
    ASSUME IInv, NEW o \in Owner, NEW error, NEW submitted, Catch(o, error, submitted), UNCHANGED submits,
           lease[o].phase \in Unsubmitted \/ (submitted /\ error # "network"),
           \A j \in Job : row'[j].status \in {"absent", "pending"} => row[j].status \in {"absent", "pending"},
           excuses' \in [Job -> Nat]
    PROVE  Unspending(o)
<1>1. lease[o] \in Lease /\ lease \in [Owner -> Lease] /\ excuses \in [Job -> Nat]
    BY DEF IInv, TypeOK
<1>2. \A j \in Job : excuses'[j] >= excuses[j]
    BY <1>1 DEF Catch
<1>3. /\ \A p \in Owner : p # o => lease'[p] = lease[p]
      /\ MayStart(o, JobOf(o))' => lease'[o].job = lease[o].job /\ lease'[o].kind = lease[o].kind
                                   /\ lease[o].phase \in Unsubmitted
  <2>1. CASE Owned(o)
    <3>1. lease' = [lease EXCEPT ![o] = [lease[o] EXCEPT !.phase = CatchPhase(o, error, submitted)]]
      BY <2>1 DEF Catch
    <3>2. /\ lease'[o].phase = CatchPhase(o, error, submitted)
          /\ lease'[o].job = lease[o].job /\ lease'[o].kind = lease[o].kind
          /\ \A p \in Owner : p # o => lease'[p] = lease[p]
      BY <1>1, <3>1 DEF Lease
    <3>3. lease[o].phase \in Unsubmitted \/ CatchPhase(o, error, submitted) = "failing"
      BY DEF CatchPhase, WillRetry
    <3> QED
      BY <3>2, <3>3 DEF MayStart, Unsubmitted
  <2>2. CASE ~Owned(o)
    <3>1. End(o)
      BY <2>2 DEF Catch, End
    <3> QED
      BY <1>1, <3>1, PhaseMoves DEF MayStart, Unsubmitted, IInv
  <2> QED
    BY <2>1, <2>2
<1> QED
    BY <1>2, <1>3 DEF Unspending, MayStart, JobOf

\* executeOwnedJob, but for the steps that spend a right or create one.
LEMMA ExecutionUnspending ==
    ASSUME IInv, TypeOK', NEW o \in Owner,
           \/ Begin(o) \/ BeginFails(o) \/ TakeOverTurn(o) \/ FindReceipt(o) \/ SteerIntoTurn(o)
           \/ AdmissionFails(o) \/ TurnCompletes(o) \/ ExecutorAborts(o)
           \/ SettleFails(o) \/ Record(o) \/ RecordFails(o) \/ Fail(o)
    PROVE  Unspending(o)
<1>1. /\ lease[o] \in Lease /\ lease \in [Owner -> Lease] /\ excuses' \in [Job -> Nat] /\ TypeOK
      /\ UNCHANGED submits /\ ~At(o, "idle")
    BY DEF IInv, TypeOK, Begin, BeginFails, TakeOverTurn, FindReceipt, SteerIntoTurn, AdmissionFails,
           TurnCompletes, ExecutorAborts, SettleFails, Record, RecordFails, Fail, At
<1>2. {"turn", "settled", "failing"} \subseteq Phase \ Unsubmitted
    BY DEF Phase, ExecPhase, Unsubmitted
<1>3. ASSUME NEW outcome, Resolve(o, outcome), UNCHANGED <<row, excuses>> PROVE Unspending(o)
  <2>1. CASE Owned(o)
    <3>1. lease' = [lease EXCEPT ![o] = [lease[o] EXCEPT !.phase = "settled", !.outcome = outcome]]
      BY <1>3, <2>1 DEF Resolve
    <3>2. lease'[o].phase = "settled" /\ \A p \in Owner : p # o => lease'[p] = lease[p]
      BY <1>1, <3>1 DEF Lease
    <3> QED
      BY <1>1, <1>3, <3>2 DEF Unspending, MayStart, Unsubmitted, TypeOK
  <2>2. CASE ~Owned(o)
    BY <1>1, <1>3, <2>2, EndUnspending DEF Resolve, End
  <2> QED
    BY <2>1, <2>2
<1>4. CASE FindReceipt(o) \/ SteerIntoTurn(o) \/ TurnCompletes(o)
    BY <1>3, <1>4 DEF FindReceipt, SteerIntoTurn, TurnCompletes
<1>5. CASE Begin(o)
  <2>1. CASE Owned(o)
    <3>1. Goto(o, "admitting") /\ lease[o].phase = "starting" /\ UNCHANGED <<row, submits, excuses>>
      BY <1>5, <2>1 DEF Begin, At
    <3>2. lease'[o].phase = "admitting" /\ lease'[o].job = lease[o].job /\ lease'[o].kind = lease[o].kind
          /\ \A p \in Owner : p # o => lease'[p] = lease[p]
      BY <1>1, <3>1 DEF Goto, Lease
    <3> QED
      BY <1>1, <3>1, <3>2 DEF Unspending, MayStart, JobOf, Unsubmitted, TypeOK
  <2>2. CASE ~Owned(o)
    BY <1>1, <1>5, <2>2, EndUnspending DEF Begin
  <2> QED
    BY <2>1, <2>2
<1>6. CASE TakeOverTurn(o)
    BY <1>1, <1>2, <1>6, EndUnspending DEF TakeOverTurn
<1>7. CASE ExecutorAborts(o)
    BY <1>1, <1>7, EndUnspending DEF ExecutorAborts
<1>8. CASE BeginFails(o) \/ AdmissionFails(o) \/ SettleFails(o)
  <2>1. PICK error \in ExecErrors, submitted \in BOOLEAN :
           /\ Catch(o, error, submitted)
           /\ lease[o].phase \in Unsubmitted \/ (submitted /\ error # "network")
    BY <1>8 DEF BeginFails, AdmissionFails, SettleFails, At, Unsubmitted
  <2>2. UNCHANGED row
    BY <1>8 DEF BeginFails, AdmissionFails, SettleFails
  <2> QED
    BY <1>1, <2>1, <2>2, CatchUnspending
<1>9. CASE Record(o)
  <2>1. UNCHANGED row \/ \E lag \in Lag : RecordAnswer(o, lag) \/ RecordDeferred(o, lag)
    BY <1>9 DEF Record, SettledWrite
  <2>2. \A j \in Job : row'[j].status \in {"absent", "pending"} => row[j].status \in {"absent", "pending"}
    BY <1>1, <2>1, RecordingRows
  <2> QED
    BY <1>1, <1>9, <2>2, EndUnspending DEF Record
<1>10. CASE RecordFails(o)
  <2>1. UNCHANGED row \/ \E lag \in Lag : RecordAnswer(o, lag) \/ RecordDeferred(o, lag)
    BY <1>10 DEF RecordFails, SettledWrite
  <2>2. \A j \in Job : row'[j].status \in {"absent", "pending"} => row[j].status \in {"absent", "pending"}
    BY <1>1, <2>1, RecordingRows
  <2> QED
    BY <1>1, <1>10, <2>2, CatchUnspending DEF RecordFails
<1>11. CASE Fail(o)
  <2>1. UNCHANGED row \/ \E lag \in Lag : RecordFailure(o, lag)
    BY <1>11 DEF Fail
  <2>2. \A j \in Job : row'[j].status \in {"absent", "pending"} => row[j].status \in {"absent", "pending"}
    BY <1>1, <2>1, RecordingRows
  <2> QED
    BY <1>1, <1>11, <2>2, EndUnspending DEF Fail
<1> QED
    BY <1>4, <1>5, <1>6, <1>7, <1>8, <1>9, <1>10, <1>11

----------------------------------------------------------------------------
\* A step of a claim with one job, after which the job's balance is no higher.
LEMMA OneJobKeeps ==
    ASSUME TypeOK, TypeOK', Accounted, NEW o \in Owner, NEW k \in Job,
           \A p \in Owner : p # o => lease'[p] = lease[p],
           \A j \in Job : j # k => /\ MayStart(o, j)' => MayStart(o, j)
                                   /\ row'[j] = row[j]
                                   /\ submits'[j] = submits[j] /\ excuses'[j] = excuses[j],
           Held(o, k)' + Unclaimed(k)' + submits'[k] - excuses'[k] <=
               Held(o, k) + Unclaimed(k) + submits[k] - excuses[k]
    PROVE  Accounted'
<1>1. ASSUME NEW j \in Job PROVE Balance(o, j)' <= Balance(o, j)
  <2>1. CASE j = k
    BY <2>1 DEF Balance
  <2>2. CASE j # k
    <3>1. /\ submits[j] \in Nat /\ excuses[j] \in Nat
          /\ submits'[j] = submits[j] /\ excuses'[j] = excuses[j]
          /\ Held(o, j) \in {0, 1} /\ Held(o, j)' \in {0, 1} /\ Held(o, j)' <= Held(o, j)
          /\ Unclaimed(j) \in {0, 1} /\ Unclaimed(j)' = Unclaimed(j)
      BY <2>2 DEF TypeOK, Held, Unclaimed
    <3> QED
      BY <3>1 DEF Balance
  <2> QED
    BY <2>1, <2>2
<1> QED
  BY <1>1, BalanceKeeps

\* A claim takes the right of a queued row, or a new one with the cause that
\* the lease of the last attempt expired.
LEMMA ClaimAccounts ==
    ASSUME IInv, TypeOK', Accounted, NEW o \in Owner, NEW k \in Job, Claim(o, k)
    PROVE  Accounted'
<1>1. /\ TypeOK /\ lease \in [Owner -> Lease] /\ row \in [Job -> Row]
      /\ submits \in [Job -> Nat] /\ excuses \in [Job -> Nat]
    BY DEF IInv, TypeOK, JobsTypeOK
<1>2. /\ lease[o].phase = "idle" /\ lease'[o].job = k
      /\ \A p \in Owner : p # o => lease'[p] = lease[p]
    BY <1>1 DEF Claim, At, IdleLease
<1>3. /\ row[k].status \in {"pending", "running"} /\ row'[k].status = "running"
      /\ \A j \in Job : j # k => row'[j] = row[j]
    BY <1>1 DEF Claim, ClaimById, Executable, Row
<1>4. /\ submits' = submits /\ \A j \in Job : j # k => excuses'[j] = excuses[j]
      /\ row[k].status = "pending" => excuses'[k] = excuses[k]
      /\ row[k].status = "running" => excuses'[k] = excuses[k] + 1
    BY <1>1 DEF Claim
<1>5. \A j \in Job : j # k => (MayStart(o, j)' => MayStart(o, j))
    BY <1>2 DEF MayStart, JobOf
<1>6. Held(o, k) = 0 /\ Held(o, k)' \in {0, 1}
    BY <1>2 DEF Held, MayStart, Unsubmitted
<1>7. /\ row[k].status = "pending" => Unclaimed(k) = 1
      /\ row[k].status = "running" => Unclaimed(k) = 0
      /\ Unclaimed(k)' = 0
    BY <1>3 DEF Unclaimed
<1>8. submits[k] \in Nat /\ excuses[k] \in Nat /\ submits'[k] = submits[k]
    BY <1>1, <1>4
<1>9. Held(o, k)' + Unclaimed(k)' + submits'[k] - excuses'[k] <=
      Held(o, k) + Unclaimed(k) + submits[k] - excuses[k]
    BY <1>3, <1>4, <1>6, <1>7, <1>8
<1> QED
    BY <1>1, <1>2, <1>3, <1>4, <1>5, <1>9, OneJobKeeps

\* A claim to deliver has no right to submit.
LEMMA ClaimReplyUnspending ==
    ASSUME IInv, NEW o \in Owner, NEW k \in Job, ClaimReply(o, k)
    PROVE  Unspending(o)
<1>1. /\ lease \in [Owner -> Lease] /\ row \in [Job -> Row] /\ excuses \in [Job -> Nat]
    BY DEF IInv, TypeOK, JobsTypeOK
<1>2. lease'[o].kind = "deliver" /\ \A p \in Owner : p # o => lease'[p] = lease[p]
    BY <1>1 DEF ClaimReply, IdleLease
<1>3. \A j \in Job : row'[j].status = row[j].status
    BY <1>1 DEF ClaimReply, ClaimReplyById, Row
<1>4. UNCHANGED <<submits, excuses>>
    BY DEF ClaimReply
<1> QED
    BY <1>1, <1>2, <1>3, <1>4 DEF Unspending, MayStart

\* turn/start spends the right of its claim.
LEMMA StartTurnAccounts ==
    ASSUME IInv, TypeOK', Accounted, NEW o \in Owner, StartTurn(o)
    PROVE  Accounted'
<1>0. PICK k \in Job : k = JobOf(o)
    BY DEF IInv, ClaimOK, Shape, At, StartTurn, TurnFails, Retry
<1>1. /\ TypeOK /\ lease \in [Owner -> Lease] /\ submits \in [Job -> Nat] /\ excuses \in [Job -> Nat]
      /\ lease[o].phase = "admitting" /\ UNCHANGED <<row, excuses>>
    BY DEF IInv, TypeOK, StartTurn, At
<1>2. lease[o].kind = "execute"
    BY <1>1 DEF IInv, ClaimOK, Shape, At, ExecPhase
<1>3. lease'[o].phase = "turn" /\ \A p \in Owner : p # o => lease'[p] = lease[p]
    BY <1>1, PhaseMoves DEF StartTurn
<1>4. \A j \in Job : ~MayStart(o, j)'
    BY <1>3 DEF MayStart, Unsubmitted
<1>5. Held(o, k) = 1 /\ Held(o, k)' = 0
    BY <1>0, <1>1, <1>2, <1>4 DEF Held, MayStart, Unsubmitted
<1>6. submits'[k] = submits[k] + 1 /\ \A j \in Job : j # k => submits'[j] = submits[j]
    BY <1>0, <1>1 DEF StartTurn
<1>7. Unclaimed(k)' = Unclaimed(k) /\ Unclaimed(k) \in {0, 1}
    BY <1>1 DEF Unclaimed
<1>8. submits[k] \in Nat /\ excuses[k] \in Nat /\ excuses'[k] = excuses[k]
    BY <1>1, <1>2
<1>9. Held(o, k)' + Unclaimed(k)' + submits'[k] - excuses'[k] <=
      Held(o, k) + Unclaimed(k) + submits[k] - excuses[k]
    BY <1>5, <1>6, <1>7, <1>8
<1> QED
    BY <1>1, <1>3, <1>4, <1>6, <1>9, OneJobKeeps

\* A turn that fails gives its right back only with the cause that the
\* transport failed.
LEMMA TurnFailsAccounts ==
    ASSUME IInv, TypeOK', Accounted, NEW o \in Owner, TurnFails(o)
    PROVE  Accounted'
<1>0. PICK k \in Job : k = JobOf(o)
    BY DEF IInv, ClaimOK, Shape, At, StartTurn, TurnFails, Retry
<1>1. /\ TypeOK /\ lease \in [Owner -> Lease] /\ submits \in [Job -> Nat] /\ excuses \in [Job -> Nat]
      /\ excuses' \in [Job -> Nat] /\ lease[o].phase = "turn" /\ UNCHANGED <<row, submits>>
    BY DEF IInv, TypeOK, TurnFails, At
<1>3. PICK error \in ExecErrors : Catch(o, error, TRUE)
    BY DEF TurnFails
<1>4. CASE error # "network"
  <2>1. Unspending(o)
    BY <1>1, <1>3, <1>4, CatchUnspending
  <2> QED
    BY <1>1, <2>1, UnspendingKeeps
<1>5. CASE ~Owned(o) \/ ~WillRetry(error, TRUE, lease[o].attempt)
  <2>1. excuses' = excuses
    BY <1>3, <1>5 DEF Catch
  <2>2. CASE ~Owned(o)
    <3>1. End(o)
      BY <1>3, <2>2 DEF Catch, End
    <3>2. Unspending(o)
      BY <1>1, <2>1, <3>1, EndUnspending
    <3> QED
      BY <1>1, <3>2, UnspendingKeeps
  <2>3. CASE Owned(o)
    <3>1. lease' = [lease EXCEPT ![o] = [lease[o] EXCEPT !.phase = "failing"]]
      BY <1>3, <1>5, <2>3 DEF Catch, CatchPhase
    <3>2. lease'[o].phase = "failing" /\ \A p \in Owner : p # o => lease'[p] = lease[p]
      BY <1>1, <3>1 DEF Lease
    <3>3. Unspending(o)
      BY <1>1, <2>1, <3>2 DEF Unspending, MayStart, Unsubmitted
    <3> QED
      BY <1>1, <3>3, UnspendingKeeps
  <2> QED
    BY <2>2, <2>3
<1>6. CASE error = "network" /\ Owned(o) /\ WillRetry(error, TRUE, lease[o].attempt)
  <2>1. lease' = [lease EXCEPT ![o] = [lease[o] EXCEPT !.phase = "retrying"]]
    BY <1>3, <1>6 DEF Catch, CatchPhase
  <2>2. lease'[o].job = k /\ \A p \in Owner : p # o => lease'[p] = lease[p]
    BY <1>0, <1>1, <2>1 DEF Lease, JobOf
  <2>3. excuses' = [excuses EXCEPT ![k] = @ + 1]
    BY <1>0, <1>3, <1>6 DEF Catch
  <2>4. Held(o, k) = 0 /\ Held(o, k)' \in {0, 1}
    BY <1>1 DEF Held, MayStart, Unsubmitted
  <2>5. \A j \in Job : j # k => /\ ~MayStart(o, j)' /\ excuses'[j] = excuses[j]
    BY <1>1, <2>2, <2>3 DEF MayStart, JobOf
  <2>6. Unclaimed(k)' = Unclaimed(k) /\ Unclaimed(k) \in {0, 1}
    BY <1>1 DEF Unclaimed
  <2>7. submits[k] \in Nat /\ excuses[k] \in Nat /\ submits'[k] = submits[k] /\ excuses'[k] = excuses[k] + 1
    BY <1>1, <2>3
  <2>8. Held(o, k)' + Unclaimed(k)' + submits'[k] - excuses'[k] <=
        Held(o, k) + Unclaimed(k) + submits[k] - excuses[k]
    BY <2>4, <2>6, <2>7
  <2> QED
    BY <1>1, <2>2, <2>5, <2>8, OneJobKeeps
<1> QED
    BY <1>4, <1>5, <1>6

\* markRetry returns the right of the claim to the row.
LEMMA RetryAccounts ==
    ASSUME IInv, TypeOK', Accounted, NEW o \in Owner, Retry(o)
    PROVE  Accounted'
<1>0. PICK k \in Job : k = JobOf(o)
    BY DEF IInv, ClaimOK, Shape, At, StartTurn, TurnFails, Retry
<1>1. /\ TypeOK /\ lease \in [Owner -> Lease] /\ row \in [Job -> Row]
      /\ submits \in [Job -> Nat] /\ excuses \in [Job -> Nat]
      /\ lease[o].phase = "retrying" /\ UNCHANGED <<submits, excuses>>
    BY DEF IInv, TypeOK, JobsTypeOK, Retry, At
<1>2. lease[o].kind = "execute"
    BY <1>1 DEF IInv, ClaimOK, Shape, At, ExecPhase
<1>3. lease'[o].phase \in {"idle", "closed"} /\ \A p \in Owner : p # o => lease'[p] = lease[p]
    BY <1>1, PhaseMoves DEF Retry
<1>4. \A j \in Job : ~MayStart(o, j)'
    BY <1>3 DEF MayStart, Unsubmitted
<1>5. Held(o, k) = 1 /\ Held(o, k)' = 0
    BY <1>0, <1>1, <1>2, <1>4 DEF Held, MayStart, Unsubmitted
<1>6. \A j \in Job : j # k => row'[j] = row[j]
    BY <1>0, <1>1 DEF Retry, Postpone, MarkRetry
<1>7. UNCHANGED row \/ Unclaimed(k) = 0
  <2>1. ASSUME NEW lag \in Lag, Postpone(o, lag) PROVE Unclaimed(k) = 0
    BY <1>0, <2>1 DEF Postpone, MarkRetry, Unclaimed
  <2> QED
    BY <2>1 DEF Retry
<1>8. Unclaimed(k)' \in {0, 1} /\ Unclaimed(k) \in {0, 1}
      /\ (UNCHANGED row => Unclaimed(k)' = Unclaimed(k))
    BY DEF Unclaimed
<1>9. submits[k] \in Nat /\ excuses[k] \in Nat /\ submits'[k] = submits[k] /\ excuses'[k] = excuses[k]
    BY <1>1, <1>2
<1>10. Held(o, k)' + Unclaimed(k)' + submits'[k] - excuses'[k] <=
       Held(o, k) + Unclaimed(k) + submits[k] - excuses[k]
    BY <1>5, <1>7, <1>8, <1>9
<1> QED
    BY <1>1, <1>3, <1>4, <1>6, <1>10, OneJobKeeps

----------------------------------------------------------------------------
\* Every step keeps the account.
LEMMA AccountStep == IInv /\ Accounted /\ [Next]_vars => Accounted'
<1> SUFFICES ASSUME IInv, Accounted, [Next]_vars
             PROVE  Accounted'
    OBVIOUS
<1>1. IInv' /\ TypeOK /\ TypeOK' /\ row \in [Job -> Row] /\ lease \in [Owner -> Lease]
    BY InductiveStep DEF IInv, TypeOK, JobsTypeOK
<1>2. ASSUME NEW o \in Owner, Unspending(o) PROVE Accounted'
    BY <1>1, <1>2, UnspendingKeeps
<1>3. ASSUME NEW j \in Job, Register(j) PROVE Accounted'
  <2>1. UNCHANGED <<lease, submits, excuses>>
    BY <1>3 DEF Register
  <2>2. \A k \in Job : Unclaimed(k)' = Unclaimed(k)
    <3>1. /\ row[j].status = "absent" /\ row'[j].status = "pending"
          /\ \A k \in Job : k # j => row'[k] = row[k]
      BY <1>1, <1>3 DEF Register, Upsert, AbsentRow
    <3> QED
      BY <3>1 DEF Unclaimed
  <2> QED
    BY <2>1, <2>2, SameKeeps
<1>4. ASSUME NEW o \in Owner, NEW j \in Job, Claim(o, j) \/ ClaimReply(o, j) PROVE Accounted'
    BY <1>1, <1>2, <1>4, ClaimAccounts, ClaimReplyUnspending
<1>5. ASSUME NEW o \in Owner, FirstRenewal(o) \/ Timers(o) \/ Renewal(o) \/ Stop(o) \/ Crash(o)
      PROVE  Accounted'
    BY <1>1, <1>2, <1>5, OthersUnspending
<1>6. ASSUME NEW o \in Owner, Delivery(o) PROVE Accounted'
    BY <1>1, <1>2, <1>6, DeliveryUnspending
<1>7. ASSUME NEW o \in Owner, Execution(o) PROVE Accounted'
    BY <1>1, <1>2, <1>7, ExecutionUnspending, StartTurnAccounts, TurnFailsAccounts, RetryAccounts
       DEF Execution
<1>8. ASSUME Tick PROVE Accounted'
  <2>1. /\ UNCHANGED <<submits, excuses>>
        /\ \A o \in Owner : lease'[o] = Older(lease[o])
        /\ \A j \in Job : row'[j].status = row[j].status
    BY <1>1, <1>8 DEF Tick, Elapse, Row
  <2>2. \A o \in Owner : /\ lease'[o].job = lease[o].job /\ lease'[o].kind = lease[o].kind
                         /\ lease'[o].phase = lease[o].phase
    BY <1>1, <2>1 DEF Older, Lease
  <2> QED
    BY <2>1, <2>2, SameKeeps DEF Unclaimed
<1>9. CASE UNCHANGED vars
    BY <1>9, SameKeeps DEF vars, Unclaimed
<1> QED
    BY <1>3, <1>4, <1>5, <1>6, <1>7, <1>8, <1>9 DEF Next

\* A turn is submitted again only after a lease that expired or an error of
\* the transport after submission, for any number of jobs and claims and
\* whichever writes, renewals and processes fail: a storage error after
\* submission (retryableError) never submits it twice.
THEOREM ResubmissionHasCause == Spec => []ResubmitHasCause
<1>1. Init => Accounted
  <2> SUFFICES ASSUME Init, NEW j \in Job
               PROVE  /\ IsFiniteSet(Starters(j))
                      /\ Cardinality(Starters(j)) + Unclaimed(j) + submits[j] <= 1 + excuses[j]
    BY DEF Accounted
  <2>1. Starters(j) = {}
    BY DEF Init, Starters, MayStart, Unsubmitted, IdleLease
  <2>2. Unclaimed(j) = 1 /\ submits[j] = 0 /\ excuses[j] = 0
    BY DEF Init, JobsInit, AbsentRow, Unclaimed
  <2> QED
    BY <2>1, <2>2, FS_EmptySet
<1>2. IInv /\ Accounted /\ [Next]_vars => Accounted'
    BY AccountStep
<1>3. IInv /\ Accounted => ResubmitHasCause
  <2> SUFFICES ASSUME IInv, Accounted, NEW j \in Job
               PROVE  submits[j] <= 1 + excuses[j]
    BY DEF ResubmitHasCause
  <2>1. Cardinality(Starters(j)) \in Nat
    BY FS_CardinalityType DEF Accounted
  <2>2. submits[j] \in Nat /\ excuses[j] \in Nat /\ Unclaimed(j) \in {0, 1}
    BY DEF IInv, TypeOK, Unclaimed
  <2>3. Cardinality(Starters(j)) + Unclaimed(j) + submits[j] <= 1 + excuses[j]
    BY DEF Accounted
  <2> QED
    BY <2>1, <2>2, <2>3
<1> QED
    BY <1>1, <1>2, <1>3, Inductive, PTL DEF Spec
=============================================================================

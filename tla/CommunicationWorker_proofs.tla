---------------------- MODULE CommunicationWorker_proofs ----------------------
(***************************************************************************)
(* Proofs, for every number of hooks, effects and processes and every      *)
(* setting of the constants, of the safety properties of                   *)
(* CommunicationWorker.  An invariant of the rows alone gives the orders   *)
(* and the limits; one that ties claims, deliveries and rows together      *)
(* gives that each claim is carried out once.                              *)
(***************************************************************************)
EXTENDS CommunicationWorker, TLAPS

----------------------------------------------------------------------------
(* The rows.                                                               *)

\* Sequences are given out in order, one registration at a time.
Sequenced == \A h, x \in Hook : x < h /\ row[h].status # "absent" =>
    row[x].status \notin {"absent", "hidden"}

\* What was claimed has been registered, and an effect does not wait again.
ClaimedLeft == \A r \in Item : row[r].attempts > 0 =>
    /\ row[r].status \notin {"absent", "hidden", "aborted"}
    /\ r \in Effect => row[r].status # "pending"

ClaimedOnce == \A e \in Effect \ Resend : row[e].attempts <= 1

RowInv ==
    /\ RowsTypeOK
    /\ Sequenced /\ ClaimedLeft /\ ClaimedOnce
    /\ HooksInOrder /\ EffectsInOrder /\ HooksGiveUp

\* How one row may change in a step; any number of rows may change at once.
Enters(r) ==
    /\ row'[r].attempts = row[r].attempts
    /\ \/ /\ r \in Hook /\ row[r].status = "absent" /\ row'[r].status = "hidden"
          /\ MayAllocate(r)
       \/ r \in Hook /\ row[r].status = "hidden" /\ row'[r].status \in {"pending", "aborted"}
       \/ r \in Effect /\ row[r].status = "absent" /\ row'[r].status = "pending"

Leaves(r) ==
    /\ row'[r].attempts = row[r].attempts
    /\ row[r].status = "running"
    /\ \/ row'[r].status \in Done
       \/ r \in Effect /\ row'[r].status = "unknown"
       \/ r \in Hook /\ row'[r].status = "pending" /\ row[r].attempts < MaxAttempts

Stays(r) ==
    /\ row'[r].attempts = row[r].attempts /\ row'[r].status = row[r].status
    /\ row'[r].owner = row[r].owner

TakenBy(o, r) ==
    /\ row'[r].attempts = row[r].attempts + 1 /\ row'[r].status = "running"
    /\ row'[r].owner = o
    /\ \/ r \in Hook /\ HookDue(r)
       \/ /\ r \in Effect /\ PredecessorSent(row, r)
          /\ \/ row[r].status = "pending"
             \/ row[r].status \in {"unknown", "running"} /\ r \in Resend

Untaken(r) == Enters(r) \/ Leaves(r) \/ Stays(r)
Changes(r) == Untaken(r) \/ \E o \in Owner : TakenBy(o, r)

\* Such changes keep the invariant of the rows.
LEMMA RowsKept ==
    ASSUME RowInv, RowsTypeOK', \A r \in Item : Changes(r)
    PROVE  RowInv'
<1>0. /\ Hook \subseteq Item /\ Effect \subseteq Item /\ Hook \cap Effect = {}
      /\ \A r \in Item : row[r].attempts \in Nat /\ row'[r].attempts \in Nat
      /\ \A h \in Hook : row[h].status \in HookStatus /\ row'[h].status \in HookStatus
      /\ \A e \in Effect : row[e].status \in EffectStatus /\ row'[e].status \in EffectStatus
  BY QueueAssumption DEF Item, RowInv, RowsTypeOK, Row
<1>1. ASSUME NEW r \in Item, row[r].status \in Done \cup {"aborted"}, r \in Hook \/ row[r].status = "sent"
      PROVE  row'[r].status = row[r].status
  BY <1>0, <1>1 DEF Changes, Untaken, Enters, Leaves, Stays, TakenBy, HookDue, Done
<1>2. Sequenced'
  <2> SUFFICES ASSUME NEW h \in Hook, NEW x \in Hook, x < h, row'[h].status # "absent"
               PROVE  row'[x].status \notin {"absent", "hidden"}
    BY DEF Sequenced
  <2>1. row[x].status \notin {"absent", "hidden"}
    <3>1. CASE row[h].status = "absent"
      BY <1>0, <3>1 DEF Changes, Untaken, Enters, Leaves, Stays, TakenBy, HookDue, MayAllocate
    <3>2. CASE row[h].status # "absent"
      BY <3>2 DEF RowInv, Sequenced
    <3>3. QED
      BY <3>1, <3>2
  <2>2. QED
    BY <1>0, <2>1 DEF Changes, Untaken, Enters, Leaves, Stays, TakenBy, Done
<1>3. ClaimedLeft'
  BY <1>0 DEF ClaimedLeft, RowInv, Changes, Untaken, Enters, Leaves, Stays, TakenBy, Done
<1>4. ClaimedOnce'
  BY <1>0 DEF ClaimedOnce, ClaimedLeft, RowInv, Changes, Untaken, Enters, Leaves, Stays, TakenBy
<1>5. HooksInOrder'
  <2> SUFFICES ASSUME NEW h \in Hook, NEW x \in Hook, x < h, row'[h].attempts > 0
               PROVE  row'[x].status \in Done \cup {"aborted"}
    BY DEF HooksInOrder
  <2>1. row[x].status \in Done \cup {"aborted"}
    <3>1. CASE row[h].attempts > 0
      BY <3>1 DEF RowInv, HooksInOrder
    <3>2. CASE ~(row[h].attempts > 0)
      <4>1. HookDue(h)
        BY <1>0, <3>2 DEF Changes, Untaken, Enters, Leaves, Stays, TakenBy
      <4>2. row[x].status \notin {"pending", "running", "absent", "hidden"}
        BY <4>1 DEF HookDue, NoEarlierOpen, RowInv, Sequenced
      <4>3. QED
        BY <1>0, <4>2 DEF HookStatus, Done
    <3>3. QED
      BY <3>1, <3>2
  <2>2. QED
    BY <1>0, <1>1, <2>1
<1>6. EffectsInOrder'
  <2> SUFFICES ASSUME NEW e \in Effect, row'[e].attempts > 0, Pred[e] # NoEffect
               PROVE  row'[Pred[e]].status = "sent"
    BY DEF EffectsInOrder
  <2>1. Pred[e] \in Item
    BY <1>0, QueueAssumption
  <2>2. row[Pred[e]].status = "sent"
    BY <1>0 DEF RowInv, EffectsInOrder, Changes, Untaken, Enters, Leaves, Stays, TakenBy,
                PredecessorSent
  <2>3. QED
    BY <1>1, <2>1, <2>2 DEF Done
<1>7. HooksGiveUp'
  BY <1>0, QueueAssumption
     DEF HooksGiveUp, ClaimedLeft, RowInv, Changes, Untaken, Enters, Leaves, Stays, TakenBy, Done
<1>8. QED
  BY <1>2, <1>3, <1>4, <1>5, <1>6, <1>7 DEF RowInv

\* Nor do they reopen what has ended.
LEMMA DoneKept ==
    ASSUME RowsTypeOK, \A r \in Item : Changes(r), NEW r \in Item, row[r].status \in Done
    PROVE  row'[r].status = row[r].status
BY DEF Changes, Untaken, Enters, Leaves, Stays, TakenBy, HookDue, Done

----------------------------------------------------------------------------
(* What the operations of the store do to the rows.                        *)

\* A row replaced by a well-typed one, of a status its table has.
LEMMA RowTyped ==
    ASSUME NEW rows \in [Item -> Row], NEW r \in Item, NEW q \in Row,
           \A h \in Hook : rows[h].status \in HookStatus,
           \A e \in Effect : rows[e].status \in EffectStatus,
           r \in Hook => q.status \in HookStatus, r \in Effect => q.status \in EffectStatus,
           row' = [rows EXCEPT ![r] = q]
    PROVE  RowsTypeOK' /\ row'[r] = q /\ \A x \in Item : x # r => row'[x] = rows[x]
BY DEF RowsTypeOK, Item

\* acceptInbound and insertOutbox.
LEMMA RegisterRows ==
    ASSUME RowsTypeOK,
           \/ \E h \in Hook : Allocate(h) \/ EndRegistration(h)
           \/ \E e \in Effect : RecordOutbox(e)
    PROVE  RowsTypeOK' /\ \A r \in Item : Enters(r) \/ Stays(r)
<1> USE QueueAssumption DEF Item
<1>1. ASSUME NEW r \in Item, NEW s \in HookStatus \cup EffectStatus,
             r \in Hook => s \in HookStatus, r \in Effect => s \in EffectStatus,
             row' = [row EXCEPT ![r].status = s]
      PROVE  /\ RowsTypeOK' /\ row'[r].status = s
             /\ row'[r].attempts = row[r].attempts /\ \A x \in Item : x # r => Stays(x)
  <2>1. [row[r] EXCEPT !.status = s] \in Row
    BY <1>1 DEF RowsTypeOK, Row
  <2>2. row' = [row EXCEPT ![r] = [row[r] EXCEPT !.status = s]]
    BY <1>1
  <2>3. QED
    BY <1>1, <2>1, <2>2 DEF RowsTypeOK, Row, Stays
<1>2. ASSUME NEW h \in Hook, Allocate(h) \/ EndRegistration(h)
      PROVE  RowsTypeOK' /\ \A r \in Item : Enters(r) \/ Stays(r)
  BY <1>1, <1>2 DEF Allocate, EndRegistration, Enters, HookStatus
<1>3. ASSUME NEW e \in Effect, RecordOutbox(e)
      PROVE  RowsTypeOK' /\ \A r \in Item : Enters(r) \/ Stays(r)
  BY <1>1, <1>3 DEF RecordOutbox, Enters, EffectStatus
<1>4. QED
  BY <1>2, <1>3

\* claimOutbox's expiry of send leases.
LEMMA ExpireRows ==
    ASSUME RowsTypeOK, NEW rows, rows = ExpireOutbox(row)
    PROVE  /\ rows \in [Item -> Row]
           /\ \A h \in Hook : rows[h] = row[h]
           /\ \A e \in Effect : rows[e].status \in EffectStatus
           /\ \A r \in Item :
                 \/ rows[r] = row[r]
                 \/ /\ r \in Effect /\ row[r].status = "running" /\ rows[r].status = "unknown"
                    /\ rows[r].attempts = row[r].attempts
BY QueueAssumption DEF ExpireOutbox, Lapsed, RowsTypeOK, Row, Item, EffectStatus

\* claimJobs and claimOutbox.
LEMMA ClaimRows ==
    ASSUME RowsTypeOK, NEW o \in Owner, NEW r \in Item, row' \in ClaimResults(r, o)
    PROVE  /\ RowsTypeOK' /\ TakenBy(o, r)
           /\ \A x \in Item : x # r => Leaves(x) \/ Stays(x)
<1> DEFINE Q(rows) == [rows[r] EXCEPT !.status = "running", !.owner = o,
                                      !.attempts = rows[r].attempts + 1,
                                      !.leaseExpires = LeaseMs]
<1>1. ASSUME NEW rows \in [Item -> Row]
      PROVE  /\ Q(rows) \in Row /\ Q(rows).status = "running" /\ Q(rows).owner = o
             /\ Q(rows).attempts = rows[r].attempts + 1
  <2>1. "running" \in HookStatus /\ LeaseMs \in 0..LeaseMs
    BY QueueAssumption DEF HookStatus
  <2>2. ASSUME NEW q \in Row
        PROVE  [q EXCEPT !.status = "running", !.owner = o, !.attempts = q.attempts + 1,
                         !.leaseExpires = LeaseMs] \in Row
    <3>1. q.attempts + 1 \in Nat /\ o \in Owner \cup {NoOwner}
      BY DEF Row
    <3>2. "running" \in HookStatus \cup EffectStatus
      BY <2>1
    <3>3. QED
      BY <2>1, <3>1, <3>2 DEF Row
  <2>3. ASSUME NEW q \in Row
        PROVE  LET p == [q EXCEPT !.status = "running", !.owner = o,
                                  !.attempts = q.attempts + 1, !.leaseExpires = LeaseMs]
               IN p.status = "running" /\ p.owner = o /\ p.attempts = q.attempts + 1
    BY DEF Row
  <2>4. QED
    BY <1>1, <2>2, <2>3
<1>2. "running" \in HookStatus /\ "running" \in EffectStatus
  BY DEF HookStatus, EffectStatus
<1>3. CASE r \in Hook
  <2>1. row' = [row EXCEPT ![r] = Q(row)] /\ HookDue(r)
    BY <1>3 DEF ClaimResults, Claimed
  <2>2. row \in [Item -> Row]
    BY DEF RowsTypeOK
  <2>3. RowsTypeOK' /\ row'[r] = Q(row) /\ \A x \in Item : x # r => row'[x] = row[x]
    BY <1>1, <1>2, <2>1, <2>2, RowTyped DEF RowsTypeOK
  <2>4. QED
    BY <1>1, <1>3, <2>1, <2>2, <2>3 DEF TakenBy, Stays
<1>4. CASE r \in Effect
  <2>1. PICK rows \in {row, ExpireOutbox(row)} : EffectDue(rows, r) /\ row' = [rows EXCEPT ![r] = Q(rows)]
    BY <1>4, QueueAssumption DEF ClaimResults, Claimed
  <2>2. /\ rows \in [Item -> Row]
        /\ \A h \in Hook : rows[h].status \in HookStatus
        /\ \A e \in Effect : rows[e].status \in EffectStatus
        /\ \A x \in Item :
              \/ rows[x] = row[x]
              \/ /\ x \in Effect /\ row[x].status = "running" /\ rows[x].status = "unknown"
                 /\ rows[x].attempts = row[x].attempts
    BY <2>1, ExpireRows DEF RowsTypeOK
  <2>3. PICK q \in Row : /\ row' = [rows EXCEPT ![r] = q]
                         /\ q.status = "running" /\ q.owner = o
                         /\ q.attempts = rows[r].attempts + 1
    <3> HIDE DEF Q
    <3>1. QED
      BY <1>1, <2>1, <2>2
  <2>4. RowsTypeOK' /\ row'[r] = q /\ \A x \in Item : x # r => row'[x] = rows[x]
    BY <1>2, <2>2, <2>3, RowTyped
  <2>5. PredecessorSent(row, r)
    <3>1. Pred[r] # NoEffect => Pred[r] \in Item /\ rows[Pred[r]].status = "sent"
      BY <1>4, <2>1, QueueAssumption DEF EffectDue, PredecessorSent, Item
    <3>2. QED
      BY <2>2, <3>1 DEF PredecessorSent
  <2>6. \/ row[r].status = "pending"
        \/ row[r].status \in {"unknown", "running"} /\ r \in Resend
    BY <2>1, <2>2 DEF EffectDue, Resendable
  <2>7. TakenBy(o, r)
    <3>1. /\ row'[r].status = "running" /\ row'[r].owner = o
          /\ row'[r].attempts = rows[r].attempts + 1
      BY <2>4, <2>3
    <3>2. rows[r].attempts = row[r].attempts
      BY <2>2
    <3>3. row'[r].attempts = row[r].attempts + 1
      BY <3>1, <3>2
    <3>4. QED
      BY <1>4, <2>5, <2>6, <3>1, <3>3 DEF TakenBy
  <2>8. \A x \in Item : x # r => Leaves(x) \/ Stays(x)
    BY <2>2, <2>4 DEF Leaves, Stays
  <2>9. QED
    BY <2>4, <2>7, <2>8
<1>5. QED
  BY <1>3, <1>4 DEF Item

\* finishJobWithOutbox, retryJob and settleOutbox under a valid lease.
LEMMA SettleRows ==
    ASSUME RowsTypeOK, NEW r \in Item, NEW o, NEW n, NEW result, Owned(r, o, n),
           row' = Outcome(r, n, result)
    PROVE  RowsTypeOK' /\ Leaves(r) /\ \A x \in Item : x # r => Stays(x)
<1>1. ASSUME NEW s \in Done \cup {"unknown", "pending"}, NEW d \in 0..RetryMs,
             r \in Hook => s \in HookStatus, r \in Effect => s \in EffectStatus,
             row' = Settled(r, s, d)
      PROVE  /\ RowsTypeOK' /\ row'[r].status = s /\ row'[r].attempts = row[r].attempts
             /\ \A x \in Item : x # r => Stays(x)
  <2> DEFINE q == [row[r] EXCEPT !.status = s, !.owner = NoOwner, !.nextAttempt = d]
  <2>1. q \in Row /\ q.status = s /\ q.attempts = row[r].attempts
    BY <1>1 DEF RowsTypeOK, Row, Done, HookStatus, EffectStatus
  <2>2. row' = [row EXCEPT ![r] = q]
    BY <1>1 DEF Settled
  <2>3. RowsTypeOK' /\ row'[r] = q /\ \A x \in Item : x # r => row'[x] = row[x]
    <3>1. /\ row \in [Item -> Row]
          /\ \A h \in Hook : row[h].status \in HookStatus
          /\ \A e \in Effect : row[e].status \in EffectStatus
      BY DEF RowsTypeOK
    <3> HIDE DEF q
    <3>2. r \in Hook => q.status \in HookStatus
      BY <1>1, <2>1
    <3>3. r \in Effect => q.status \in EffectStatus
      BY <1>1, <2>1
    <3>4. QED
      BY <2>1, <2>2, <3>1, <3>2, <3>3, RowTyped
  <2>4. QED
    BY <2>1, <2>3 DEF Stays
<1>2. 0 \in 0..RetryMs /\ RetryMs \in 0..RetryMs
  BY QueueAssumption
<1>3. CASE r \in Hook
  <2>1. \/ row' = Settled(r, "succeeded", 0)
        \/ row' = Settled(r, "failed", RetryMs)
        \/ row' = Settled(r, "pending", RetryMs) /\ ~(n >= MaxAttempts)
    BY <1>3, QueueAssumption DEF Outcome, Unacknowledged
  <2>2. row[r].attempts = n /\ row[r].status = "running" /\ n \in Nat
    BY DEF Owned, RowsTypeOK, Row
  <2>3. /\ {"succeeded", "failed", "pending"} \subseteq HookStatus
        /\ {"succeeded", "failed"} \subseteq Done
        /\ r \notin Effect
    BY <1>3, QueueAssumption DEF HookStatus, Done
  <2>4. QED
    BY <1>1, <1>2, <1>3, <2>1, <2>2, <2>3, QueueAssumption DEF Leaves
<1>4. CASE r \in Effect
  <2>1. \/ row' = Settled(r, "sent", 0)
        \/ row' = Settled(r, "failed", RetryMs)
        \/ row' = Settled(r, "unknown", RetryMs)
    BY <1>4, QueueAssumption DEF Outcome
  <2>2. /\ {"sent", "failed", "unknown"} \subseteq EffectStatus
        /\ {"sent", "failed"} \subseteq Done
        /\ r \notin Hook
    BY <1>4, QueueAssumption DEF EffectStatus, Done
  <2>3. row[r].status = "running"
    BY DEF Owned
  <2>4. QED
    BY <1>1, <1>2, <1>4, <2>1, <2>2, <2>3 DEF Leaves
<1>5. QED
  BY <1>3, <1>4 DEF Item

\* The clock changes neither a status nor an owner.
LEMMA ElapseRows ==
    ASSUME RowsTypeOK, Elapse
    PROVE  RowsTypeOK' /\ \A r \in Item : Stays(r)
<1>1. \A x \in 0..LeaseMs : Less(x) \in 0..LeaseMs
  BY QueueAssumption DEF Less
<1>2. \A x \in 0..RetryMs : Less(x) \in 0..RetryMs
  BY QueueAssumption DEF Less
<1>3. \A x \in 0..ResendMs : x < ResendMs => x + 1 \in 0..ResendMs
  BY QueueAssumption
<1>4. QED
  BY <1>1, <1>2, <1>3 DEF Elapse, RowsTypeOK, Row, Stays, Item
----------------------------------------------------------------------------
(* Claims, deliveries and rows.                                            *)

\* The row is under the claim of process o, expired or not.
Holds(r, o, n) == row[r].owner = o /\ row[r].attempts = n /\ row[r].status = "running"

\* The claim is not under delivery, and never was.
Unused(r, n) ==
    /\ \A p \in Owner : \A t \in tasks[p] : ~(t.item = r /\ t.attempt = n)
    /\ <<r, n>> \notin ran

\* A claim that awaits recovery, if it is in the table, was not delivered.
PendingOK ==
    \A o \in Owner, table \in Table :
        LET c == pending[o][table]
        IN \/ c = NoClaim
           \/ /\ c.item \in Item /\ TableOf(c.item) = table
              /\ Holds(c.item, o, c.attempt) => Unused(c.item, c.attempt)

\* No delivery is ahead of the table.
NotAhead ==
    /\ \A o \in Owner : \A t \in tasks[o] : t.attempt <= row[t.item].attempts
    /\ \A r \in Item : \A n \in Nat : <<r, n>> \in ran => n <= row[r].attempts

WInv == TypeOK /\ RowInv /\ PendingOK /\ NotAhead /\ EachClaimRunsOnce

LEMMA TypeFacts ==
    ASSUME TypeOK
    PROVE  /\ RowsTypeOK
           /\ \A r \in Item : row[r].attempts \in Nat
           /\ \A o \in Owner : \A t \in tasks[o] : /\ t \in Task /\ t.item \in Item
                                                   /\ t.attempt \in Nat
           /\ \A o \in Owner, table \in Table : pending[o][table] \in Claim
BY DEF TypeOK, RowsTypeOK, Row, Task

LEMMA InitOK == Init => WInv
<1> SUFFICES ASSUME Init
             PROVE  WInv
  OBVIOUS
<1> USE QueueAssumption, WorkerAssumption DEF Init
<1>1. RowsTypeOK /\ \A r \in Item : row[r] = AbsentRow
  BY DEF RowsInit, RowsTypeOK, Row, AbsentRow, HookStatus, EffectStatus, Item
<1>2. TypeOK
  BY <1>1 DEF TypeOK, NoClaim, Claim
<1>3. RowInv
  <2>1. \A r \in Item : row[r].status = "absent" /\ row[r].attempts = 0
    BY <1>1 DEF AbsentRow
  <2>2. /\ \A h \in Hook : row[h].status = "absent" /\ row[h].attempts = 0
        /\ \A e \in Effect : row[e].status = "absent" /\ row[e].attempts = 0
    BY <2>1 DEF Item
  <2>3. QED
    BY <1>1, <2>1, <2>2 DEF RowInv, Sequenced, ClaimedLeft, ClaimedOnce, HooksInOrder,
                            EffectsInOrder, HooksGiveUp
<1>4. PendingOK /\ NotAhead /\ EachClaimRunsOnce
  BY DEF PendingOK, NotAhead, EachClaimRunsOnce
<1>5. QED
  BY <1>2, <1>3, <1>4 DEF WInv

\* Attempts never go down, and a row that is under a claim after a step was
\* already, or the claim is new.
LEMMA HoldsLater ==
    ASSUME RowsTypeOK, NEW r \in Item, Changes(r)
    PROVE  /\ row'[r].attempts >= row[r].attempts
           /\ \A p, n : Holds(r, p, n)' => Holds(r, p, n) \/ n = row[r].attempts + 1
<1>1. row[r].attempts \in Nat
  BY DEF RowsTypeOK, Row
<1>2. QED
  BY <1>1 DEF Changes, Untaken, Enters, Leaves, Stays, TakenBy, Holds, Done

\* Every step that launches, carries out and ages no delivery.
LEMMA Quiet ==
    ASSUME WInv, TypeOK', \A r \in Item : Changes(r),
           ran' = ran, \A p \in Owner : tasks'[p] \subseteq tasks[p],
           \A p \in Owner, table \in Table :
              \/ pending'[p][table] \in {NoClaim, pending[p][table]}
              \/ /\ pending'[p][table].item \in Item
                 /\ TableOf(pending'[p][table].item) = table
                 /\ pending'[p][table].attempt = row[pending'[p][table].item].attempts + 1
    PROVE  WInv'
<1>0. TypeOK /\ RowsTypeOK /\ RowsTypeOK'
  BY DEF WInv, TypeOK
<1>1. RowInv'
  BY <1>0, RowsKept DEF WInv
<1>2. \A r \in Item : row[r].attempts \in Nat /\ row'[r].attempts \in Nat
  BY <1>0 DEF RowsTypeOK, Row
<1>3. \A r \in Item : row'[r].attempts >= row[r].attempts
  BY <1>0, HoldsLater
<1>4. NotAhead'
  BY <1>0, <1>2, <1>3, TypeFacts DEF NotAhead, WInv
<1>5. ASSUME NEW r \in Item, NEW n, n = row[r].attempts + 1
      PROVE  Unused(r, n)'
  BY <1>0, <1>2, <1>5, TypeFacts DEF Unused, NotAhead, WInv
<1>6. PendingOK'
  <2> SUFFICES ASSUME NEW o \in Owner, NEW table \in Table, pending'[o][table] # NoClaim,
                      NEW r, r = pending'[o][table].item, NEW n, n = pending'[o][table].attempt
               PROVE  r \in Item /\ TableOf(r) = table /\ (Holds(r, o, n)' => Unused(r, n)')
    BY DEF PendingOK, TableOf, Holds, Unused
  <2>1. CASE pending'[o][table] = pending[o][table]
    <3>1. r \in Item /\ TableOf(r) = table /\ (Holds(r, o, n) => Unused(r, n))
      BY <2>1 DEF WInv, PendingOK
    <3>2. ASSUME Holds(r, o, n)'
          PROVE  Unused(r, n)'
      <4>1. CASE n = row[r].attempts + 1
        BY <1>5, <3>1, <4>1
      <4>2. CASE Holds(r, o, n)
        BY <3>1, <4>2 DEF Unused
      <4>3. QED
        BY <1>0, <3>1, <3>2, <4>1, <4>2, HoldsLater
    <3>3. QED
      BY <3>1, <3>2
  <2>2. CASE r \in Item /\ TableOf(r) = table /\ n = row[r].attempts + 1
    BY <1>5, <2>2
  <2>3. QED
    BY <2>1, <2>2
<1>7. EachClaimRunsOnce'
  BY DEF EachClaimRunsOnce, WInv
<1>8. QED
  BY <1>1, <1>4, <1>6, <1>7 DEF WInv

\* The rows after each action.
LEMMA DroppedRows ==
    ASSUME TypeOK, NEW o \in Owner, row' \in {row} \cup DroppedClaims(o)
    PROVE  RowsTypeOK' /\ \A r \in Item : Changes(r)
<1>1. CASE row' = row
  BY <1>1 DEF TypeOK, RowsTypeOK, Changes, Untaken, Stays
<1>2. CASE row' \in DroppedClaims(o)
  <2>1. PICK r \in Item : row' \in ClaimResults(r, o)
    BY <1>2 DEF DroppedClaims
  <2>2. QED
    BY <2>1, ClaimRows DEF TypeOK, Changes, Untaken
<1>3. QED
  BY <1>1, <1>2

LEMMA RowsSame ==
    ASSUME RowsTypeOK, row' = row
    PROVE  RowsTypeOK' /\ \A r \in Item : Changes(r)
BY DEF RowsTypeOK, Changes, Untaken, Stays

LEMMA RegisterOK == ASSUME WInv, Register PROVE WInv' /\ \A r \in Item : Changes(r)
<1>1. RowsTypeOK' /\ \A r \in Item : Changes(r)
  BY RegisterRows DEF WInv, TypeOK, Register, Changes, Untaken
<1>2. TypeOK'
  BY <1>1 DEF TypeOK, WInv, Register
<1>3. QED
  BY <1>1, <1>2, Quiet DEF Register

LEMMA ExpireLeasesOK ==
    ASSUME WInv, NEW o \in Owner, ExpireLeases(o)
    PROVE  WInv' /\ \A r \in Item : Changes(r)
<1>1. RowsTypeOK' /\ \A r \in Item : Leaves(r) \/ Stays(r)
  <2>1. RowsTypeOK
    BY DEF WInv, TypeOK
  <2>2. /\ row' \in [Item -> Row]
        /\ \A h \in Hook : row'[h] = row[h]
        /\ \A e \in Effect : row'[e].status \in EffectStatus
        /\ \A r \in Item :
              \/ row'[r] = row[r]
              \/ /\ r \in Effect /\ row[r].status = "running" /\ row'[r].status = "unknown"
                 /\ row'[r].attempts = row[r].attempts
    BY <2>1, ExpireRows DEF ExpireLeases
  <2>3. QED
    BY <2>1, <2>2 DEF RowsTypeOK, Leaves, Stays
<1>2. TypeOK'
  BY <1>1 DEF TypeOK, WInv, ExpireLeases
<1>3. QED
  BY <1>1, <1>2, Quiet DEF ExpireLeases, Changes, Untaken

LEMMA SettleOK ==
    ASSUME WInv, NEW o \in Owner, NEW t \in tasks[o], Settle(o, t) \/ SettleFails(o, t)
    PROVE  WInv' /\ \A r \in Item : Changes(r)
<1>1. TypeOK /\ RowsTypeOK /\ t \in Task /\ t.item \in Item
  BY TypeFacts DEF WInv
<1>2. RowsTypeOK' /\ \A r \in Item : Changes(r)
  <2>1. CASE Owned(t.item, o, t.attempt) /\ row' = Outcome(t.item, t.attempt, t.result)
    BY <1>1, <2>1, SettleRows DEF Changes, Untaken
  <2>2. CASE row' \in {row} \cup DroppedClaims(o)
    BY <1>1, <2>2, DroppedRows
  <2>3. QED
    BY <2>1, <2>2 DEF Settle, SettleFails
<1>3. /\ \A p \in Owner : tasks'[p] \subseteq tasks[p]
      /\ tasks' \in [Owner -> SUBSET Task]
      /\ ran' = ran /\ pending' = pending
  BY <1>1 DEF Settle, SettleFails, EndTask, TypeOK
<1>4. healthy' \in [Owner -> BOOLEAN]
  <2>1. \/ healthy' = healthy
        \/ healthy' = [healthy EXCEPT ![o] = FALSE]
    BY DEF Settle, SettleFails
  <2>2. QED
    BY <1>1, <2>1 DEF TypeOK
<1>5. faults' \in 0..MaxFaults
  <2>1. faults' = faults \/ (faults < MaxFaults /\ faults' = faults + 1)
    BY DEF Settle, SettleFails, Fault
  <2>2. QED
    BY <1>1, <2>1, WorkerAssumption DEF TypeOK
<1>6. TypeOK'
  BY <1>1, <1>2, <1>3, <1>4, <1>5 DEF TypeOK
<1>7. QED
  BY <1>2, <1>3, <1>6, Quiet

LEMMA RestartOK ==
    ASSUME WInv, NEW o \in Owner, Crash(o) \/ Watchdog(o)
    PROVE  WInv' /\ \A r \in Item : Changes(r)
<1>1. TypeOK /\ RowsTypeOK
  BY DEF WInv, TypeOK
<1>2. Restarted(o) /\ faults' \in 0..MaxFaults
  BY <1>1, WorkerAssumption DEF Crash, Watchdog, Fault, TypeOK
<1>3. RowsTypeOK' /\ \A r \in Item : Changes(r)
  BY <1>1, <1>2, RowsSame DEF Restarted
<1>4. /\ \A p \in Owner : tasks'[p] \subseteq tasks[p]
      /\ \A p \in Owner, table \in Table : pending'[p][table] \in {NoClaim, pending[p][table]}
      /\ tasks' \in [Owner -> SUBSET Task] /\ healthy' \in [Owner -> BOOLEAN]
      /\ pending' \in [Owner -> [Table -> Claim]] /\ ran' = ran
  <2>1. [t \in Table |-> NoClaim] \in [Table -> Claim]
    BY DEF NoClaim, Claim
  <2>2. QED
    BY <1>1, <1>2, <2>1 DEF Restarted, TypeOK
<1>5. TypeOK'
  BY <1>1, <1>2, <1>3, <1>4 DEF TypeOK
<1>6. QED
  BY <1>3, <1>4, <1>5, Quiet

LEMMA ClaimUnknownOK ==
    ASSUME WInv, NEW o \in Owner, NEW r \in Item, ClaimUnknown(o, r)
    PROVE  WInv' /\ \A x \in Item : Changes(x)
<1>1. TypeOK /\ RowsTypeOK /\ row[r].attempts \in Nat
  BY TypeFacts DEF WInv
<1>2. RowsTypeOK' /\ \A x \in Item : Changes(x)
  <2>1. row' = row \/ row' \in ClaimResults(r, o)
    BY DEF ClaimUnknown
  <2>2. QED
    BY <1>1, <2>1, ClaimRows, RowsSame DEF Changes, Untaken
<1>3. PICK c \in Claim : /\ c.item = r /\ c.attempt = row[r].attempts + 1
                         /\ pending' = [pending EXCEPT ![o][TableOf(r)] = c]
  <2> DEFINE d == [item |-> r, attempt |-> row[r].attempts + 1]
  <2>1. d \in Claim /\ d.item = r /\ d.attempt = row[r].attempts + 1
    BY <1>1 DEF Claim
  <2>2. pending' = [pending EXCEPT ![o][TableOf(r)] = d]
    BY DEF ClaimUnknown
  <2> HIDE DEF d
  <2>3. QED
    BY <2>1, <2>2
<1>4. TableOf(r) \in Table
  BY DEF TableOf, Table
<1>5. /\ pending' \in [Owner -> [Table -> Claim]]
      /\ \A p \in Owner, table \in Table :
            \/ pending'[p][table] = pending[p][table]
            \/ table = TableOf(r) /\ pending'[p][table] = c
  BY <1>1, <1>3, <1>4 DEF TypeOK
<1>6. tasks' = tasks /\ ran' = ran /\ healthy' = healthy /\ faults' \in 0..MaxFaults
  BY <1>1, WorkerAssumption DEF ClaimUnknown, Fault, TypeOK
<1>7. TypeOK'
  BY <1>1, <1>2, <1>5, <1>6 DEF TypeOK
<1>8. QED
  BY <1>2, <1>3, <1>5, <1>6, <1>7, Quiet

\* A launch of a claim that was not delivered before.
LEMMA LaunchKeepsOnce ==
    ASSUME TypeOK, NEW o \in Owner, NEW r \in Item, NEW n \in Nat, Unused(r, n),
           EachClaimRunsOnce, Launch(o, r, n), ran' = ran
    PROVE  /\ EachClaimRunsOnce' /\ tasks' \in [Owner -> SUBSET Task]
           /\ \A p \in Owner : \A t \in tasks'[p] :
                 t \in tasks[p] \/ (p = o /\ t.item = r /\ t.attempt = n)
<1> DEFINE new == Launched(r, n)
<1>1. new \in Task /\ new.item = r /\ new.attempt = n /\ new.result = "none"
  BY DEF Launched, Task, Result
<1>2. tasks' = [tasks EXCEPT ![o] = tasks[o] \cup {new}]
  BY DEF Launch
<1> HIDE DEF new
<1>3. /\ tasks' \in [Owner -> SUBSET Task]
      /\ \A p \in Owner : \A t \in tasks'[p] : t \in tasks[p] \/ (p = o /\ t = new)
  BY <1>1, <1>2 DEF TypeOK
<1>4. EachClaimRunsOnce'
  BY <1>1, <1>3 DEF EachClaimRunsOnce, Unused
<1>5. QED
  BY <1>1, <1>3, <1>4

LEMMA ClaimAckedOK ==
    ASSUME WInv, NEW o \in Owner, NEW r \in Item, ClaimAcked(o, r)
    PROVE  WInv' /\ \A x \in Item : Changes(x)
<1> DEFINE n == row[r].attempts + 1
<1>1. TypeOK /\ RowsTypeOK /\ n \in Nat
  BY TypeFacts DEF WInv
<1>2. RowsTypeOK' /\ TakenBy(o, r) /\ \A x \in Item : x # r => Leaves(x) \/ Stays(x)
  BY <1>1, ClaimRows DEF ClaimAcked
<1>3. \A x \in Item : Changes(x)
  BY <1>2 DEF Changes, Untaken
<1>4. RowInv'
  BY <1>2, <1>3, RowsKept DEF WInv
<1>5. Unused(r, n)
  BY <1>1, TypeFacts DEF WInv, NotAhead, Unused
<1>6. Launch(o, r, n) /\ ran' = ran /\ pending' = pending
  BY DEF ClaimAcked
<1> HIDE DEF n
<1>7. /\ EachClaimRunsOnce' /\ tasks' \in [Owner -> SUBSET Task]
      /\ \A p \in Owner : \A t \in tasks'[p] :
            t \in tasks[p] \/ (p = o /\ t.item = r /\ t.attempt = n)
  BY <1>1, <1>5, <1>6, LaunchKeepsOnce DEF WInv
<1>8. TypeOK'
  BY <1>1, <1>2, <1>7 DEF TypeOK, ClaimAcked
<1>9. \A x \in Item : /\ row[x].attempts \in Nat /\ row'[x].attempts \in Nat
                      /\ row'[x].attempts >= row[x].attempts
  BY <1>1, <1>2, <1>3, HoldsLater DEF RowsTypeOK, Row
<1>10. row'[r].attempts = n
  BY <1>2 DEF TakenBy, n
<1>11. NotAhead'
  BY <1>1, <1>6, <1>7, <1>8, <1>9, <1>10, TypeFacts DEF NotAhead, WInv
<1>12. PendingOK'
  <2> SUFFICES ASSUME NEW p \in Owner, NEW table \in Table, pending[p][table] # NoClaim,
                      NEW x, x = pending[p][table].item, NEW m, m = pending[p][table].attempt
               PROVE  x \in Item /\ TableOf(x) = table /\ (Holds(x, p, m)' => Unused(x, m)')
    BY <1>6 DEF PendingOK, TableOf, Holds, Unused
  <2>1. x \in Item /\ TableOf(x) = table /\ (Holds(x, p, m) => Unused(x, m))
    BY DEF WInv, PendingOK
  <2>2. ASSUME Holds(x, p, m)'
        PROVE  x # r /\ Holds(x, p, m)
    <3>1. CASE x = r
      <4>1. p = o
        BY <1>2, <2>2, <3>1 DEF Holds, TakenBy
      <4>2. QED
        BY <2>1, <3>1, <4>1 DEF ClaimAcked, Claims
    <3>2. CASE x # r
      BY <1>2, <2>1, <2>2, <3>2 DEF Holds, Leaves, Stays, Done
    <3>3. QED
      BY <3>1, <3>2
  <2>3. ASSUME x # r, Unused(x, m)
        PROVE  Unused(x, m)'
    BY <1>6, <1>7, <2>3 DEF Unused
  <2>4. QED
    BY <2>1, <2>2, <2>3
<1>13. QED
  BY <1>3, <1>4, <1>7, <1>8, <1>11, <1>12 DEF WInv

LEMMA RecoverOK ==
    ASSUME WInv, NEW o \in Owner, NEW table \in Table, Recover(o, table)
    PROVE  WInv' /\ \A x \in Item : Changes(x)
<1>1. TypeOK /\ RowsTypeOK
  BY DEF WInv, TypeOK
<1>2. RowsTypeOK' /\ \A x \in Item : Changes(x)
  BY <1>1, RowsSame DEF Recover
<1>3. PICK c \in Claim : c = pending[o][table] /\ c # NoClaim
  BY <1>1 DEF Recover, TypeOK
<1>4. /\ pending' = [pending EXCEPT ![o][table] = NoClaim]
      /\ row' = row /\ ran' = ran /\ healthy' = healthy /\ faults' = faults
  BY DEF Recover, Forget
<1>5. /\ pending' \in [Owner -> [Table -> Claim]]
      /\ pending'[o][table] = NoClaim
      /\ \A p \in Owner, u \in Table :
            pending'[p][u] = pending[p][u] \/ pending'[p][u] = NoClaim
      /\ \A p \in Owner, u \in Table : p # o \/ u # table => pending'[p][u] = pending[p][u]
  <2>1. NoClaim \in Claim
    BY DEF NoClaim, Claim
  <2>2. QED
    BY <1>1, <1>4, <2>1 DEF TypeOK
<1>6. CASE ~Owned(c.item, o, c.attempt)
  <2>1. tasks' = tasks
    BY <1>3, <1>6 DEF Recover
  <2>2. TypeOK'
    BY <1>1, <1>2, <1>4, <1>5, <2>1 DEF TypeOK
  <2>3. QED
    BY <1>2, <1>4, <1>5, <2>1, <2>2, Quiet
<1>7. CASE Owned(c.item, o, c.attempt)
  <2> DEFINE r == c.item
             n == c.attempt
  <2>1. /\ r \in Item /\ TableOf(r) = table /\ n \in Nat
        /\ Holds(r, o, n) /\ Unused(r, n)
    BY <1>3, <1>7 DEF WInv, PendingOK, Owned, Holds, Claim
  <2>2. Launch(o, r, n)
    BY <1>3, <1>7 DEF Recover
  <2> HIDE DEF r, n
  <2>3. /\ EachClaimRunsOnce' /\ tasks' \in [Owner -> SUBSET Task]
        /\ \A p \in Owner : \A t \in tasks'[p] :
              t \in tasks[p] \/ (p = o /\ t.item = r /\ t.attempt = n)
    BY <1>1, <1>4, <2>1, <2>2, LaunchKeepsOnce DEF WInv
  <2>4. TypeOK'
    BY <1>1, <1>2, <1>4, <1>5, <2>3 DEF TypeOK
  <2>5. NotAhead'
    <3>1. row[r].attempts = n
      BY <2>1 DEF Holds
    <3>2. n <= n
      BY <2>1
    <3>3. QED
      BY <1>4, <2>3, <3>1, <3>2 DEF NotAhead, WInv
  <2>6. PendingOK'
    <3> SUFFICES ASSUME NEW p \in Owner, NEW u \in Table, pending'[p][u] # NoClaim,
                        NEW x, x = pending'[p][u].item, NEW m, m = pending'[p][u].attempt
                 PROVE  x \in Item /\ TableOf(x) = u /\ (Holds(x, p, m)' => Unused(x, m)')
      BY DEF PendingOK, TableOf, Holds, Unused
    <3>1. (p # o \/ u # table) /\ pending'[p][u] = pending[p][u]
      BY <1>5
    <3>2. x \in Item /\ TableOf(x) = u /\ (Holds(x, p, m) => Unused(x, m))
      BY <3>1 DEF WInv, PendingOK
    <3>3. ASSUME Holds(x, p, m)'
          PROVE  Unused(x, m)'
      <4>1. Holds(x, p, m)
        BY <1>4, <3>3 DEF Holds
      <4>2. x # r
        BY <2>1, <3>1, <3>2, <4>1 DEF Holds
      <4>3. QED
        BY <1>4, <2>3, <3>2, <4>1, <4>2 DEF Unused
    <3>4. QED
      BY <3>2, <3>3
  <2>7. RowInv'
    BY <1>1, <1>2, RowsKept DEF WInv
  <2>8. QED
    BY <1>2, <2>3, <2>4, <2>5, <2>6, <2>7 DEF WInv
<1>8. QED
  BY <1>6, <1>7

LEMMA DeliverOK ==
    ASSUME WInv, NEW o \in Owner, NEW t \in tasks[o], Deliver(o, t)
    PROVE  WInv' /\ \A x \in Item : Changes(x)
<1>1. /\ TypeOK /\ RowsTypeOK /\ t \in Task /\ t.item \in Item /\ t.attempt \in Nat
      /\ t.attempt <= row[t.item].attempts
  BY TypeFacts DEF WInv, NotAhead
<1>2. PICK d \in Task : /\ d.item = t.item /\ d.attempt = t.attempt /\ d.result # "none"
                        /\ tasks' = [tasks EXCEPT ![o] = (tasks[o] \ {t}) \cup {d}]
  <2>1. PICK result \in {"ok", "failed", "unknown"} :
            tasks' = [tasks EXCEPT ![o] = (tasks[o] \ {t}) \cup {[t EXCEPT !.result = result]}]
    BY DEF Deliver
  <2> DEFINE d == [t EXCEPT !.result = result]
  <2>2. d \in Task /\ d.item = t.item /\ d.attempt = t.attempt /\ d.result = result
    BY <1>1, <2>1 DEF Task, Result
  <2> HIDE DEF d
  <2>3. QED
    BY <2>1, <2>2 DEF d
<1>3. /\ ran' = ran \cup {<<t.item, t.attempt>>} /\ t.result = "none"
      /\ row' = row /\ pending' = pending /\ healthy' = healthy /\ faults' = faults
  BY DEF Deliver
<1>4. /\ tasks' \in [Owner -> SUBSET Task]
      /\ \A p \in Owner : \A x \in tasks'[p] : \/ x \in tasks[p] /\ (p # o \/ x # t)
                                               \/ p = o /\ x = d
  BY <1>1, <1>2 DEF TypeOK
<1>5. RowsTypeOK' /\ \A x \in Item : Changes(x)
  BY <1>1, <1>3, RowsSame
<1>6. TypeOK'
  BY <1>1, <1>3, <1>4, <1>5 DEF TypeOK
<1>7. RowInv'
  BY <1>1, <1>5, RowsKept DEF WInv
<1>8. NotAhead'
  BY <1>1, <1>2, <1>3, <1>4 DEF WInv, NotAhead
<1>9. PendingOK'
  <2>1. ASSUME NEW x, NEW m, Unused(x, m)
        PROVE  Unused(x, m)'
    BY <1>2, <1>3, <1>4, <2>1 DEF Unused
  <2>2. QED
    BY <1>3, <2>1 DEF WInv, PendingOK, Holds
<1>10. EachClaimRunsOnce'
  <2>1. ASSUME NEW p \in Owner, NEW x \in tasks[p], x.item = t.item, x.attempt = t.attempt
        PROVE  p = o /\ x = t
    BY <2>1 DEF WInv, EachClaimRunsOnce
  <2>2. ASSUME NEW o1 \in Owner, NEW o2 \in Owner, NEW t1 \in tasks'[o1], NEW t2 \in tasks'[o2],
               t1.item = t2.item, t1.attempt = t2.attempt
        PROVE  o1 = o2 /\ t1 = t2
    BY <1>2, <1>4, <2>1, <2>2 DEF WInv, EachClaimRunsOnce
  <2>3. ASSUME NEW p \in Owner, NEW x \in tasks'[p], x.result = "none"
        PROVE  <<x.item, x.attempt>> \notin ran'
    <3>1. x \in tasks[p] /\ (p # o \/ x # t)
      BY <1>2, <1>4, <2>3
    <3>2. x.item # t.item \/ x.attempt # t.attempt
      BY <2>1, <3>1
    <3>3. <<x.item, x.attempt>> \notin ran
      BY <2>3, <3>1 DEF WInv, EachClaimRunsOnce
    <3>4. QED
      BY <1>3, <3>2, <3>3
  <2>4. QED
    BY <2>2, <2>3 DEF EachClaimRunsOnce
<1>11. QED
  BY <1>5, <1>6, <1>7, <1>8, <1>9, <1>10 DEF WInv

\* A tick ages every delivery and changes nothing else of it.
LEMMA TickOK ==
    ASSUME WInv, Tick
    PROVE  WInv' /\ \A x \in Item : Changes(x)
<1>1. TypeOK /\ RowsTypeOK
  BY DEF WInv, TypeOK
<1>2. RowsTypeOK' /\ \A x \in Item : Stays(x)
  BY <1>1, ElapseRows DEF Tick
<1>3. \A x \in Item : Changes(x)
  BY <1>2 DEF Changes, Untaken
<1> DEFINE Older(t) == [t EXCEPT !.age = IF t.age <= DeliveryMs THEN t.age + 1 ELSE t.age]
<1>4. ASSUME NEW t \in Task
      PROVE  /\ Older(t) \in Task /\ Older(t).item = t.item
             /\ Older(t).attempt = t.attempt /\ Older(t).result = t.result
  BY <1>4 DEF Task
<1>5. tasks' = [p \in Owner |-> {Older(t) : t \in tasks[p]}]
  BY DEF Tick
<1> HIDE DEF Older
<1>6. \A p \in Owner : \A x \in tasks'[p] : \E t \in tasks[p] :
         /\ t \in Task /\ x = Older(t)
         /\ x \in Task /\ x.item = t.item /\ x.attempt = t.attempt /\ x.result = t.result
  BY <1>1, <1>4, <1>5, TypeFacts
<1>7. tasks' \in [Owner -> SUBSET Task]
  <2>1. \A p \in Owner : {Older(t) : t \in tasks[p]} \subseteq Task
    BY <1>1, <1>4, TypeFacts
  <2>2. QED
    BY <1>5, <2>1
<1>8. /\ ran' = ran /\ pending' = pending /\ healthy' = healthy
      /\ faults' = faults \/ (faults < MaxFaults /\ faults' = faults + 1)
  BY DEF Tick, Fault
<1>9. faults' \in 0..MaxFaults
  BY <1>1, <1>8, WorkerAssumption DEF TypeOK
<1>10. TypeOK'
  BY <1>1, <1>2, <1>7, <1>8, <1>9 DEF TypeOK
<1>11. RowInv'
  BY <1>1, <1>2, <1>3, RowsKept DEF WInv
<1>12. \A x \in Item : row'[x].attempts = row[x].attempts
  BY <1>2 DEF Stays
<1>13. NotAhead'
  BY <1>1, <1>6, <1>8, <1>12, TypeFacts DEF WInv, NotAhead
<1>14. PendingOK'
  <2>1. ASSUME NEW x, NEW m, Unused(x, m)
        PROVE  Unused(x, m)'
    BY <1>6, <1>8, <2>1 DEF Unused
  <2>2. ASSUME NEW x \in Item, NEW p, NEW m, Holds(x, p, m)'
        PROVE  Holds(x, p, m)
    BY <1>2, <2>2 DEF Holds, Stays
  <2>3. QED
    BY <1>8, <2>1, <2>2 DEF WInv, PendingOK
<1>15. EachClaimRunsOnce'
  <2>1. ASSUME NEW o1 \in Owner, NEW o2 \in Owner, NEW t1 \in tasks'[o1], NEW t2 \in tasks'[o2],
               t1.item = t2.item, t1.attempt = t2.attempt
        PROVE  o1 = o2 /\ t1 = t2
    BY <1>6, <2>1 DEF WInv, EachClaimRunsOnce
  <2>2. ASSUME NEW p \in Owner, NEW x \in tasks'[p], x.result = "none"
        PROVE  <<x.item, x.attempt>> \notin ran'
    BY <1>6, <1>8, <2>2 DEF WInv, EachClaimRunsOnce
  <2>3. QED
    BY <2>1, <2>2 DEF EachClaimRunsOnce
<1>16. QED
  BY <1>3, <1>10, <1>11, <1>13, <1>14, <1>15 DEF WInv

----------------------------------------------------------------------------
(* The theorems.                                                           *)

LEMMA NextOK == ASSUME WInv, Next PROVE WInv' /\ \A x \in Item : Changes(x)
BY RegisterOK, ClaimAckedOK, ClaimUnknownOK, RecoverOK, ExpireLeasesOK, DeliverOK, SettleOK,
   RestartOK, TickOK
   DEF Next, Deliveries

LEMMA StutterOK == ASSUME WInv, UNCHANGED vars PROVE WInv'
<1>1. \A x \in Item : Changes(x)
  BY DEF vars, Changes, Untaken, Stays
<1>2. TypeOK'
  BY DEF vars, WInv, TypeOK, RowsTypeOK
<1>3. QED
  BY <1>1, <1>2, Quiet DEF vars

LEMMA WInvariant == Spec => []WInv
<1>1. WInv /\ [Next]_vars => WInv'
  BY NextOK, StutterOK
<1>2. QED
  BY InitOK, <1>1, PTL DEF Spec

\* The rows, claims and deliveries of the communication worker keep the
\* types of their definitions.
THEOREM WorkerTypeCorrect == Spec => []TypeOK
<1>1. WInv => TypeOK
  BY DEF WInv
<1>2. QED
  BY <1>1, WInvariant, PTL

\* HOOK_PREDECESSOR_SQL with lockRegistration: however processes claim, crash
\* and lose commits, no hook of a conversation is claimed before every earlier
\* one has ended, committed or not when the claim was made.
THEOREM HooksRunInOrder == Spec => []HooksInOrder
<1>1. WInv => HooksInOrder
  BY DEF WInv, RowInv
<1>2. QED
  BY <1>1, WInvariant, PTL

\* OUTBOX_PREDECESSOR_SQL: no effect is claimed before its predecessor was
\* sent for certain, and none that was claimed loses that.
THEOREM EffectsKeepOrder == Spec => []EffectsInOrder
<1>1. WInv => EffectsInOrder
  BY DEF WInv, RowInv
<1>2. QED
  BY <1>1, WInvariant, PTL

\* claimOutbox: an effect that is neither created nor replied with a uuid is
\* claimed once in its life, so sent at most once.
THEOREM SendsOnce == Spec => []SentAtMostOnce
<1>1. WInv => SentAtMostOnce
  <2> SUFFICES ASSUME WInv, NEW e \in Effect \ Resend,
                      NEW m \in 1..row[e].attempts, NEW n \in 1..row[e].attempts
               PROVE  m = n
    BY DEF SentAtMostOnce
  <2>1. row[e].attempts \in Nat /\ row[e].attempts <= 1
    BY TypeFacts DEF WInv, RowInv, ClaimedOnce, Item
  <2>2. QED
    BY <2>1
<1>2. QED
  BY <1>1, WInvariant, PTL

\* recover and the launch of a claim: no claim, acknowledged or recovered, is
\* given to two deliveries or delivered twice.
THEOREM ClaimsRunOnce == Spec => []EachClaimRunsOnce
<1>1. WInv => EachClaimRunsOnce
  BY DEF WInv
<1>2. QED
  BY <1>1, WInvariant, PTL

\* retryJob: a hook that waits again has attempts left.
THEOREM HooksAreGivenUp == Spec => []HooksGiveUp
<1>1. WInv => HooksGiveUp
  BY DEF WInv, RowInv
<1>2. QED
  BY <1>1, WInvariant, PTL

\* No late settlement, expiry, recovery or claim changes the status of a row
\* that has ended.
THEOREM EndsAreFinal == Spec => EndIsFinal
<1>1. WInv /\ [Next]_vars =>
         [\A r \in Item : row[r].status \in Done => row'[r].status = row[r].status]_vars
  <2> SUFFICES ASSUME WInv, Next, NEW r \in Item, row[r].status \in Done
               PROVE  row'[r].status = row[r].status
    OBVIOUS
  <2>1. RowsTypeOK /\ \A x \in Item : Changes(x)
    BY NextOK DEF WInv, TypeOK
  <2>2. QED
    BY <2>1, DoneKept
<1>2. QED
  BY <1>1, WInvariant, PTL DEF Spec, EndIsFinal
=============================================================================

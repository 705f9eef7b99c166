------------------------ MODULE EventWriteQueue_proofs ------------------------
(***************************************************************************)
(* The event writer conserves its slots, drops no receipt and starts its   *)
(* writes in order, for any number of writes, slots and places.            *)
(***************************************************************************)
EXTENDS EventWriteQueue, FiniteSetTheorems, SequenceTheorems, TLAPS

Writing == {w \in Write : writeStage[w] = "writing"}
QueuedBestEffort == {w \in BestEffort : InQueue(w)}
Distinct(q) == \A i, k \in 1..Len(q) : q[i] = q[k] => i = k

\* The counts of QueueTypeOK and NoSlotIdleOrLeaked, of sets known to be finite.
CountsOK ==
    /\ IsFiniteSet(Writing) /\ eventWritesActive = Cardinality(Writing)
    /\ IsFiniteSet(Range(eventWriteQueue))
    /\ Len(eventWriteQueue) = Cardinality(Range(eventWriteQueue))
    /\ IsFiniteSet(QueuedBestEffort) /\ queuedBestEffort = Cardinality(QueuedBestEffort)

QueueOK ==
    /\ Distinct(eventWriteQueue)
    /\ eventWriteQueue # <<>> => eventWritesActive = Concurrency
    /\ \A w \in Write : InQueue(w) <=> writeStage[w] = "queued"

IInv == QueueTypeOK /\ CountsOK /\ QueueOK /\ ReceiptsNeverDropped

----------------------------------------------------------------------------
(* Sequences *)

\* The first index that is selected.
LEMMA FirstIndex ==
    ASSUME NEW n \in Nat, NEW I \in SUBSET (1..n), I # {}
    PROVE  Min(I) \in I /\ \A i \in I : Min(I) <= i
<1> DEFINE below == {1..i : i \in I}
<1>1. \A i \in I : i \in Nat /\ 1 <= i
    OBVIOUS
<1>2. below \subseteq FiniteSubsetsOf(Nat) /\ below # {}
  <2>1. \A i \in I : IsFiniteSet(1..i) /\ 1..i \subseteq Nat
    BY <1>1, FS_Interval
  <2> QED
    BY <2>1 DEF FiniteSubsetsOf
<1>3. PICK b \in below : \A c \in below : ~ (<<c, b>> \in StrictSubsetOrdering(Nat))
    BY <1>2, WFMin, FS_StrictSubsetOrderingWellFounded
<1>4. PICK x \in I : b = 1..x
    BY <1>3
<1>5. ASSUME NEW y \in I, y < x PROVE FALSE
  <2>1. 1..y \subseteq 1..x /\ 1..y # 1..x /\ 1..y \in SUBSET Nat /\ 1..x \in SUBSET Nat
    <3>1. x \in 1..x /\ x \notin 1..y
      BY <1>1, <1>5
    <3> QED
      BY <1>1, <1>5, <3>1
  <2>2. <<1..y, 1..x>> \in StrictSubsetOrdering(Nat)
    BY <2>1 DEF StrictSubsetOrdering
  <2> QED
    BY <1>3, <1>4, <2>2
<1>6. \E z \in I : \A y \in I : z =< y
    BY <1>1, <1>5
<1> QED
    BY <1>6 DEF Min

\* Where ready writes and victims stand.
LEMMA ReadyFirst ==
    ASSUME NEW q \in Seq(Write), q # <<>>
    PROVE  /\ Ready(q) \in 1..Len(q)
           /\ q[Ready(q)] \notin BestEffort => \A i \in 1..(Ready(q) - 1) : q[i] \in BestEffort
           /\ q[Ready(q)] \in BestEffort => Ready(q) = 1 /\ \A i \in 1..Len(q) : q[i] \in BestEffort
<1> DEFINE I == {i \in 1..Len(q) : q[i] \notin BestEffort}
<1>1. Len(q) \in Nat \ {0} /\ I \in SUBSET (1..Len(q))
    OBVIOUS
<1>2. Ready(q) = IF I # {} /\ Min(I) > 0 THEN Min(I) ELSE 1
    BY DEF Ready, SelectInSeq
<1>3. CASE I # {}
  <2>1. Min(I) \in I /\ \A i \in I : Min(I) <= i
    BY <1>1, <1>3, FirstIndex
  <2>2. Ready(q) = Min(I)
    BY <1>1, <1>2, <1>3, <2>1
  <2> HIDE DEF I
  <2>3. Min(I) \in 1..Len(q) /\ q[Min(I)] \notin BestEffort
    BY <2>1 DEF I
  <2>4. \A i \in 1..(Min(I) - 1) : i \in 1..Len(q) /\ i \notin I
    BY <1>1, <2>1, <2>3
  <2> QED
    BY <2>2, <2>3, <2>4 DEF I
<1>4. CASE I = {}
    BY <1>1, <1>2, <1>4
<1> QED
    BY <1>3, <1>4

LEMMA VictimIsBestEffort ==
    ASSUME NEW q \in Seq(Write), \E i \in 1..Len(q) : q[i] \in BestEffort
    PROVE  Victim(q) \in 1..Len(q) /\ q[Victim(q)] \in BestEffort
<1> DEFINE I == {i \in 1..Len(q) : q[i] \in BestEffort}
<1>1. Len(q) \in Nat /\ I \in SUBSET (1..Len(q)) /\ I # {}
    OBVIOUS
<1>2. Victim(q) = Min(I)
    BY <1>1 DEF Victim, SelectInSeq
<1>3. Min(I) \in I
    BY <1>1, FirstIndex
<1> QED
    BY <1>2, <1>3

\* What RemoveAt and Append leave.
LEMMA Removed ==
    ASSUME NEW q \in Seq(Write), NEW i \in 1..Len(q), Distinct(q)
    PROVE  /\ RemoveAt(q, i) \in Seq(Write) /\ Len(RemoveAt(q, i)) = Len(q) - 1
           /\ Distinct(RemoveAt(q, i))
           /\ Range(RemoveAt(q, i)) = Range(q) \ {q[i]}
<1> DEFINE r == RemoveAt(q, i)
<1>1. Len(q) \in Nat /\ i \in Nat /\ 1 <= i /\ i <= Len(q)
    OBVIOUS
<1>2. /\ SubSeq(q, 1, i - 1) \in Seq(Write) /\ Len(SubSeq(q, 1, i - 1)) = i - 1
      /\ \A k \in 1..(i - 1) : SubSeq(q, 1, i - 1)[k] = q[k]
    BY <1>1
<1>3. /\ SubSeq(q, i + 1, Len(q)) \in Seq(Write) /\ Len(SubSeq(q, i + 1, Len(q))) = Len(q) - i
      /\ \A k \in 1..(Len(q) - i) : SubSeq(q, i + 1, Len(q))[k] = q[k + i]
    BY <1>1
<1>4. /\ r \in Seq(Write) /\ Len(r) = Len(q) - 1
      /\ \A k \in 1..(Len(q) - 1) : r[k] = IF k <= i - 1 THEN SubSeq(q, 1, i - 1)[k]
                                           ELSE SubSeq(q, i + 1, Len(q))[k - (i - 1)]
  <2> DEFINE s == SubSeq(q, 1, i - 1)
             t == SubSeq(q, i + 1, Len(q))
  <2>1. s \in Seq(Write) /\ t \in Seq(Write) /\ Len(s) = i - 1 /\ Len(t) = Len(q) - i /\ r = s \o t
    BY <1>2, <1>3 DEF RemoveAt
  <2>2. (i - 1) + (Len(q) - i) = Len(q) - 1
    BY <1>1
  <2> HIDE DEF s, t, r
  <2>3. /\ s \o t \in Seq(Write) /\ Len(s \o t) = Len(s) + Len(t)
        /\ \A k \in 1..(Len(s) + Len(t)) : (s \o t)[k] = IF k <= Len(s) THEN s[k] ELSE t[k - Len(s)]
    BY <2>1, ConcatProperties
  <2>4. Len(s) + Len(t) = Len(q) - 1
    BY <2>1, <2>2
  <2> QED
    BY <2>1, <2>3, <2>4 DEF s, t
<1>5. \A k \in 1..(Len(q) - 1) : r[k] = IF k < i THEN q[k] ELSE q[k + 1]
  <2> HIDE DEF r
  <2>1. ASSUME NEW k \in 1..(Len(q) - 1) PROVE r[k] = IF k < i THEN q[k] ELSE q[k + 1]
    <3>1. CASE k < i
      BY <1>1, <1>2, <1>4, <3>1
    <3>2. CASE ~(k < i)
      <4>1. k - (i - 1) \in 1..(Len(q) - i) /\ (k - (i - 1)) + i = k + 1 /\ ~(k <= i - 1)
        BY <1>1, <3>2
      <4> QED
        BY <1>3, <1>4, <3>2, <4>1
    <3> QED
      BY <3>1, <3>2
  <2> QED
    BY <2>1
<1> HIDE DEF r
<1>6. Distinct(r)
  <2>1. ASSUME NEW k \in 1..(Len(q) - 1), NEW l \in 1..(Len(q) - 1), r[k] = r[l], k < l
        PROVE  FALSE
    <3>1. k \in 1..Len(q) /\ k + 1 \in 1..Len(q) /\ l \in 1..Len(q) /\ l + 1 \in 1..Len(q)
      BY <1>1
    <3>2. \A m, n \in 1..Len(q) : q[m] = q[n] => m = n
      BY DEF Distinct
    <3>3. k # l /\ k # l + 1 /\ k + 1 # l + 1 /\ (k < i \/ ~(l < i))
      BY <1>1, <2>1
    <3> QED
      BY <1>5, <2>1, <3>1, <3>2, <3>3
  <2>2. \A k, l \in 1..(Len(q) - 1) : r[k] = r[l] => k = l
    BY <1>1, <2>1
  <2> QED
    BY <1>4, <2>2 DEF Distinct
<1>7. Range(q) = {q[k] : k \in 1..Len(q)} /\ Range(r) = {r[k] : k \in 1..(Len(q) - 1)}
  <2>1. DOMAIN q = 1..Len(q) /\ DOMAIN r = 1..(Len(q) - 1)
    BY <1>4
  <2> QED
    BY <2>1 DEF Range
<1>8. ASSUME NEW k \in 1..(Len(q) - 1) PROVE \E l \in 1..Len(q) : r[k] = q[l] /\ l # i
  <2>1. CASE k < i
    BY <1>1, <1>5, <2>1
  <2>2. CASE ~(k < i)
    BY <1>1, <1>5, <2>2
  <2> QED
    BY <2>1, <2>2
<1>9. ASSUME NEW l \in 1..Len(q), l # i PROVE \E k \in 1..(Len(q) - 1) : r[k] = q[l]
  <2>1. CASE l < i
    BY <1>1, <1>5, <2>1
  <2>2. CASE l > i
    <3>1. l - 1 \in 1..(Len(q) - 1) /\ ~(l - 1 < i) /\ (l - 1) + 1 = l
      BY <1>1, <2>2
    <3> QED
      BY <1>5, <3>1
  <2> QED
    BY <1>1, <1>9, <2>1, <2>2
<1>10. \A l \in 1..Len(q) : q[l] = q[i] => l = i
    BY DEF Distinct
<1>11. Range(r) \subseteq Range(q) \ {q[i]}
    BY <1>7, <1>8, <1>10
<1>12. Range(q) \ {q[i]} \subseteq Range(r)
    BY <1>7, <1>9
<1> QED
    BY <1>4, <1>6, <1>11, <1>12 DEF r

LEMMA Appended ==
    ASSUME NEW q \in Seq(Write), NEW w \in Write, Distinct(q), w \notin Range(q)
    PROVE  /\ Append(q, w) \in Seq(Write) /\ Len(Append(q, w)) = Len(q) + 1
           /\ Distinct(Append(q, w)) /\ Range(Append(q, w)) = Range(q) \cup {w}
           /\ Append(q, w)[Len(q) + 1] = w
<1>1. /\ Append(q, w) \in Seq(Write) /\ Len(Append(q, w)) = Len(q) + 1 /\ Len(q) \in Nat
      /\ \A k \in 1..Len(q) : Append(q, w)[k] = q[k]
      /\ Append(q, w)[Len(q) + 1] = w
    OBVIOUS
<1>2. \A k \in 1..Len(q) : q[k] # w
    BY DEF Range
<1>3. Distinct(Append(q, w))
    BY <1>1, <1>2 DEF Distinct
<1>4. /\ Range(q) = {q[k] : k \in 1..Len(q)}
      /\ Range(Append(q, w)) = {Append(q, w)[k] : k \in 1..(Len(q) + 1)}
    BY <1>1 DEF Range
<1>5. 1..(Len(q) + 1) = (1..Len(q)) \cup {Len(q) + 1}
    BY <1>1
<1> QED
    BY <1>1, <1>3, <1>4, <1>5

----------------------------------------------------------------------------
(* Steps *)

LEMMA CountsAreNat ==
    ASSUME QueueTypeOK
    PROVE  /\ eventWritesActive \in Nat /\ queuedBestEffort \in Nat /\ Concurrency \in Nat
           /\ eventWritesActive <= Concurrency /\ queuedBestEffort <= Limit /\ Limit \in Nat
    BY QueueAssumption DEF QueueTypeOK

LEMMA TakeSlotKeeps ==
    ASSUME IInv, NEW w \in Write, TakeSlot(w)
    PROVE  IInv'
<1> USE DEF IInv
<1>1. /\ writeStage[w] = "new" /\ eventWritesActive < Concurrency
      /\ writeStage' = [writeStage EXCEPT ![w] = "writing"]
      /\ eventWritesActive' = eventWritesActive + 1
      /\ UNCHANGED <<eventWriteQueue, queuedBestEffort>>
    BY DEF TakeSlot
<1>2. writeStage \in [Write -> {"new", "queued", "writing", "done", "dropped"}]
    BY DEF QueueTypeOK
<1>3. QueueTypeOK'
  <2>1. eventWritesActive' \in 0..Concurrency
    BY <1>1, CountsAreNat
  <2> QED
    BY <1>1, <1>2, <2>1 DEF QueueTypeOK
<1>4. Writing' = Writing \cup {w} /\ w \notin Writing
    BY <1>1, <1>2 DEF Writing
<1>5. IsFiniteSet(Writing') /\ Cardinality(Writing') = eventWritesActive'
    BY <1>1, <1>4, FS_AddElement DEF CountsOK
<1>6. CountsOK'
    BY <1>1, <1>5 DEF CountsOK, QueuedBestEffort, InQueue
<1>7. eventWriteQueue = <<>>
    BY <1>1, CountsAreNat DEF QueueOK
<1>8. QueueOK'
    BY <1>1, <1>2, <1>7 DEF QueueOK, InQueue
<1>9. ReceiptsNeverDropped'
    BY <1>1, <1>2 DEF ReceiptsNeverDropped
<1> QED
    BY <1>3, <1>6, <1>8, <1>9

LEMMA FreeSlotKeeps ==
    ASSUME IInv, NEW w \in Write, FreeSlot(w)
    PROVE  IInv'
<1> USE DEF IInv
<1>1. /\ writeStage[w] = "writing" /\ eventWriteQueue = <<>>
      /\ writeStage' = [writeStage EXCEPT ![w] = "done"]
      /\ eventWritesActive' = eventWritesActive - 1
      /\ UNCHANGED <<eventWriteQueue, queuedBestEffort>>
    BY DEF FreeSlot
<1>2. writeStage \in [Write -> {"new", "queued", "writing", "done", "dropped"}]
    BY DEF QueueTypeOK
<1>3. Writing' = Writing \ {w} /\ w \in Writing
    BY <1>1, <1>2 DEF Writing
<1>4. IsFiniteSet(Writing') /\ Cardinality(Writing') = eventWritesActive' /\ eventWritesActive' \in Nat
  <2>1. IsFiniteSet(Writing') /\ Cardinality(Writing') = eventWritesActive'
    BY <1>1, <1>3, FS_RemoveElement DEF CountsOK
  <2> QED
    BY <2>1, FS_CardinalityType
<1>5. QueueTypeOK'
  <2>1. eventWritesActive' \in 0..Concurrency
    BY <1>1, <1>4, CountsAreNat
  <2> QED
    BY <1>1, <1>2, <2>1 DEF QueueTypeOK
<1>6. CountsOK'
    BY <1>1, <1>4 DEF CountsOK, QueuedBestEffort, InQueue
<1>7. QueueOK'
    BY <1>1, <1>2 DEF QueueOK, InQueue
<1>8. ReceiptsNeverDropped'
    BY <1>1, <1>2 DEF ReceiptsNeverDropped
<1> QED
    BY <1>5, <1>6, <1>7, <1>8

\* A waiter taken out of the queue.
LEMMA TakenOut ==
    ASSUME QueueTypeOK, CountsOK, QueueOK, NEW i \in 1..Len(eventWriteQueue)
    PROVE  LET next == eventWriteQueue[i]
               left == RemoveAt(eventWriteQueue, i)
           IN  /\ next \in Write /\ InQueue(next)
               /\ left \in Seq(Write) /\ Distinct(left) /\ Range(left) = Range(eventWriteQueue) \ {next}
               /\ IsFiniteSet(Range(left)) /\ Len(left) = Cardinality(Range(left))
               /\ IsFiniteSet(QueuedBestEffort \ {next})
               /\ Cardinality(QueuedBestEffort \ {next}) = queuedBestEffort - Counts(next)
               /\ queuedBestEffort - Counts(next) \in Nat
<1> DEFINE next == eventWriteQueue[i]
           left == RemoveAt(eventWriteQueue, i)
<1>1. eventWriteQueue \in Seq(Write) /\ Distinct(eventWriteQueue)
    BY DEF QueueTypeOK, QueueOK
<1>2. next \in Write /\ next \in Range(eventWriteQueue)
    BY <1>1 DEF Range
<1>3. /\ left \in Seq(Write) /\ Distinct(left) /\ Range(left) = Range(eventWriteQueue) \ {next}
      /\ Len(left) = Len(eventWriteQueue) - 1
    BY <1>1, Removed
<1> HIDE DEF next, left
<1>4. IsFiniteSet(Range(left)) /\ Len(left) = Cardinality(Range(left))
    BY <1>2, <1>3, FS_RemoveElement DEF CountsOK
<1>5. next \in QueuedBestEffort <=> next \in BestEffort
    BY <1>2 DEF QueuedBestEffort, InQueue
<1>6. /\ IsFiniteSet(QueuedBestEffort \ {next})
      /\ Cardinality(QueuedBestEffort \ {next}) = IF next \in QueuedBestEffort THEN queuedBestEffort - 1
                                                 ELSE queuedBestEffort
    BY FS_RemoveElement DEF CountsOK
<1>7. /\ Cardinality(QueuedBestEffort \ {next}) = queuedBestEffort - Counts(next)
      /\ Cardinality(QueuedBestEffort \ {next}) \in Nat
    BY <1>5, <1>6, FS_CardinalityType, CountsAreNat DEF Counts
<1> QED
    BY <1>2, <1>3, <1>4, <1>6, <1>7 DEF next, left, InQueue

LEMMA HandOverKeeps ==
    ASSUME IInv, NEW w \in Write, HandOver(w)
    PROVE  IInv'
<1> USE DEF IInv
<1> DEFINE i == Ready(eventWriteQueue)
           next == eventWriteQueue[i]
<1>1. /\ writeStage[w] = "writing" /\ eventWriteQueue # <<>>
      /\ writeStage' = [writeStage EXCEPT ![w] = "done", ![next] = "writing"]
      /\ queuedBestEffort' = queuedBestEffort - Counts(next)
      /\ eventWriteQueue' = RemoveAt(eventWriteQueue, i)
      /\ UNCHANGED eventWritesActive
    BY DEF HandOver
<1>2. i \in 1..Len(eventWriteQueue)
    BY <1>1, ReadyFirst DEF QueueTypeOK
<1>3. /\ next \in Write /\ InQueue(next)
      /\ eventWriteQueue' \in Seq(Write) /\ Distinct(eventWriteQueue')
      /\ Range(eventWriteQueue') = Range(eventWriteQueue) \ {next}
      /\ IsFiniteSet(Range(eventWriteQueue')) /\ Len(eventWriteQueue') = Cardinality(Range(eventWriteQueue'))
      /\ IsFiniteSet(QueuedBestEffort \ {next})
      /\ Cardinality(QueuedBestEffort \ {next}) = queuedBestEffort'
      /\ queuedBestEffort' \in Nat
    BY <1>1, <1>2, TakenOut
<1>4. queuedBestEffort' <= queuedBestEffort
    BY <1>1, CountsAreNat DEF Counts
<1> HIDE DEF i, next
<1>5. writeStage \in [Write -> {"new", "queued", "writing", "done", "dropped"}]
    BY DEF QueueTypeOK
<1>6. writeStage[next] = "queued" /\ next # w
    BY <1>1, <1>3 DEF QueueOK
<1>7. QueueTypeOK'
  <2>1. writeStage' \in [Write -> {"new", "queued", "writing", "done", "dropped"}]
    BY <1>1, <1>5
  <2>2. queuedBestEffort' \in 0..Limit
    BY <1>3, <1>4, CountsAreNat
  <2> QED
    BY <1>1, <1>3, <2>1, <2>2 DEF QueueTypeOK
<1>8. Writing' = (Writing \ {w}) \cup {next} /\ w \in Writing /\ next \notin Writing
    BY <1>1, <1>3, <1>5, <1>6 DEF Writing
<1>9. IsFiniteSet(Writing') /\ Cardinality(Writing') = eventWritesActive'
  <2>1. IsFiniteSet(Writing \ {w}) /\ Cardinality(Writing \ {w}) = eventWritesActive - 1
    BY <1>8, FS_RemoveElement DEF CountsOK
  <2>2. IsFiniteSet(Writing') /\ Cardinality(Writing') = Cardinality(Writing \ {w}) + 1
    BY <1>8, <2>1, FS_AddElement
  <2> QED
    BY <1>1, <2>1, <2>2, CountsAreNat
<1>10. QueuedBestEffort' = QueuedBestEffort \ {next}
    BY <1>3 DEF QueuedBestEffort, InQueue
<1>11. CountsOK'
    BY <1>3, <1>9, <1>10 DEF CountsOK
<1>12. QueueOK'
  <2>1. \A u \in Write : writeStage'[u] = "queued" <=> writeStage[u] = "queued" /\ u # next
    BY <1>1, <1>3, <1>5, <1>6
  <2> QED
    BY <1>1, <1>3, <2>1 DEF QueueOK, InQueue
<1>13. ReceiptsNeverDropped'
    BY <1>1, <1>3, <1>5 DEF ReceiptsNeverDropped
<1> QED
    BY <1>7, <1>11, <1>12, <1>13

LEMMA WaitKeeps ==
    ASSUME IInv, NEW w \in Write, Wait(w)
    PROVE  IInv'
<1> USE DEF IInv
<1> DEFINE longer == Append(eventWriteQueue, w)
           victim == Victim(longer)
           dropped == longer[victim]
<1>1. /\ writeStage[w] = "new" /\ eventWritesActive = Concurrency /\ UNCHANGED eventWritesActive
      /\ \/ /\ queuedBestEffort + Counts(w) > Limit
            /\ eventWriteQueue' = RemoveAt(longer, victim)
            /\ queuedBestEffort' = queuedBestEffort + Counts(w) - 1
            /\ writeStage' = [writeStage EXCEPT ![w] = "queued", ![dropped] = "dropped"]
         \/ /\ ~(queuedBestEffort + Counts(w) > Limit)
            /\ eventWriteQueue' = longer
            /\ queuedBestEffort' = queuedBestEffort + Counts(w)
            /\ writeStage' = [writeStage EXCEPT ![w] = "queued"]
    BY DEF Wait
<1>2. /\ writeStage \in [Write -> {"new", "queued", "writing", "done", "dropped"}]
      /\ eventWriteQueue \in Seq(Write) /\ Distinct(eventWriteQueue)
      /\ eventWritesActive \in 0..Concurrency
    BY DEF QueueTypeOK, QueueOK
<1>3. w \notin Range(eventWriteQueue) /\ w \notin QueuedBestEffort
    BY <1>1 DEF QueueOK, InQueue, QueuedBestEffort
<1>4. /\ longer \in Seq(Write) /\ Len(longer) = Len(eventWriteQueue) + 1 /\ Distinct(longer)
      /\ Range(longer) = Range(eventWriteQueue) \cup {w} /\ longer[Len(eventWriteQueue) + 1] = w
    BY <1>2, <1>3, Appended
<1> HIDE DEF longer
<1>5. IsFiniteSet(Range(longer)) /\ Len(longer) = Cardinality(Range(longer))
  <2>1. IsFiniteSet(Range(eventWriteQueue)) /\ Len(eventWriteQueue) = Cardinality(Range(eventWriteQueue))
    BY DEF CountsOK
  <2>2. /\ IsFiniteSet(Range(eventWriteQueue) \cup {w})
        /\ Cardinality(Range(eventWriteQueue) \cup {w}) = Cardinality(Range(eventWriteQueue)) + 1
    BY <1>3, <2>1, FS_AddElement
  <2> QED
    BY <1>4, <2>1, <2>2
<1>6. /\ IsFiniteSet(QueuedBestEffort \cup {w})
      /\ Cardinality(QueuedBestEffort \cup {w}) = queuedBestEffort + 1
    BY <1>3, FS_AddElement DEF CountsOK
<1>7. CASE ~(queuedBestEffort + Counts(w) > Limit)
  <2>1. /\ eventWriteQueue' = longer /\ queuedBestEffort' = queuedBestEffort + Counts(w)
        /\ writeStage' = [writeStage EXCEPT ![w] = "queued"]
    BY <1>1, <1>7
  <2>2. QueueTypeOK'
    <3>1. queuedBestEffort' \in 0..Limit
      BY <1>7, <2>1, CountsAreNat DEF Counts
    <3> QED
      BY <1>1, <1>2, <1>4, <2>1, <3>1 DEF QueueTypeOK
  <2>3. Writing' = Writing
    BY <1>1, <1>2, <2>1 DEF Writing
  <2>4. IsFiniteSet(QueuedBestEffort') /\ queuedBestEffort' = Cardinality(QueuedBestEffort')
    <3>1. CASE w \in BestEffort
      <4>1. QueuedBestEffort' = QueuedBestEffort \cup {w}
        BY <1>4, <2>1, <3>1 DEF QueuedBestEffort, InQueue
      <4> QED
        BY <1>6, <2>1, <3>1, <4>1 DEF Counts
    <3>2. CASE w \notin BestEffort
      <4>1. QueuedBestEffort' = QueuedBestEffort
        BY <1>4, <2>1, <3>2 DEF QueuedBestEffort, InQueue
      <4> QED
        BY <2>1, <3>2, <4>1, CountsAreNat DEF Counts, CountsOK
    <3> QED
      BY <3>1, <3>2
  <2>5. CountsOK'
    BY <1>1, <1>5, <2>1, <2>3, <2>4 DEF CountsOK
  <2>6. QueueOK'
    BY <1>1, <1>2, <1>4, <2>1 DEF QueueOK, InQueue
  <2>7. ReceiptsNeverDropped'
    BY <1>2, <2>1 DEF ReceiptsNeverDropped
  <2> QED
    BY <2>2, <2>5, <2>6, <2>7
<1>8. CASE queuedBestEffort + Counts(w) > Limit
  <2>1. /\ eventWriteQueue' = RemoveAt(longer, victim) /\ queuedBestEffort' = queuedBestEffort + Counts(w) - 1
        /\ writeStage' = [writeStage EXCEPT ![w] = "queued", ![dropped] = "dropped"]
    BY <1>1, <1>8
  <2>2. w \in BestEffort /\ queuedBestEffort' = queuedBestEffort /\ queuedBestEffort' \in 0..Limit
    BY <1>8, <2>1, CountsAreNat DEF Counts
  <2>3. victim \in 1..Len(longer) /\ dropped \in BestEffort
    <3>1. Len(eventWriteQueue) + 1 \in 1..Len(longer)
      BY <1>2, <1>4
    <3> QED
      BY <1>4, <2>2, <3>1, VictimIsBestEffort
  <2>4. /\ eventWriteQueue' \in Seq(Write) /\ Len(eventWriteQueue') = Len(longer) - 1
        /\ Distinct(eventWriteQueue') /\ Range(eventWriteQueue') = Range(longer) \ {dropped}
    BY <1>4, <2>1, <2>3, Removed
  <2>5. dropped \in Range(longer) /\ dropped \in Write
    BY <1>4, <2>3 DEF Range
  <2> HIDE DEF dropped, victim
  <2>6. dropped = w \/ writeStage[dropped] = "queued"
    BY <1>4, <2>5 DEF QueueOK, InQueue
  <2>7. \A u \in Write : writeStage'[u] = IF u = dropped THEN "dropped" ELSE IF u = w THEN "queued" ELSE writeStage[u]
    BY <1>2, <2>1, <2>5
  <2>8. writeStage' \in [Write -> {"new", "queued", "writing", "done", "dropped"}]
    BY <1>2, <2>1
  <2>9. QueueTypeOK'
    BY <1>1, <1>2, <2>2, <2>4, <2>8 DEF QueueTypeOK
  <2>10. Writing' = Writing
    BY <1>1, <2>6, <2>7 DEF Writing
  <2>11. IsFiniteSet(Range(eventWriteQueue')) /\ Len(eventWriteQueue') = Cardinality(Range(eventWriteQueue'))
    BY <1>5, <2>4, <2>5, FS_RemoveElement
  <2>12. QueuedBestEffort' = (QueuedBestEffort \cup {w}) \ {dropped} /\ dropped \in QueuedBestEffort \cup {w}
    BY <1>4, <2>2, <2>3, <2>4, <2>5 DEF QueuedBestEffort, InQueue
  <2>13. IsFiniteSet(QueuedBestEffort') /\ queuedBestEffort' = Cardinality(QueuedBestEffort')
    <3>1. IsFiniteSet(QueuedBestEffort') /\ Cardinality(QueuedBestEffort') = (queuedBestEffort + 1) - 1
      BY <1>6, <2>12, FS_RemoveElement
    <3> QED
      BY <2>2, <3>1, CountsAreNat
  <2>14. CountsOK'
    BY <1>1, <2>10, <2>11, <2>13 DEF CountsOK
  <2>15. QueueOK'
    BY <1>1, <1>4, <2>4, <2>6, <2>7 DEF QueueOK, InQueue
  <2>16. ReceiptsNeverDropped'
    BY <2>3, <2>7 DEF ReceiptsNeverDropped
  <2> QED
    BY <2>9, <2>14, <2>15, <2>16
<1> QED
    BY <1>7, <1>8

----------------------------------------------------------------------------
LEMMA QueueStarts == ASSUME QueueInit PROVE IInv
<1>1. eventWriteQueue = <<>> /\ eventWriteQueue \in Seq(Write) /\ Len(eventWriteQueue) = 0
    BY DEF QueueInit
<1>2. Range(eventWriteQueue) = {}
    BY <1>1 DEF Range
<1>3. Writing = {} /\ QueuedBestEffort = {}
    BY <1>2 DEF QueueInit, Writing, QueuedBestEffort, InQueue
<1>4. CountsOK
    BY <1>1, <1>2, <1>3, FS_EmptySet DEF QueueInit, CountsOK
<1>5. QueueTypeOK /\ ReceiptsNeverDropped
    BY <1>1, QueueAssumption DEF QueueInit, QueueTypeOK, ReceiptsNeverDropped
<1>6. QueueOK
    BY <1>1, <1>2 DEF QueueInit, QueueOK, Distinct, InQueue
<1> QED
    BY <1>4, <1>5, <1>6 DEF IInv

LEMMA QueueStep == ASSUME IInv, [QueueNext]_queueVars PROVE IInv'
<1>1. CASE QueueNext
    BY <1>1, TakeSlotKeeps, WaitKeeps, FreeSlotKeeps, HandOverKeeps DEF QueueNext, SettleWrite
<1>2. CASE UNCHANGED queueVars
    BY <1>2 DEF IInv, QueueTypeOK, CountsOK, QueueOK, ReceiptsNeverDropped, Writing, QueuedBestEffort, InQueue,
                Distinct, queueVars
<1> QED
    BY <1>1, <1>2

\* The step that starts a write of the queue hands a slot over; it starts the first receipt, or
\* the first of a queue of progress.
LEMMA StartsFirst ==
    ASSUME IInv, [QueueNext]_queueVars, NEW i \in DOMAIN eventWriteQueue, NEW k \in DOMAIN eventWriteQueue,
           writeStage'[eventWriteQueue[k]] = "writing", writeStage'[eventWriteQueue[i]] = "queued"
    PROVE  /\ i < k => eventWriteQueue[i] \in BestEffort /\ eventWriteQueue[k] \notin BestEffort
           /\ eventWriteQueue[k] \in BestEffort => eventWriteQueue[i] \in BestEffort
<1> USE DEF IInv
<1> DEFINE first == eventWriteQueue[i]
           started == eventWriteQueue[k]
<1>1. /\ eventWriteQueue \in Seq(Write) /\ DOMAIN eventWriteQueue = 1..Len(eventWriteQueue)
      /\ writeStage \in [Write -> {"new", "queued", "writing", "done", "dropped"}]
    BY DEF QueueTypeOK
<1>2. started \in Write /\ writeStage[started] = "queued" /\ first \in Write /\ eventWriteQueue # <<>>
  <2>1. started \in Range(eventWriteQueue) /\ first \in Range(eventWriteQueue)
    BY DEF Range
  <2> QED
    BY <1>1, <2>1 DEF QueueOK, InQueue
<1>3. PICK w \in Write : HandOver(w)
  <2>1. writeStage' # writeStage
    BY <1>2
  <2>2. ASSUME NEW w \in Write, TakeSlot(w) PROVE FALSE
    BY <1>2, <2>2, CountsAreNat DEF TakeSlot, QueueOK
  <2>3. ASSUME NEW w \in Write, FreeSlot(w) PROVE FALSE
    BY <1>2, <2>3 DEF FreeSlot
  <2>4. ASSUME NEW w \in Write, Wait(w) PROVE FALSE
    <3>1. \/ writeStage' = [writeStage EXCEPT ![w] = "queued"]
          \/ \E u : writeStage' = [writeStage EXCEPT ![w] = "queued", ![u] = "dropped"]
      BY <2>4 DEF Wait
    <3> QED
      BY <1>1, <1>2, <3>1
  <2> QED
    BY <2>1, <2>2, <2>3, <2>4 DEF QueueNext, SettleWrite, queueVars
<1>4. started = eventWriteQueue[Ready(eventWriteQueue)]
    BY <1>1, <1>2, <1>3 DEF HandOver
<1>5. Ready(eventWriteQueue) \in 1..Len(eventWriteQueue)
    BY <1>1, <1>2, ReadyFirst
<1>6. k = Ready(eventWriteQueue)
    BY <1>1, <1>4, <1>5 DEF QueueOK, Distinct
<1>7. started \notin BestEffort => \A l \in 1..(k - 1) : eventWriteQueue[l] \in BestEffort
    BY <1>1, <1>2, <1>6, ReadyFirst
<1>8. started \in BestEffort => k = 1 /\ \A l \in 1..Len(eventWriteQueue) : eventWriteQueue[l] \in BestEffort
    BY <1>1, <1>2, <1>6, ReadyFirst
<1> QED
    BY <1>1, <1>7, <1>8

\* Whatever order writes arrive and settle in: the counters, the stages and the queue tell the
\* same of every write (acquireEventWrite, releaseEventWrite).
THEOREM QueueInvariant == QueueInit /\ [][QueueNext]_queueVars => []IInv
<1>1. QueueInit => IInv
    BY QueueStarts
<1>2. IInv /\ [QueueNext]_queueVars => IInv'
    BY QueueStep
<1> QED
    BY <1>1, <1>2, PTL

\* The counters stay within the slots and places there are, no slot is leaked or handed out
\* twice or idle while a write waits, and the counter of queued progress counts what is queued
\* (acquireEventWrite, releaseEventWrite).
THEOREM SlotsAreConserved ==
    QueueInit /\ [][QueueNext]_queueVars => []NoSlotIdleOrLeaked
<1>1. IInv => NoSlotIdleOrLeaked
    BY DEF IInv, CountsOK, QueueOK, NoSlotIdleOrLeaked, Writing, QueuedBestEffort
<1> QED
    BY <1>1, QueueInvariant, PTL

\* Only progress is dropped, never a receipt, on which admission relies after a restart
\* (acquireEventWrite).
THEOREM ReceiptsAreKept ==
    QueueInit /\ [][QueueNext]_queueVars => []ReceiptsNeverDropped
<1>1. IInv => ReceiptsNeverDropped
    BY DEF IInv
<1> QED
    BY <1>1, QueueInvariant, PTL

\* A write that starts overtakes none of its own kind, and progress overtakes no receipt
\* (releaseEventWrite).
THEOREM WritesStartInOrder ==
    QueueInit /\ [][QueueNext]_queueVars => StartsInOrder
<1>1. IInv /\ [QueueNext]_queueVars =>
        [\A i, k \in DOMAIN eventWriteQueue :
            LET first == eventWriteQueue[i]  started == eventWriteQueue[k]
            IN writeStage'[started] = "writing" /\ writeStage'[first] = "queued" =>
                  /\ i < k => first \in BestEffort /\ started \notin BestEffort
                  /\ started \in BestEffort => first \in BestEffort]_queueVars
    BY StartsFirst
<1> QED
    BY <1>1, QueueInvariant, PTL DEF StartsInOrder
=============================================================================

-------------------------- MODULE EventWriteQueue --------------------------
(***************************************************************************)
(* The realtime event writer of storage/codex-sessions.mjs.  The executor  *)
(* calls saveCodexRealtimeEvent without waiting for it, so at most         *)
(* Concurrency writes hold a connection and the others queue.  Progress    *)
(* and streamed text ("best effort") may be dropped when too many of them  *)
(* queue; receipts and every other event may not.  The log line that tells *)
(* of drops is left out.                                                   *)
(***************************************************************************)
EXTENDS Naturals, FiniteSets, SequencesExt

CONSTANTS
    Write,          \* calls of saveCodexRealtimeEvent
    BestEffort,     \* those of Write whose key starts with public: or agent-delta:
    Concurrency,    \* EVENT_WRITE_CONCURRENCY, at least 1
    Limit           \* BEST_EFFORT_EVENT_QUEUE_LIMIT

ASSUME QueueAssumption ==
    /\ BestEffort \subseteq Write
    /\ Concurrency \in Nat \ {0} /\ Limit \in Nat

VARIABLES
    writeStage,         \* where each write is
    eventWritesActive,
    eventWriteQueue,
    queuedBestEffort

queueVars == <<writeStage, eventWritesActive, eventWriteQueue, queuedBestEffort>>

QueueInit ==
    /\ writeStage = [w \in Write |-> "new"]
    /\ eventWritesActive = 0
    /\ eventWriteQueue = <<>>
    /\ queuedBestEffort = 0

----------------------------------------------------------------------------
Counts(w) == IF w \in BestEffort THEN 1 ELSE 0

\* Slip: the oldest of all is dropped.
VictimOldest(q) == 1
\* The write a full queue gives up: the oldest best-effort one.
Victim(q) == SelectInSeq(q, LAMBDA w : w \in BestEffort)

\* Slip: the oldest of all is next.
ReadyOldest(q) == 1
\* The write a free slot goes to: the oldest receipt, or else the oldest.
Ready(q) == LET receipt == SelectInSeq(q, LAMBDA w : w \notin BestEffort)
            IN IF receipt > 0 THEN receipt ELSE 1

\* acquireEventWrite: a slot at once, or a place in the queue.
TakeSlot(w) ==
    /\ writeStage[w] = "new" /\ eventWritesActive < Concurrency
    /\ writeStage' = [writeStage EXCEPT ![w] = "writing"]
    /\ eventWritesActive' = eventWritesActive + 1
    /\ UNCHANGED <<eventWriteQueue, queuedBestEffort>>

Wait(w) ==
    /\ writeStage[w] = "new" /\ eventWritesActive = Concurrency
    /\ LET longer == Append(eventWriteQueue, w)
           victim == Victim(longer)
       IN IF queuedBestEffort + Counts(w) > Limit
          THEN /\ eventWriteQueue' = RemoveAt(longer, victim)
               /\ queuedBestEffort' = queuedBestEffort + Counts(w) - 1
               /\ writeStage' = [writeStage EXCEPT ![w] = "queued", ![longer[victim]] = "dropped"]
          ELSE /\ eventWriteQueue' = longer
               /\ queuedBestEffort' = queuedBestEffort + Counts(w)
               /\ writeStage' = [writeStage EXCEPT ![w] = "queued"]
    /\ UNCHANGED eventWritesActive

\* releaseEventWrite with nobody waiting.
FreeSlot(w) ==
    /\ writeStage[w] = "writing" /\ eventWriteQueue = <<>>
    /\ writeStage' = [writeStage EXCEPT ![w] = "done"]
    /\ eventWritesActive' = eventWritesActive - 1
    /\ UNCHANGED <<eventWriteQueue, queuedBestEffort>>

\* Slip: the slot is freed as well as handed over.
HandOverAndFree(w) ==
    /\ writeStage[w] = "writing" /\ eventWriteQueue # <<>>
    /\ LET next == eventWriteQueue[Ready(eventWriteQueue)]
       IN /\ writeStage' = [writeStage EXCEPT ![w] = "done", ![next] = "writing"]
          /\ queuedBestEffort' = queuedBestEffort - Counts(next)
    /\ eventWriteQueue' = RemoveAt(eventWriteQueue, Ready(eventWriteQueue))
    /\ eventWritesActive' = eventWritesActive - 1

\* Slip: the waiter that takes the slot is still counted as queued.
HandOverUncounted(w) ==
    /\ writeStage[w] = "writing" /\ eventWriteQueue # <<>>
    /\ writeStage' = [writeStage EXCEPT ![w] = "done",
                              ![eventWriteQueue[Ready(eventWriteQueue)]] = "writing"]
    /\ eventWriteQueue' = RemoveAt(eventWriteQueue, Ready(eventWriteQueue))
    /\ UNCHANGED <<eventWritesActive, queuedBestEffort>>

\* releaseEventWrite hands the slot straight to a waiter.
HandOver(w) ==
    /\ writeStage[w] = "writing" /\ eventWriteQueue # <<>>
    /\ LET next == eventWriteQueue[Ready(eventWriteQueue)]
       IN /\ writeStage' = [writeStage EXCEPT ![w] = "done", ![next] = "writing"]
          /\ queuedBestEffort' = queuedBestEffort - Counts(next)
    /\ eventWriteQueue' = RemoveAt(eventWriteQueue, Ready(eventWriteQueue))
    /\ UNCHANGED eventWritesActive

\* writeRows settles, one way or the other: saveCodexRealtimeEvent ends.
SettleWrite(w) == FreeSlot(w) \/ HandOver(w)

\* Every write has a deadline (writeTimeoutMs), so SettleWrite is fair.
QueueNext == \E w \in Write : TakeSlot(w) \/ Wait(w) \/ SettleWrite(w)

----------------------------------------------------------------------------
(* Properties.                                                             *)

InQueue(w) == w \in Range(eventWriteQueue)

QueueTypeOK ==
    /\ writeStage \in [Write -> {"new", "queued", "writing", "done", "dropped"}]
    /\ eventWritesActive \in 0..Concurrency
    /\ eventWriteQueue \in Seq(Write)
    /\ queuedBestEffort \in 0..Limit

\* The slots in use are the writes under way, and no slot idles while a write
\* waits: a slot is neither leaked nor handed out twice.  The counter that
\* bounds the queue counts what is in it, and a write is in the queue, once,
\* exactly while it waits.  The queue and its counters stay within their bounds.
NoSlotIdleOrLeaked ==
    /\ QueueTypeOK
    /\ eventWritesActive = Cardinality({w \in Write : writeStage[w] = "writing"})
    /\ eventWriteQueue # <<>> => eventWritesActive = Concurrency
    /\ queuedBestEffort = Cardinality({w \in BestEffort : InQueue(w)})
    /\ \A w \in Write : InQueue(w) <=> writeStage[w] = "queued"
    /\ Len(eventWriteQueue) = Cardinality(Range(eventWriteQueue))

\* Only progress is ever dropped, never a receipt: admission relies on
\* receipts after a restart.
ReceiptsNeverDropped == \A w \in Write : writeStage[w] = "dropped" => w \in BestEffort

\* A write that starts overtakes none of its own kind, and progress overtakes
\* no receipt.
StartsInOrder ==
    [][\A i, k \in DOMAIN eventWriteQueue :
          LET first == eventWriteQueue[i]  started == eventWriteQueue[k]
          IN writeStage'[started] = "writing" /\ writeStage'[first] = "queued" =>
                /\ i < k => first \in BestEffort /\ started \notin BestEffort
                /\ started \in BestEffort => first \in BestEffort]_queueVars

\* Every accepted write is carried out, or is progress and was dropped.
EveryWriteEnds ==
    \A w \in Write : writeStage[w] = "queued" ~>
        writeStage[w] = "done" \/ (w \in BestEffort /\ writeStage[w] = "dropped")
=============================================================================

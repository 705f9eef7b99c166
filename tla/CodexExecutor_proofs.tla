------------------------ MODULE CodexExecutor_proofs ------------------------
(***************************************************************************)
(* What a conversation is told of its messages is true, and no message is  *)
(* delivered twice unless a fault or an empty answer left no receipt of    *)
(* its delivery, for any number of calls, messages, threads and faults.    *)
(***************************************************************************)
EXTENDS CodexExecutor, TLAPS

\* Under the lock; with the lock and about to ask for a turn; with an attempt to steer written.
LockStages == {"admitting", "reconciling", "resuming", "resumed",
               "preparing", "starting", "sent", "started"}
Delivering == {"preparing", "starting", "sent"}
Attempting == {"steerReady", "steerSent", "steerRefused"}
SteerStages == {"steerQueued", "steerReading", "steerReady", "steerSent", "steerTaken",
                "steerRefused", "steerEnding"}
Launched == {"waiting", "noting", "done"}

Known(t) == t \in Turn /\ native[t].status # "none"
PartOf(m, t) == m \in native[t].inputs
Holds(o) == state[o].turn # None

\* A call refers to states that are registered; one that is not settled is the active one.
Refers(c) ==
    LET o == call[c].state
        n == call[c].note
    IN  /\ At(c, {"idle", "done"}) => o = None
        /\ call[c].outcome # "none" => At(c, {"done"})
        /\ At(c, SteerStages \cup {"waiting"}) => o # None
        /\ o # None => Holds(o) /\ (state[o].settled = "no" => active = o)
        /\ At(c, SteerStages) => state[o].message # Of(c)
        /\ At(c, {"waiting"}) => PartOf(Of(c), state[o].turn)
        /\ At(c, {"steerTaken"}) => PartOf(Of(c), state[o].turn)
        /\ n # None => Holds(n) /\ PartOf(Of(c), state[n].turn) /\ At(c, Launched)

\* What a call knows while it holds the lock, or has read its earlier attempt.
UnderLock(c) ==
    LET t == call[c].turn IN
    /\ At(c, LockStages) => HasLock(c) /\ active = None /\ call[c].thread \in 1..newest
    /\ At(c, {"reconciling", "resuming", "resumed"}) =>
          Known(t) /\ native[t].thread = call[c].thread
    /\ At(c, {"resuming", "resumed"}) => PartOf(Of(c), t)
    /\ At(c, {"resumed"}) =>
          /\ call[c].seen # "lost"
          /\ call[c].seen = "answered" => native[t].status = "completed"
    /\ At(c, {"steerReading"}) =>
          Known(t) /\ native[t].thread = state[call[c].state].thread

\* A call starts a turn once, and registers a state once.
Born(c) ==
    /\ native[c].status # "none" =>
          At(c, {"started"} \cup Launched) /\ native[c].thread \in 1..newest
    /\ native[c].status = "none" => native[c].inputs = {}
    /\ Holds(c) => At(c, Launched)
    /\ At(c, {"started"}) =>
          Known(c) /\ native[c].thread = call[c].thread /\ PartOf(Of(c), c)

StateOK(o) ==
    Holds(o) => /\ Known(state[o].turn) /\ state[o].message = MessageOf[o]
                /\ state[o].thread = native[state[o].turn].thread
                /\ PartOf(MessageOf[o], state[o].turn)
                /\ state[o].settled = "answered" => native[state[o].turn].status = "completed"

ActiveOK ==
    active # None => Holds(active) /\ (state[active].settled = "lost" => loaded = {})

\* What a receipt says is so.
ReceiptOK(x) ==
    /\ Known(x.turn) /\ x.thread = native[x.turn].thread
    /\ x.key = "final" => x.how = "answered" /\ native[x.turn].status = "completed"
    /\ x.key = "error" => x.how \in {"failed", "lost"}
    /\ x.key \in {"final", "error", "confirmed"} => PartOf(x.message, x.turn)

OneReceipt ==
    \A x, y \in store : x.thread = y.thread /\ x.message = y.message /\ x.key = y.key => x = y

CoreInv ==
    /\ \A c \in Call : Refers(c) /\ UnderLock(c) /\ Born(c)
    /\ \A o \in State : StateOK(o)
    /\ ActiveOK
    /\ \A x \in store : ReceiptOK(x)
    /\ OneReceipt
    /\ thread \in 1..newest

\* A turn that runs on a loaded thread is the active one, the one its call is about to
\* register, or one the bridge gave up.
GivenUp(t) == \E o \in State : state[o].turn = t /\ state[o].settled = "failed"

Watched(t) ==
    \/ active # None /\ state[active].turn = t
    \/ call[t].stage = "started"
    \/ GivenUp(t)

LoadedInv ==
    \A t \in Turn : native[t].status = "running" /\ native[t].thread \in loaded => Watched(t)

\* Where the bridge sees that a message is part of a turn.
InHand(m, t) ==
    \/ active # None /\ state[active].turn = t /\ state[active].message = m
    \/ call[t].stage = "started" /\ Of(t) = m

Evident(m, t) ==
    LET th == native[t].thread IN
    \/ FinalReceipt(th, m) \cup ErrorReceipt(th, m) # {}
    \/ \E x \in OpenAttempt(th, m) : x.turn = t
    \/ InHand(m, t)

Unseen(m, th) == \A t \in Turn : native[t].thread = th /\ PartOf(m, t) => <<m, t>> \in doubtful

EvidenceInv ==
    /\ \A t \in Turn, m \in Message : PartOf(m, t) => Evident(m, t) \/ <<m, t>> \in doubtful
    /\ \A c \in Call : At(c, Delivering) =>
          Unseen(Of(c), call[c].thread) /\ OpenAttempt(call[c].thread, Of(c)) = {}
    /\ \A c \in Call : At(c, Attempting) =>
          LET o == call[c].state IN
          /\ Unseen(Of(c), state[o].thread)
          /\ \E x \in OpenAttempt(state[o].thread, Of(c)) : x.turn = state[o].turn
    /\ \A c, d \in Call :
          c # d /\ At(c, Attempting) /\ At(d, Attempting) /\ Of(c) = Of(d)
          => state[call[c].state].thread # state[call[d].state].thread

\* A call that goes on with its steering is the first in the queue of its state.
Steering == SteerStages \ {"steerQueued"}
SteerInv == \A c \in Call : At(c, Steering) => Steers(c)

\* ReportedIsTrue, with a turn that exists.
Truly(c) ==
    LET t == call[c].turn IN
    /\ call[c].outcome = "answered" =>
          Known(t) /\ native[t].status = "completed" /\ PartOf(Of(c), t)
    /\ call[c].outcome = "accepted" => \E u \in Turn : PartOf(Of(c), u)
ToldInv == \A c \in Call : Truly(c)

RestInv == SteerInv /\ ToldInv /\ LoadedInv /\ TurnsDoNotOverlap /\ EvidenceInv
                    /\ PromptNotRepeated

IInv == TypeOK /\ CoreInv /\ RestInv
----------------------------------------------------------------------------
(* Types of the records *)

CallRecord == [stage : Stages, thread : Thread \cup {None}, turn : Turn \cup {None},
               state : State \cup {None}, note : State \cup {None},
               aborted : BOOLEAN, observes : BOOLEAN, moved : BOOLEAN, seen : Settlements,
               outcome : Outcomes]
StateRecord == [message : Message \cup {None}, thread : Thread \cup {None},
                turn : Turn \cup {None}, settled : Settlements,
                silent : BOOLEAN, pendingSteer : Message \cup {None}]
NativeRecord == [status : Ended \cup {"none", "running"}, thread : Thread \cup {None},
                 inputs : SUBSET Message]
EventRecord == [thread : Thread, message : Message, key : Keys, turn : Turn,
                how : Settlements \cup {"steer"}]

LEMMA Typed ==
    TypeOK <=> /\ call \in [Call -> CallRecord]
               /\ lockQueue \in Seq(Call) /\ steerQueue \in [State -> Seq(Call)]
               /\ active \in State \cup {None}
               /\ state \in [State -> StateRecord]
               /\ loaded \subseteq Thread
               /\ thread \in Thread /\ newest \in Thread
               /\ store \subseteq EventRecord
               /\ native \in [Turn -> NativeRecord]
               /\ watch \subseteq Turn /\ faults \in 0..MaxFaults /\ doubtful \subseteq Message \X Turn
    BY DEF TypeOK, CallRecord, StateRecord, NativeRecord, EventRecord

LEMMA Zero == None \notin Call /\ None \notin Turn /\ None \notin State /\ None \notin Thread
    BY CallAssumption DEF None, Turn, State, Thread

LEMMA MessageType == \A c \in Call : Of(c) \in Message /\ Of(c) = MessageOf[c]
    BY MessageAssumption DEF Of

LEMMA FaultType == ASSUME TypeOK, Fault PROVE faults' \in 0..MaxFaults
    BY BoundAssumption DEF TypeOK, Fault

\* The call becomes the record r.
Moved(c, r) == r \in CallRecord /\ call' = [call EXCEPT ![c] = r]

LEMMA MovedOne ==
    ASSUME TypeOK, NEW c \in Call, NEW r, Moved(c, r)
    PROVE  /\ call' \in [Call -> CallRecord] /\ call'[c] = r
           /\ \A d \in Call \ {c} : call'[d] = call[d]
    BY Typed DEF Moved

LEMMA GoesMoves ==
    ASSUME TypeOK, NEW c \in Call, NEW s \in Stages, Goes(c, s)
    PROVE  \E r \in CallRecord :
              /\ Moved(c, r) /\ r.stage = s
              /\ r.thread = call[c].thread /\ r.turn = call[c].turn /\ r.state = call[c].state
              /\ r.note = call[c].note /\ r.seen = call[c].seen /\ r.outcome = call[c].outcome
<1> DEFINE r == [call[c] EXCEPT !.stage = s]
<1>1. call \in [Call -> CallRecord]
    BY Typed
<1>2. /\ r \in CallRecord /\ r.stage = s
      /\ r.thread = call[c].thread /\ r.turn = call[c].turn /\ r.state = call[c].state
      /\ r.note = call[c].note /\ r.seen = call[c].seen /\ r.outcome = call[c].outcome
    BY <1>1 DEF CallRecord
<1>3. call' = [call EXCEPT ![c] = r]
    BY <1>1 DEF Goes, CallRecord
<1> HIDE DEF r
<1> QED
    BY <1>2, <1>3 DEF Moved

LEMMA EndsRecord ==
    ASSUME TypeOK, NEW c \in Call, NEW out \in Outcomes, NEW t \in Turn \cup {None}
    PROVE  LET r == Ends(c, out, t) IN
           /\ r \in CallRecord /\ r.stage = "done" /\ r.outcome = out /\ r.turn = t
           /\ r.state = None /\ r.note = call[c].note
<1>1. call[c].note \in State \cup {None}
    BY DEF TypeOK
<1> QED
    BY <1>1 DEF Ends, Free, CallRecord, Stages, Settlements, Outcomes

LEMMA WaitsRecord ==
    ASSUME TypeOK, NEW c \in Call, NEW o \in State
    PROVE  /\ LET r == Waits(c, o) IN
              /\ r \in CallRecord /\ r.stage = "waiting" /\ r.state = o
              /\ r.note = call[c].note /\ r.outcome = call[c].outcome
           /\ LET r == TakesOver(c, o) IN
              /\ r \in CallRecord /\ r.stage \in {"waiting", "noting"} /\ r.state = o
              /\ r.outcome = call[c].outcome /\ r.note \in {call[c].note, o}
              /\ r.stage = "noting" => r.note = o
<1>1. call[c] \in CallRecord
    BY Typed
<1>2. /\ Waits(c, o) \in CallRecord /\ Waits(c, o).stage = "waiting" /\ Waits(c, o).state = o
      /\ Waits(c, o).note = call[c].note /\ Waits(c, o).outcome = call[c].outcome
    BY <1>1 DEF Waits, CallRecord, Stages
<1>3. CASE Of(c) = state[o].message
    BY <1>2, <1>3 DEF TakesOver
<1>4. CASE Of(c) # state[o].message
  <2>1. PICK w \in CallRecord : w = Waits(c, o)
    BY <1>2
  <2>2. TakesOver(c, o) = [w EXCEPT !.note = o, !.stage = IF active = o THEN w.stage ELSE "noting"]
    BY <1>4, <2>1, Zenon DEF TakesOver
  <2>3. PICK s \in {"waiting", "noting"} : s = IF active = o THEN w.stage ELSE "noting"
    BY <1>2, <2>1
  <2>4. s \in Stages /\ TakesOver(c, o) = [w EXCEPT !.note = o, !.stage = s]
    BY <2>2, <2>3, Zenon DEF Stages
  <2>5. w.state = o /\ w.outcome = call[c].outcome
    BY <1>2, <2>1
  <2>6. LET q == TakesOver(c, o) IN
        /\ q \in CallRecord /\ q.stage = s /\ q.state = o
        /\ q.outcome = w.outcome /\ q.note = o
    BY <2>4, <2>5 DEF CallRecord
  <2> QED
    BY <1>2, <2>3, <2>5, <2>6
<1> QED
    BY <1>3, <1>4
----------------------------------------------------------------------------
(* What every step leaves as it was *)

NativeGrows(t) ==
    /\ native[t].status # "none" =>
          native'[t].status # "none" /\ native'[t].thread = native[t].thread
    /\ native[t].inputs \subseteq native'[t].inputs
    /\ native[t].status = "completed" => native'[t].status = "completed"

\* No turn is born.
NotBorn(t) ==
    native[t].status = "none" => native'[t].status = "none" /\ native'[t].inputs = native[t].inputs

StateKept(o) ==
    Holds(o) => /\ state'[o].turn = state[o].turn /\ state'[o].thread = state[o].thread
                /\ state'[o].message = state[o].message
                /\ state[o].settled # "no" => state'[o].settled = state[o].settled

Grows ==
    /\ \A t \in Turn : NativeGrows(t)
    /\ \A o \in State : StateKept(o)
    /\ \A o \in State : active = o /\ state'[o].settled = "no" => active' = o
    /\ newest' \in Nat /\ newest <= newest'

\* What holds of the lock for the calls that do not move.
LockKept(d) == At(d, LockStages) => HasLock(d)' /\ active' = None

LEMMA LockFrame ==
    ASSUME TypeOK, CoreInv, NEW c \in Call, NEW d \in Call \ {c},
           \/ HasLock(c)
           \/ UNCHANGED <<lockQueue, active>>
           \/ lockQueue' = Append(lockQueue, c) /\ UNCHANGED active
    PROVE  LockKept(d)
<1>1. lockQueue \in Seq(Call) /\ (At(d, LockStages) => HasLock(d) /\ active = None)
    BY Typed DEF CoreInv, UnderLock
<1>2. HasLock(d) => lockQueue # <<>> /\ Head(lockQueue) = d
    BY DEF HasLock
<1>3. CASE HasLock(c)
    BY <1>1, <1>2, <1>3 DEF HasLock, LockKept
<1>4. CASE UNCHANGED <<lockQueue, active>>
    BY <1>1, <1>2, <1>4 DEF HasLock, LockKept
<1>5. CASE lockQueue' = Append(lockQueue, c) /\ UNCHANGED active
  <2>1. lockQueue # <<>> => lockQueue' # <<>> /\ Head(lockQueue') = Head(lockQueue)
    BY <1>1, <1>5
  <2> QED
    BY <1>1, <1>2, <1>5, <2>1 DEF HasLock, LockKept
<1> QED
    BY <1>3, <1>4, <1>5

LEMMA RefersFrame ==
    ASSUME TypeOK, CoreInv, Grows, NEW d \in Call, call'[d] = call[d]
    PROVE  Refers(d)'
<1>0. PICK o \in State \cup {None}, n \in State \cup {None} :
           o = call[d].state /\ n = call[d].note
    BY Typed DEF CallRecord
<1>1. Refers(d)
    BY DEF CoreInv
<1>2. \A p \in State : Holds(p) =>
        /\ state[p].turn \in Turn
        /\ state'[p].turn = state[p].turn /\ state'[p].message = state[p].message
        /\ \A m : PartOf(m, state[p].turn) => m \in native'[state'[p].turn].inputs
        /\ state'[p].settled = "no" => state[p].settled = "no"
    BY DEF Grows, StateKept, NativeGrows, PartOf, CoreInv, StateOK, Known
<1>3. \A S : At(d, S) <=> At(d, S)'
    BY DEF At
<1>4. o # None => Holds(o) /\ Holds(o)' /\ (state'[o].settled = "no" => active' = o)
    BY <1>0, <1>1, <1>2, Zero DEF Refers, Holds, Grows
<1>5. n # None => Holds(n) /\ Holds(n)' /\ n \in State
    BY <1>0, <1>1, <1>2 DEF Refers, Holds
<1>6. call'[d].outcome = call[d].outcome /\ call'[d].state = o /\ call'[d].note = n
    BY <1>0
<1>7. /\ At(d, {"idle", "done"})' => o = None
      /\ call'[d].outcome # "none" => At(d, {"done"})'
      /\ At(d, SteerStages \cup {"waiting"})' => o # None
    BY <1>0, <1>1, <1>3, <1>6 DEF Refers
<1>8. /\ At(d, SteerStages)' => state'[o].message # Of(d)
      /\ At(d, {"waiting"})' => PartOf(Of(d), state[o].turn)'
      /\ At(d, {"steerTaken"})' => PartOf(Of(d), state[o].turn)'
  <2>1. CASE o = None
    <3>1. ~At(d, SteerStages \cup {"waiting"})
      BY <1>0, <1>1, <2>1 DEF Refers
    <3> QED
      BY <1>3, <3>1 DEF At, SteerStages
  <2>2. CASE o # None
    <3>1. o \in State /\ Holds(o)
      BY <1>4, <2>2
    <3> QED
      BY <1>0, <1>1, <1>2, <1>3, <3>1 DEF Refers, PartOf
  <2> QED
    BY <2>1, <2>2
<1>9. n # None => PartOf(Of(d), state[n].turn)' /\ At(d, Launched)'
    BY <1>0, <1>1, <1>2, <1>3, <1>5 DEF Refers, PartOf
<1> QED
    BY <1>4, <1>5, <1>6, <1>7, <1>8, <1>9 DEF Refers

LEMMA UnderLockFrame ==
    ASSUME TypeOK, CoreInv, Grows, NEW d \in Call, call'[d] = call[d], LockKept(d)
    PROVE  UnderLock(d)'
<1> DEFINE t == call[d].turn
           o == call[d].state
<1>1. UnderLock(d) /\ Refers(d) /\ newest \in Nat /\ newest' \in Nat /\ newest <= newest'
    BY Typed DEF CoreInv, Grows, Thread
<1>2. Known(t) => /\ Known(t)' /\ native'[t].thread = native[t].thread
                  /\ PartOf(Of(d), t) => PartOf(Of(d), t)'
                  /\ native[t].status = "completed" => native'[t].status = "completed"
    BY DEF Known, Grows, NativeGrows, PartOf
<1>3. \A S : At(d, S) <=> At(d, S)'
    BY DEF At
<1>4. At(d, {"steerReading"}) => state'[o].thread = state[o].thread
  <2>1. At(d, {"steerReading"}) => o \in State /\ Holds(o)
    BY <1>1, Typed DEF Refers, At, SteerStages, CallRecord
  <2> QED
    BY <2>1 DEF Grows, StateKept
<1>5. At(d, LockStages) => HasLock(d)' /\ active' = None /\ call[d].thread \in 1..newest'
    BY <1>1 DEF UnderLock, LockKept
<1>6. At(d, {"resuming", "resumed"}) => Known(t) /\ PartOf(Of(d), t)
    BY <1>1 DEF UnderLock, At
<1>7. At(d, {"resumed"}) => At(d, {"resuming", "resumed"})
    BY DEF At
<1> QED
    BY <1>1, <1>2, <1>3, <1>4, <1>5, <1>6, <1>7 DEF UnderLock

LEMMA BornFrame ==
    ASSUME TypeOK, CoreInv, Grows, NEW d \in Call, call'[d] = call[d], NotBorn(d),
           state'[d].turn # None => Holds(d)
    PROVE  Born(d)'
<1>1. Born(d) /\ d \in Turn /\ newest \in Nat /\ newest' \in Nat /\ newest <= newest'
    BY Typed DEF CoreInv, Grows, Thread, Turn
<1>2. NativeGrows(d) /\ (At(d, {"started"} \cup Launched) <=> At(d, {"started"} \cup Launched)')
      /\ (At(d, Launched) <=> At(d, Launched)') /\ (At(d, {"started"}) <=> At(d, {"started"})')
    BY <1>1 DEF Grows, At
<1> QED
    BY <1>1, <1>2 DEF Born, NotBorn, NativeGrows, Holds, Known, PartOf

LEMMA StateFrame ==
    ASSUME TypeOK, CoreInv, Grows, NEW o \in State, state'[o].turn # None => Holds(o),
           state'[o].settled = "answered" /\ Holds(o) =>
              \/ state[o].settled = "answered"
              \/ native'[state[o].turn].status = "completed"
    PROVE  StateOK(o)'
    BY DEF CoreInv, StateOK, Grows, StateKept, NativeGrows, Known, Holds, PartOf

LEMMA ReceiptFrame ==
    ASSUME TypeOK, CoreInv, Grows
    PROVE  \A x \in store : ReceiptOK(x)'
    BY DEF CoreInv, ReceiptOK, Grows, NativeGrows, Known, PartOf
----------------------------------------------------------------------------
(* The core invariant: one call moves *)

Own(c) == Refers(c) /\ UnderLock(c) /\ Born(c)

LEMMA CoreStep ==
    ASSUME TypeOK, CoreInv, Grows, NEW c \in Call, Own(c)',
           \A d \in Call \ {c} : /\ call'[d] = call[d] /\ LockKept(d) /\ NotBorn(d)
                                 /\ state'[d].turn # None => Holds(d),
           \A o \in State : StateOK(o)',
           ActiveOK', \A x \in store' : ReceiptOK(x)', OneReceipt', thread' \in 1..newest'
    PROVE  CoreInv'
<1>1. \A d \in Call \ {c} : Refers(d)' /\ UnderLock(d)' /\ Born(d)'
    BY RefersFrame, UnderLockFrame, BornFrame
<1> QED
    BY <1>1 DEF CoreInv, Own

\* A step that changes neither turns nor states nor receipts.
Quiet == UNCHANGED <<state, native, store, active, thread, newest>>

LEMMA QuietGrows == ASSUME TypeOK, Quiet PROVE Grows
    BY Typed DEF Quiet, Grows, NativeGrows, StateKept, Thread

LEMMA QuietStep ==
    ASSUME TypeOK, CoreInv, Quiet, UNCHANGED loaded \/ active = None, NEW c \in Call, Own(c)',
           \A d \in Call \ {c} : call'[d] = call[d] /\ LockKept(d)
    PROVE  CoreInv'
<1>1. Grows
    BY QuietGrows
<1>2. \A o \in State : StateOK(o)'
    BY DEF Quiet, StateOK, CoreInv, Holds, Known, PartOf
<1>3. ActiveOK' /\ OneReceipt'
    BY DEF Quiet, ActiveOK, OneReceipt, CoreInv, Holds
<1>4. \A x \in store' : ReceiptOK(x)'
    BY <1>1, ReceiptFrame DEF Quiet
<1>5. \A d \in Call : NotBorn(d) /\ (state'[d].turn # None => Holds(d))
    BY DEF Quiet, NotBorn, Holds
<1>6. thread' \in 1..newest'
    BY DEF Quiet, CoreInv
<1> QED
    BY <1>1, <1>2, <1>3, <1>4, <1>5, <1>6, CoreStep

\* The call is told something and ends.
ToldDone(c) ==
    /\ call'[c].stage = "done" /\ call'[c].state = None
    /\ call'[c].note \in {call[c].note, None}

LEMMA ToldOwn ==
    ASSUME TypeOK, CoreInv, Grows, NEW c \in Call, ToldDone(c), NotBorn(c),
           state'[c].turn # None => Holds(c)
    PROVE  Own(c)'
<1>0. PICK n \in State \cup {None} : n = call'[c].note
    BY Typed DEF CallRecord, ToldDone
<1>1. Refers(c) /\ Born(c) /\ newest \in Nat
    BY Typed DEF CoreInv, Thread
<1>2. \A S : At(c, S)' <=> "done" \in S
    BY DEF At, ToldDone
<1>3. n # None => n = call[c].note /\ n \in State /\ Holds(n) /\ PartOf(Of(c), state[n].turn)
    BY <1>0, <1>1 DEF Refers, ToldDone
<1>4. n # None => Known(state[n].turn)
    BY <1>3 DEF CoreInv, StateOK
<1>5. n # None => Holds(n)' /\ state'[n].turn = state[n].turn /\ Of(c) \in native'[state[n].turn].inputs
    BY <1>3, <1>4 DEF Grows, StateKept, NativeGrows, Holds, PartOf, Known
<1>6. Refers(c)'
    BY <1>0, <1>2, <1>5, Zero DEF Refers, ToldDone, SteerStages, Launched, Holds, PartOf
<1>7. UnderLock(c)'
    BY <1>2 DEF UnderLock, LockStages
<1>8. Born(c)'
  <2>1. native'[c].status # "none" => native'[c].thread \in 1..newest'
    BY <1>1 DEF Born, NotBorn, Grows, NativeGrows, Turn
  <2>2. native'[c].status = "none" => native'[c].inputs = {}
    BY <1>1 DEF Born, NotBorn, Grows, NativeGrows, Turn
  <2> QED
    BY <1>2, <2>1, <2>2 DEF Born, Launched
<1> QED
    BY <1>6, <1>7, <1>8 DEF Own

LEMMA TypedNext ==
    /\ call' \in [Call -> CallRecord]
    /\ lockQueue' \in Seq(Call) /\ steerQueue' \in [State -> Seq(Call)]
    /\ active' \in State \cup {None}
    /\ state' \in [State -> StateRecord]
    /\ loaded' \subseteq Thread
    /\ thread' \in Thread /\ newest' \in Thread
    /\ store' \subseteq EventRecord
    /\ native' \in [Turn -> NativeRecord]
    /\ watch' \subseteq Turn /\ faults' \in 0..MaxFaults /\ doubtful' \subseteq Message \X Turn
    => TypeOK'
    BY DEF TypeOK, CallRecord, StateRecord, NativeRecord, EventRecord

LEMMA TailType ==
    ASSUME TypeOK, NEW c \in Call
    PROVE  /\ HasLock(c) /\ Unlock => lockQueue' \in Seq(Call)
           /\ lockQueue' = Append(lockQueue, c) => lockQueue' \in Seq(Call)
           /\ \A o \in State : /\ Append(steerQueue[o], c) \in Seq(Call)
                               /\ steerQueue[o] # <<>> => Tail(steerQueue[o]) \in Seq(Call)
<1>1. lockQueue \in Seq(Call) /\ \A o \in State : steerQueue[o] \in Seq(Call)
    BY Typed
<1>2. \A q \in Seq(Call) : Append(q, c) \in Seq(Call) /\ (q # <<>> => Tail(q) \in Seq(Call))
    OBVIOUS
<1> QED
    BY <1>1, <1>2, Zenon DEF HasLock, Unlock

LEMMA LeaveType ==
    ASSUME TypeOK, NEW c \in Call, call[c].state \in State, Steers(c), LeaveSteering(c)
    PROVE  steerQueue' \in [State -> Seq(Call)]
<1>1. Tail(steerQueue[call[c].state]) \in Seq(Call)
    BY TailType DEF Steers
<1> QED
    BY <1>1, Typed DEF LeaveSteering

LEMMA QuietTypes ==
    ASSUME TypeOK, Quiet, call' \in [Call -> CallRecord], lockQueue' \in Seq(Call),
           steerQueue' \in [State -> Seq(Call)], loaded' \subseteq Thread,
           watch' \subseteq Turn, faults' \in 0..MaxFaults, doubtful' \subseteq Message \X Turn
    PROVE  TypeOK'
    BY Typed, TypedNext DEF Quiet

\* The call ends, with the lock if it has it, and leaves everything else as it is.
LEMMA EndsQuietly ==
    ASSUME TypeOK, CoreInv, Quiet, UNCHANGED <<loaded, steerQueue, watch, doubtful>>,
           NEW c \in Call, NEW out \in Outcomes, NEW t \in Turn \cup {None},
           EndsWith(c, out, t), UNCHANGED lockQueue \/ (HasLock(c) /\ Unlock),
           UNCHANGED faults \/ Fault
    PROVE  TypeOK' /\ CoreInv'
<1>1. Moved(c, Ends(c, out, t)) /\ ToldDone(c)
    BY EndsRecord, Typed DEF EndsWith, Moved, ToldDone
<1>2. call' \in [Call -> CallRecord] /\ \A d \in Call \ {c} : call'[d] = call[d]
    BY <1>1, MovedOne
<1>3. \A d \in Call \ {c} : LockKept(d)
    BY LockFrame DEF Quiet
<1>4. Own(c)'
    BY <1>1, QuietGrows, ToldOwn DEF Quiet, NotBorn, Holds
<1>5. lockQueue' \in Seq(Call) /\ faults' \in 0..MaxFaults
    BY TailType, FaultType, Typed
<1> QED
    BY <1>2, <1>3, <1>4, <1>5, QuietTypes, QuietStep, Typed

LEMMA EnterCore == ASSUME TypeOK, CoreInv, NEW c \in Call, Enter(c) PROVE TypeOK' /\ CoreInv'
<1>0. Quiet /\ UNCHANGED <<loaded, steerQueue, watch, faults, doubtful>>
    BY DEF Enter, Quiet, durable, server
<1>1. At(c, {"idle", "entering"}) /\ Own(c)
    BY DEF Enter, At, Own, CoreInv
<1>2. CASE call' = [call EXCEPT ![c].stage = "queued", ![c].observes = call[c].aborted]
           /\ lockQueue' = Append(lockQueue, c)
  <2>1. PICK r \in CallRecord : /\ Moved(c, r) /\ r.stage = "queued" /\ r.state = call[c].state
                                /\ r.note = call[c].note /\ r.outcome = call[c].outcome
    <3> DEFINE r == [call[c] EXCEPT !.stage = "queued", !.observes = call[c].aborted]
    <3>1. call \in [Call -> CallRecord]
      BY Typed
    <3>2. /\ r \in CallRecord /\ r.stage = "queued" /\ r.state = call[c].state
          /\ r.note = call[c].note /\ r.outcome = call[c].outcome
      BY <3>1 DEF CallRecord, Stages
    <3>3. call' = [call EXCEPT ![c] = r]
      BY <1>2, <3>1 DEF CallRecord
    <3> HIDE DEF r
    <3> QED
      BY <3>2, <3>3 DEF Moved
  <2>2. /\ call' \in [Call -> CallRecord] /\ call'[c] = r
        /\ \A d \in Call \ {c} : call'[d] = call[d]
    BY <2>1, MovedOne
  <2>3. \A d \in Call \ {c} : LockKept(d)
    BY <1>0, <1>2, LockFrame DEF Quiet
  <2>4. Own(c)'
    BY <1>0, <1>1, <2>1, <2>2 DEF Own, Refers, UnderLock, Born, At, Quiet, Holds, PartOf, Known,
                                  SteerStages, LockStages, Launched
  <2> QED
    BY <1>0, <1>2, <2>2, <2>3, <2>4, QuietTypes, QuietStep, TailType, Typed
<1>3. CASE EndsWith(c, "aborted", None) /\ UNCHANGED lockQueue
  <2>1. /\ UNCHANGED <<loaded, steerQueue, watch, doubtful>> /\ UNCHANGED faults
        /\ "aborted" \in Outcomes /\ None \in Turn \cup {None}
    BY <1>0 DEF Outcomes
  <2> QED
    BY <1>0, <1>3, <2>1, EndsQuietly
<1> QED
    BY <1>2, <1>3 DEF Enter

LEMMA WaitsOwn ==
    ASSUME TypeOK, CoreInv, Grows, NEW c \in Call, NEW o \in State,
           call'[c].stage \in {"waiting", "noting"}, call'[c].state = o,
           call'[c].note \in {call[c].note, o}, call'[c].outcome = "none",
           state'[o].turn # None, Of(c) \in native'[state'[o].turn].inputs,
           state'[o].settled = "no" => active' = o, NotBorn(c)
    PROVE  Own(c)'
<1>0. PICK n \in State \cup {None} : n = call'[c].note
    BY Typed DEF CallRecord
<1>1. Refers(c) /\ Born(c) /\ newest \in Nat
    BY Typed DEF CoreInv, Thread
<1>2. \A S : At(c, S)' <=> call'[c].stage \in S
    BY DEF At
<1>3. n # None => n \in State /\ state'[n].turn # None /\ Of(c) \in native'[state'[n].turn].inputs
  <2>1. CASE n = o
    BY <2>1
  <2>2. CASE n # None /\ n # o
    <3>1. n = call[c].note /\ n \in State /\ Holds(n) /\ PartOf(Of(c), state[n].turn)
      BY <1>0, <1>1, <2>2 DEF Refers
    <3>2. Known(state[n].turn)
      BY <3>1 DEF CoreInv, StateOK
    <3> QED
      BY <3>1, <3>2 DEF Grows, StateKept, NativeGrows, Holds, PartOf, Known
  <2> QED
    BY <2>1, <2>2
<1>4. Refers(c)'
    BY <1>0, <1>2, <1>3, Zero DEF Refers, SteerStages, Launched, Holds, PartOf
<1>5. UnderLock(c)'
    BY <1>2 DEF UnderLock, LockStages
<1>6. Born(c)'
  <2>1. native'[c].status # "none" => native'[c].thread \in 1..newest'
    BY <1>1 DEF Born, NotBorn, Grows, NativeGrows, Turn
  <2>2. native'[c].status = "none" => native'[c].inputs = {}
    BY <1>1 DEF Born, NotBorn, Grows, NativeGrows, Turn
  <2> QED
    BY <1>2, <2>1, <2>2 DEF Born, Launched
<1> QED
    BY <1>4, <1>5, <1>6 DEF Own

\* The call moves, and leaves turns, states and receipts as they are.
LEMMA MovesQuietly ==
    ASSUME TypeOK, CoreInv, Quiet, UNCHANGED loaded, UNCHANGED doubtful,
           NEW c \in Call, NEW r, Moved(c, r), Own(c)',
           \/ UNCHANGED lockQueue
           \/ HasLock(c) /\ Unlock
           \/ lockQueue' = Append(lockQueue, c),
           steerQueue' \in [State -> Seq(Call)], watch' \subseteq Turn,
           UNCHANGED faults \/ Fault
    PROVE  TypeOK' /\ CoreInv'
<1>1. call' \in [Call -> CallRecord] /\ \A d \in Call \ {c} : call'[d] = call[d]
    BY MovedOne
<1>2. \A d \in Call \ {c} : LockKept(d)
    BY LockFrame DEF Quiet
<1>3. lockQueue' \in Seq(Call) /\ faults' \in 0..MaxFaults
    BY TailType, FaultType, Typed
<1> QED
    BY <1>1, <1>2, <1>3, QuietTypes, QuietStep, Typed

LEMMA RouteCore == ASSUME TypeOK, CoreInv, NEW c \in Call, Route(c) PROVE TypeOK' /\ CoreInv'
<1>0. /\ Quiet /\ UNCHANGED loaded /\ UNCHANGED doubtful /\ UNCHANGED watch /\ UNCHANGED faults
      /\ watch' \subseteq Turn
    BY Typed DEF Route, Quiet, durable, server
<1>1. /\ At(c, {"queued"}) /\ HasLock(c) /\ Own(c) /\ call[c].outcome = "none"
      /\ native[c].status = "none" /\ native[c].inputs = {} /\ ~Holds(c) /\ call[c].note = None
    BY DEF Route, At, Own, CoreInv, Refers, Born, Launched
<1>2. Grows /\ NotBorn(c)
    BY <1>0, QuietGrows DEF NotBorn, Quiet
<1>3. ASSUME NEW out \in Outcomes, NEW t \in Turn \cup {None}, EndsWith(c, out, t), Unlock,
             UNCHANGED steerQueue
      PROVE  TypeOK' /\ CoreInv'
    BY <1>0, <1>1, <1>3, EndsQuietly
<1>4. CASE active # None /\ RouteToActive(c) /\ Unlock
  <2>0. PICK o \in State : o = active
    BY <1>4, Typed
  <2>1. /\ Holds(o) /\ StateOK(o) /\ state[o].turn \in Turn \cup {None}
        /\ (Of(c) = state[o].message => PartOf(Of(c), state[o].turn))
    BY <1>4, <2>0, Typed, MessageType DEF CoreInv, ActiveOK, StateOK, StateRecord, State
  <2>2. CASE EndsWith(c, "accepted", state[o].turn) /\ UNCHANGED steerQueue
    BY <1>3, <1>4, <2>1, <2>2 DEF Outcomes
  <2>3. CASE EndsWith(c, "busy", None) /\ UNCHANGED steerQueue
    BY <1>3, <1>4, <2>3 DEF Outcomes
  <2>4. CASE /\ call' = [call EXCEPT ![c] = TakesOver(c, o)]
             /\ Of(c) = state[o].message /\ UNCHANGED steerQueue
    <3>1. Moved(c, TakesOver(c, o)) /\ call'[c] = TakesOver(c, o)
      BY <2>4, WaitsRecord, Typed DEF Moved
    <3>2. Own(c)'
      BY <1>0, <1>1, <1>2, <2>0, <2>1, <2>4, <3>1, WaitsRecord, WaitsOwn DEF Quiet, Holds, PartOf
    <3> QED
      BY <1>0, <1>1, <1>4, <2>4, <3>1, <3>2, MovesQuietly, Typed
  <2>5. ASSUME NEW s \in {"afterFinal", "steerQueued"}, Of(c) # state[o].message,
               call' = [call EXCEPT ![c].stage = s, ![c].state = o],
               steerQueue' \in [State -> Seq(Call)]
        PROVE  TypeOK' /\ CoreInv'
    <3>1. PICK r \in CallRecord : /\ Moved(c, r) /\ r.stage = s /\ r.state = o
                                  /\ r.note = None /\ r.outcome = "none"
      <4> DEFINE r == [call[c] EXCEPT !.stage = s, !.state = o]
      <4>1. call \in [Call -> CallRecord]
        BY Typed
      <4>2. /\ r \in CallRecord /\ r.stage = s /\ r.state = o
            /\ r.note = call[c].note /\ r.outcome = call[c].outcome
        BY <4>1 DEF CallRecord, Stages
      <4>3. call' = [call EXCEPT ![c] = r]
        BY <2>5, <4>1 DEF CallRecord
      <4> HIDE DEF r
      <4> QED
        BY <1>1, <4>2, <4>3 DEF Moved
    <3>2. call'[c] = r
      BY <3>1, MovedOne
    <3>3. Refers(c)'
      BY <1>0, <2>0, <2>1, <2>5, <3>1, <3>2, Zero
         DEF Refers, At, Quiet, Holds, SteerStages, Launched
    <3>4. UnderLock(c)' /\ Born(c)'
      BY <1>0, <1>1, <3>1, <3>2, Zero DEF UnderLock, Born, At, Quiet, Holds, LockStages
    <3> QED
      BY <1>0, <1>1, <1>4, <2>5, <3>1, <3>3, <3>4, MovesQuietly DEF Own
  <2>6. steerQueue' = [steerQueue EXCEPT ![o] = Append(@, c)] => steerQueue' \in [State -> Seq(Call)]
    BY TailType, Typed
  <2> QED
    BY <1>4, <2>0, <2>2, <2>3, <2>4, <2>5, <2>6, Typed DEF RouteToActive
<1>5. CASE active = None /\ call' = [call EXCEPT ![c].stage = "admitting", ![c].thread = thread]
           /\ UNCHANGED <<lockQueue, steerQueue>>
  <2>1. PICK r \in CallRecord : /\ Moved(c, r) /\ r.stage = "admitting" /\ r.thread = thread
                                /\ r.state = call[c].state /\ r.note = None /\ r.outcome = "none"
    <3> DEFINE r == [call[c] EXCEPT !.stage = "admitting", !.thread = thread]
    <3>1. call \in [Call -> CallRecord] /\ thread \in Thread
      BY Typed
    <3>2. /\ r \in CallRecord /\ r.stage = "admitting" /\ r.thread = thread
          /\ r.state = call[c].state /\ r.note = call[c].note /\ r.outcome = call[c].outcome
      BY <3>1 DEF CallRecord, Stages
    <3>3. call' = [call EXCEPT ![c] = r]
      BY <1>5, <3>1 DEF CallRecord
    <3> HIDE DEF r
    <3> QED
      BY <1>1, <3>2, <3>3 DEF Moved
  <2>2. call'[c] = r
    BY <2>1, MovedOne
  <2>3. Refers(c)'
    BY <1>0, <1>1, <2>1, <2>2 DEF Own, Refers, At, Quiet, Holds, SteerStages, Launched
  <2>4. UnderLock(c)'
    BY <1>0, <1>1, <1>5, <2>1, <2>2 DEF UnderLock, At, HasLock, Quiet, LockStages, CoreInv
  <2>5. Born(c)'
    BY <1>0, <1>1, <2>1, <2>2 DEF Born, At, Quiet, Holds
  <2> QED
    BY <1>0, <1>5, <2>1, <2>3, <2>4, <2>5, MovesQuietly, Typed DEF Own
<1>6. CASE EndsWith(c, "aborted", None) /\ Unlock /\ UNCHANGED steerQueue
    BY <1>3, <1>6 DEF Outcomes
<1> QED
    BY <1>4, <1>5, <1>6 DEF Route

LEMMA RestartsMoves ==
    ASSUME TypeOK, NEW c \in Call, Restarts(c)
    PROVE  \E r \in CallRecord :
              /\ Moved(c, r) /\ r.stage = "entering" /\ r.state = None
              /\ r.note = call[c].note /\ r.outcome = call[c].outcome
<1> DEFINE r == [call[c] EXCEPT !.stage = "entering", !.state = None]
<1>1. call \in [Call -> CallRecord]
    BY Typed
<1>2. /\ r \in CallRecord /\ r.stage = "entering" /\ r.state = None
      /\ r.note = call[c].note /\ r.outcome = call[c].outcome
    BY <1>1 DEF CallRecord, Stages
<1>3. call' = [call EXCEPT ![c] = r]
    BY <1>1 DEF Restarts, CallRecord
<1> HIDE DEF r
<1> QED
    BY <1>2, <1>3 DEF Moved

Reads(c, s, t) == call' = [call EXCEPT ![c].stage = s, ![c].turn = t]

LEMMA ReadsMoves ==
    ASSUME TypeOK, NEW c \in Call, NEW s \in Stages, NEW t \in Turn, Reads(c, s, t)
    PROVE  \E r \in CallRecord :
              /\ Moved(c, r) /\ r.stage = s /\ r.turn = t
              /\ r.thread = call[c].thread /\ r.state = call[c].state
              /\ r.note = call[c].note /\ r.outcome = call[c].outcome
<1> DEFINE r == [call[c] EXCEPT !.stage = s, !.turn = t]
<1>1. call \in [Call -> CallRecord]
    BY Typed
<1>2. /\ r \in CallRecord /\ r.stage = s /\ r.turn = t
      /\ r.thread = call[c].thread /\ r.state = call[c].state
      /\ r.note = call[c].note /\ r.outcome = call[c].outcome
    BY <1>1 DEF CallRecord
<1>3. call' = [call EXCEPT ![c] = r]
    BY <1>1 DEF CallRecord, Reads
<1> HIDE DEF r
<1> QED
    BY <1>2, <1>3 DEF Moved

LEMMA RestartAfterFinalCore ==
    ASSUME TypeOK, CoreInv, NEW c \in Call, RestartAfterFinal(c) PROVE TypeOK' /\ CoreInv'
<1>0. /\ Quiet /\ UNCHANGED loaded /\ UNCHANGED doubtful /\ UNCHANGED watch /\ UNCHANGED faults
      /\ UNCHANGED lockQueue /\ UNCHANGED steerQueue /\ watch' \subseteq Turn
      /\ steerQueue' \in [State -> Seq(Call)]
    BY Typed DEF RestartAfterFinal, Quiet, durable, server
<1>1. /\ At(c, {"afterFinal"}) /\ Own(c) /\ call[c].outcome = "none" /\ call[c].note = None
      /\ native[c].status = "none" /\ native[c].inputs = {} /\ ~Holds(c)
    BY DEF RestartAfterFinal, At, Own, CoreInv, Refers, Born, Launched
<1>2. CASE EndsWith(c, "aborted", None)
    BY <1>0, <1>2, EndsQuietly DEF Outcomes
<1>3. CASE Restarts(c)
  <2>1. PICK r \in CallRecord : /\ Moved(c, r) /\ r.stage = "entering" /\ r.state = None
                                /\ r.note = call[c].note /\ r.outcome = call[c].outcome
    BY <1>3, RestartsMoves
  <2>2. call'[c] = r
    BY <2>1, MovedOne
  <2>3. Own(c)'
    BY <1>0, <1>1, <2>1, <2>2 DEF Own, Refers, UnderLock, Born, At, Quiet, Holds,
                                  SteerStages, LockStages, Launched
  <2> QED
    BY <1>0, <2>1, <2>3, MovesQuietly
<1> QED
    BY <1>2, <1>3 DEF RestartAfterFinal

\* A receipt the call finds is about its message and a turn of its thread.
LEMMA FoundFacts ==
    ASSUME TypeOK, CoreInv, NEW c \in Call, NEW th \in Thread \cup {None}
    PROVE  /\ \A x \in FinalReceipt(th, Of(c)) :
                 /\ x \in store /\ Known(x.turn) /\ native[x.turn].thread = th
                 /\ x.how = "answered" /\ native[x.turn].status = "completed"
                 /\ PartOf(Of(c), x.turn)
           /\ \A x \in ErrorReceipt(th, Of(c)) :
                 /\ x \in store /\ Known(x.turn) /\ native[x.turn].thread = th
                 /\ x.how \in {"failed", "lost"} /\ PartOf(Of(c), x.turn)
           /\ \A x \in Found(th, Of(c), "attempt") :
                 x \in store /\ Known(x.turn) /\ native[x.turn].thread = th
           /\ \A x \in Found(th, Of(c), "confirmed") :
                 /\ x \in store /\ Known(x.turn) /\ native[x.turn].thread = th
                 /\ PartOf(Of(c), x.turn)
<1>1. \A x \in store : ReceiptOK(x)
    BY DEF CoreInv
<1>2. \A key \in Keys : \A x \in Found(th, Of(c), key) :
        x \in store /\ x.thread = th /\ x.message = Of(c) /\ x.key = key /\ ReceiptOK(x)
    BY <1>1 DEF Found
<1>3. "final" \in Keys /\ "error" \in Keys /\ "attempt" \in Keys /\ "confirmed" \in Keys
    BY DEF Keys
<1> QED
    BY <1>2, <1>3 DEF ReceiptOK, FinalReceipt, ErrorReceipt

LEMMA LookupCore ==
    ASSUME TypeOK, CoreInv, NEW c \in Call, Lookup(c) PROVE TypeOK' /\ CoreInv'
<1>0. /\ Quiet /\ UNCHANGED loaded /\ UNCHANGED doubtful /\ UNCHANGED watch /\ UNCHANGED faults
      /\ UNCHANGED steerQueue /\ watch' \subseteq Turn /\ steerQueue' \in [State -> Seq(Call)]
    BY Typed DEF Lookup, Quiet, durable, server
<1>1. /\ At(c, {"admitting"}) /\ HasLock(c) /\ Own(c) /\ call[c].outcome = "none" /\ call[c].note = None
      /\ native[c].status = "none" /\ native[c].inputs = {} /\ ~Holds(c)
      /\ active = None /\ call[c].thread \in 1..newest
    BY DEF Lookup, At, Own, CoreInv, Refers, Born, Launched, UnderLock, LockStages
<1>2. PICK th \in Thread : th = call[c].thread
  <2>1. newest \in 1..MaxThread /\ MaxThread \in Nat
    BY Typed, BoundAssumption DEF Thread
  <2>2. call[c].thread \in 1..MaxThread
    BY <1>1, <2>1
  <2> QED
    BY <2>2 DEF Thread
<1>3. ASSUME NEW out \in Outcomes, NEW t \in Turn, EndsWith(c, out, t), Unlock
      PROVE  TypeOK' /\ CoreInv'
    BY <1>0, <1>1, <1>3, EndsQuietly
<1>4. ASSUME NEW s \in {"resuming", "reconciling"}, NEW t \in Turn, Known(t), native[t].thread = th,
             s = "resuming" => PartOf(Of(c), t),
             Reads(c, s, t), UNCHANGED lockQueue
      PROVE  TypeOK' /\ CoreInv'
  <2>1. PICK r \in CallRecord : /\ Moved(c, r) /\ r.stage = s /\ r.turn = t
                                /\ r.thread = call[c].thread /\ r.state = call[c].state
                                /\ r.note = call[c].note /\ r.outcome = call[c].outcome
    <3>1. s \in Stages
      BY DEF Stages
    <3> QED
      BY <1>4, <3>1, ReadsMoves
  <2>2. call'[c] = r
    BY <2>1, MovedOne
  <2>3. Refers(c)'
    BY <1>0, <1>1, <2>1, <2>2 DEF Own, Refers, At, Quiet, Holds, SteerStages, Launched
  <2>4. UnderLock(c)'
    BY <1>0, <1>1, <1>2, <1>4, <2>1, <2>2 DEF UnderLock, At, HasLock, Quiet, LockStages, Known, PartOf
  <2>5. Born(c)'
    BY <1>0, <1>1, <2>1, <2>2 DEF Born, At, Quiet, Holds
  <2> QED
    BY <1>0, <1>4, <2>1, <2>3, <2>4, <2>5, MovesQuietly DEF Own
<1>5. CASE Goes(c, "preparing") /\ UNCHANGED lockQueue
  <2>1. PICK r \in CallRecord : /\ Moved(c, r) /\ r.stage = "preparing"
                                /\ r.thread = call[c].thread /\ r.state = call[c].state
                                /\ r.note = call[c].note /\ r.outcome = call[c].outcome
    BY <1>5, GoesMoves DEF Stages
  <2>2. call'[c] = r
    BY <2>1, MovedOne
  <2>3. Refers(c)'
    BY <1>0, <1>1, <2>1, <2>2 DEF Own, Refers, At, Quiet, Holds, SteerStages, Launched
  <2>4. UnderLock(c)'
    BY <1>0, <1>1, <1>5, <2>1, <2>2 DEF UnderLock, At, HasLock, Quiet, LockStages
  <2>5. Born(c)'
    BY <1>0, <1>1, <2>1, <2>2 DEF Born, At, Quiet, Holds
  <2> QED
    BY <1>0, <1>5, <2>1, <2>3, <2>4, <2>5, MovesQuietly DEF Own
<1>6. /\ \A x \in FinalReceipt(th, Of(c)) : x.turn \in Turn
      /\ \A x \in ErrorReceipt(th, Of(c)) :
            /\ Known(x.turn) /\ native[x.turn].thread = th /\ PartOf(Of(c), x.turn)
            /\ x.how \in Outcomes
      /\ \A x \in OpenAttempt(th, Of(c)) : Known(x.turn) /\ native[x.turn].thread = th
    BY FoundFacts DEF Known, Outcomes, OpenAttempt
<1>7. CASE \E x \in FinalReceipt(th, Of(c)) : EndsWith(c, "answered", x.turn) /\ Unlock
    BY <1>3, <1>6, <1>7 DEF Outcomes
<1>8. CASE \E x \in LostReceipt(th, Of(c)) :
              Reads(c, "resuming", x.turn) /\ UNCHANGED lockQueue
    BY <1>4, <1>6, <1>8 DEF LostReceipt, Known
<1>9. CASE \E x \in ErrorReceipt(th, Of(c)) : EndsWith(c, x.how, x.turn) /\ Unlock
    BY <1>3, <1>6, <1>9 DEF Known
<1>10. CASE \E x \in OpenAttempt(th, Of(c)) :
              \/ EndsWith(c, "accepted", x.turn) /\ Unlock
              \/ Reads(c, "reconciling", x.turn) /\ UNCHANGED lockQueue
    BY <1>3, <1>4, <1>6, <1>10 DEF Known, Outcomes
<1> QED
    BY <1>2, <1>5, <1>7, <1>8, <1>9, <1>10 DEF Lookup, Reads

LEMMA ResumeAnsweredCore ==
    ASSUME TypeOK, CoreInv, NEW c \in Call, ResumeAnswered(c) PROVE TypeOK' /\ CoreInv'
<1>0. /\ Quiet /\ UNCHANGED loaded /\ UNCHANGED doubtful /\ UNCHANGED faults
      /\ UNCHANGED lockQueue /\ watch' \subseteq Turn /\ steerQueue' \in [State -> Seq(Call)]
    BY Typed DEF ResumeAnswered, Quiet, durable
<1>1. At(c, {"resuming"}) /\ Own(c) /\ call[c].outcome = "none" /\ call[c].note = None
    BY DEF ResumeAnswered, At, Own, CoreInv, Refers, Launched
<1>2. PICK t \in Turn : /\ t = call[c].turn /\ native[t].status \in Ended \cup {"running"}
                        /\ native[t].thread = call[c].thread /\ PartOf(Of(c), t)
    BY <1>1, Typed DEF Own, UnderLock, Known, NativeRecord, At
<1>3. PICK g \in Settlements \ {"lost"} : /\ g = Settlement(native[t].status)
                                          /\ g = "answered" => native[t].status = "completed"
    BY <1>2 DEF Settlement, Settlements, Ended
<1>4. PICK r \in CallRecord : /\ Moved(c, r) /\ r.stage = "resumed" /\ r.seen = g
                              /\ r.turn = t /\ r.thread = call[c].thread /\ r.state = call[c].state
                              /\ r.note = call[c].note /\ r.outcome = call[c].outcome
  <2> DEFINE r == [call[c] EXCEPT !.stage = "resumed", !.seen = g]
  <2>1. call \in [Call -> CallRecord]
    BY Typed
  <2>2. /\ r \in CallRecord /\ r.stage = "resumed" /\ r.seen = g
        /\ r.turn = call[c].turn /\ r.thread = call[c].thread /\ r.state = call[c].state
        /\ r.note = call[c].note /\ r.outcome = call[c].outcome
    BY <2>1 DEF CallRecord, Stages
  <2>3. call' = [call EXCEPT ![c].stage = "resumed", ![c].seen = g]
    BY <1>2, <1>3 DEF ResumeAnswered
  <2>4. call' = [call EXCEPT ![c] = r]
    BY <2>1, <2>3 DEF CallRecord
  <2> HIDE DEF r
  <2> QED
    BY <1>2, <2>2, <2>4 DEF Moved
<1>5. call'[c] = r
    BY <1>4, MovedOne
<1>6. Refers(c)'
    BY <1>0, <1>1, <1>4, <1>5 DEF Own, Refers, At, Quiet, Holds, SteerStages, Launched
<1>7. UnderLock(c)'
    BY <1>0, <1>1, <1>2, <1>3, <1>4, <1>5
       DEF Own, UnderLock, At, HasLock, Quiet, LockStages, Known, PartOf
<1>8. Born(c)'
    BY <1>0, <1>1, <1>4, <1>5 DEF Own, Born, At, Quiet, Holds, Launched
<1> QED
    BY <1>0, <1>4, <1>6, <1>7, <1>8, MovesQuietly DEF Own

LEMMA RequestStartCore ==
    ASSUME TypeOK, CoreInv, NEW c \in Call, RequestStart(c) PROVE TypeOK' /\ CoreInv'
<1>0. /\ Quiet /\ UNCHANGED loaded /\ UNCHANGED doubtful /\ UNCHANGED faults
      /\ UNCHANGED steerQueue /\ UNCHANGED watch
      /\ watch' \subseteq Turn /\ steerQueue' \in [State -> Seq(Call)]
    BY Typed DEF RequestStart, Quiet, durable, server
<1>1. At(c, {"starting"}) /\ HasLock(c) /\ Own(c)
    BY DEF RequestStart, Own, CoreInv
<1>2. CASE EndsWith(c, "aborted", None) /\ Unlock
    BY <1>0, <1>1, <1>2, EndsQuietly DEF Outcomes
<1>3. CASE Goes(c, "sent") /\ UNCHANGED lockQueue
  <2>1. PICK r \in CallRecord : /\ Moved(c, r) /\ r.stage = "sent"
                                /\ r.thread = call[c].thread /\ r.state = call[c].state
                                /\ r.note = call[c].note /\ r.outcome = call[c].outcome
    BY <1>3, GoesMoves DEF Stages
  <2>2. call'[c] = r
    BY <2>1, MovedOne
  <2>3. Refers(c)'
    BY <1>0, <1>1, <2>1, <2>2 DEF Own, Refers, At, Quiet, Holds, SteerStages, Launched
  <2>4. UnderLock(c)'
    BY <1>0, <1>1, <1>3, <2>1, <2>2 DEF Own, UnderLock, At, HasLock, Quiet, LockStages
  <2>5. Born(c)'
    BY <1>0, <1>1, <2>1, <2>2 DEF Own, Born, At, Quiet, Holds, Launched
  <2> QED
    BY <1>0, <1>3, <2>1, <2>3, <2>4, <2>5, MovesQuietly DEF Own
<1> QED
    BY <1>2, <1>3 DEF RequestStart

LEMMA SteerSendsCore ==
    ASSUME TypeOK, CoreInv, NEW c \in Call, SteerSends(c) PROVE TypeOK' /\ CoreInv'
<1>0. /\ Quiet /\ UNCHANGED loaded /\ UNCHANGED doubtful /\ UNCHANGED faults
      /\ UNCHANGED lockQueue /\ watch' \subseteq Turn /\ steerQueue' \in [State -> Seq(Call)]
    BY Typed DEF SteerSends, Quiet, durable, server
<1>1. At(c, {"steerReady"}) /\ Own(c) /\ Goes(c, "steerSent")
    BY DEF SteerSends, Own, CoreInv
<1>2. PICK r \in CallRecord : /\ Moved(c, r) /\ r.stage = "steerSent"
                              /\ r.thread = call[c].thread /\ r.state = call[c].state
                              /\ r.note = call[c].note /\ r.outcome = call[c].outcome
    BY <1>1, GoesMoves DEF Stages
<1>3. call'[c] = r
    BY <1>2, MovedOne
<1>4. Refers(c)'
    BY <1>0, <1>1, <1>2, <1>3 DEF Own, Refers, At, Quiet, Holds, SteerStages, Launched
<1>5. UnderLock(c)' /\ Born(c)'
    BY <1>0, <1>1, <1>2, <1>3 DEF Own, UnderLock, Born, At, Quiet, Holds, LockStages, Launched
<1> QED
    BY <1>0, <1>2, <1>4, <1>5, MovesQuietly DEF Own

LEMMA StatementFailsCore ==
    ASSUME TypeOK, CoreInv, NEW c \in Call, StatementFails(c) PROVE TypeOK' /\ CoreInv'
<1>1. /\ Quiet /\ UNCHANGED <<loaded, steerQueue, watch, doubtful>>
      /\ HasLock(c) /\ Unlock /\ Fault /\ EndsWith(c, "error", None)
    BY DEF StatementFails, Quiet, durable, server
<1> QED
    BY <1>1, EndsQuietly DEF Outcomes

LEMMA StopWaitingCore ==
    ASSUME TypeOK, CoreInv, NEW c \in Call, StopWaiting(c) PROVE TypeOK' /\ CoreInv'
<1>1. /\ Quiet /\ UNCHANGED <<loaded, steerQueue, watch, doubtful>>
      /\ UNCHANGED lockQueue /\ UNCHANGED faults /\ EndsWith(c, "aborted", None)
    BY DEF StopWaiting, Quiet, durable, server
<1> QED
    BY <1>1, EndsQuietly DEF Outcomes

LEMMA AbortCallCore ==
    ASSUME TypeOK, CoreInv, NEW c \in Call, AbortCall(c) PROVE TypeOK' /\ CoreInv'
<1>0. /\ Quiet /\ UNCHANGED loaded /\ UNCHANGED doubtful /\ Fault
      /\ UNCHANGED lockQueue /\ watch' \subseteq Turn /\ steerQueue' \in [State -> Seq(Call)]
    BY Typed DEF AbortCall, Quiet, durable, server
<1>1. PICK r \in CallRecord : /\ Moved(c, r) /\ r.stage = call[c].stage
                              /\ r.thread = call[c].thread /\ r.turn = call[c].turn
                              /\ r.state = call[c].state /\ r.note = call[c].note
                              /\ r.seen = call[c].seen /\ r.outcome = call[c].outcome
  <2> DEFINE r == [call[c] EXCEPT !.aborted = TRUE]
  <2>1. call \in [Call -> CallRecord]
    BY Typed
  <2>2. /\ r \in CallRecord /\ r.stage = call[c].stage
        /\ r.thread = call[c].thread /\ r.turn = call[c].turn
        /\ r.state = call[c].state /\ r.note = call[c].note
        /\ r.seen = call[c].seen /\ r.outcome = call[c].outcome
    BY <2>1 DEF CallRecord
  <2>3. call' = [call EXCEPT ![c] = r]
    BY <2>1 DEF AbortCall, CallRecord
  <2> HIDE DEF r
  <2> QED
    BY <2>2, <2>3 DEF Moved
<1>2. call'[c] = r /\ Own(c)
    BY <1>1, MovedOne DEF Own, CoreInv
<1>3. Refers(c)'
    BY <1>0, <1>1, <1>2 DEF Own, Refers, At, Quiet, Holds, PartOf
<1>4. UnderLock(c)'
    BY <1>0, <1>1, <1>2 DEF Own, UnderLock, At, HasLock, Quiet, Known, PartOf
<1>5. Born(c)'
    BY <1>0, <1>1, <1>2 DEF Own, Born, At, Quiet, Holds, Known, PartOf
<1> QED
    BY <1>0, <1>1, <1>3, <1>4, <1>5, MovesQuietly DEF Own
----------------------------------------------------------------------------
(* The core invariant: receipts, turns and states change *)

LEMMA EventFacts ==
    ASSUME NEW th \in Thread, NEW m \in Message, NEW key \in Keys, NEW t \in Turn,
           NEW how \in Settlements \cup {"steer"}
    PROVE  \E e \in EventRecord :
              /\ e = Event(th, m, key, t, how)
              /\ e.thread = th /\ e.message = m /\ e.key = key /\ e.turn = t /\ e.how = how
<1> DEFINE e == Event(th, m, key, t, how)
<1>1. /\ e \in EventRecord
      /\ e.thread = th /\ e.message = m /\ e.key = key /\ e.turn = t /\ e.how = how
    BY DEF Event, EventRecord
<1> HIDE DEF e
<1>2. \E x \in EventRecord : /\ x = e /\ x.thread = th /\ x.message = m /\ x.key = key
                              /\ x.turn = t /\ x.how = how
    BY <1>1
<1> QED
    BY <1>2 DEF e

\* What a receipt that is saved must be.
LEMMA SaveStep ==
    ASSUME TypeOK, CoreInv, Grows, NEW S \in SUBSET store, NEW e \in EventRecord,
           ReceiptOK(e)', store' = Save(S, e)
    PROVE  store' \subseteq EventRecord /\ (\A x \in store' : ReceiptOK(x)') /\ OneReceipt'
<1>1. store \subseteq EventRecord /\ OneReceipt
    BY Typed DEF CoreInv
<1>2. \A x \in store' : x = e \/ (x \in store /\ <<x.thread, x.message, x.key>> # <<e.thread, e.message, e.key>>)
    BY DEF Save
<1>3. store' \subseteq EventRecord
    BY <1>1, <1>2
<1>4. \A x \in store' : ReceiptOK(x)'
    BY <1>2, ReceiptFrame
<1>5. OneReceipt'
    BY <1>1, <1>2 DEF OneReceipt
<1> QED
    BY <1>3, <1>4, <1>5

\* States keep all but the message that is being steered into them.
Still ==
    /\ UNCHANGED <<native, newest, active, loaded>>
    /\ \A o \in State : /\ state'[o].turn = state[o].turn /\ state'[o].thread = state[o].thread
                        /\ state'[o].message = state[o].message
                        /\ state'[o].settled = state[o].settled

LEMMA StillFacts ==
    ASSUME TypeOK, CoreInv, Still
    PROVE  /\ Grows /\ ActiveOK' /\ \A o \in State : StateOK(o)'
           /\ \A d \in Call : NotBorn(d) /\ (state'[d].turn # None => Holds(d))
<1>1. newest \in Nat /\ active \in State \cup {None}
    BY Typed DEF Thread
<1>2. Grows
    BY <1>1 DEF Still, Grows, NativeGrows, StateKept
<1>3. ActiveOK'
    BY <1>1 DEF Still, CoreInv, ActiveOK, Holds
<1>4. \A o \in State : StateOK(o)'
    BY DEF Still, CoreInv, StateOK, Holds, Known, PartOf
<1>5. \A d \in Call : NotBorn(d) /\ (state'[d].turn # None => Holds(d))
    BY DEF Still, NotBorn, Holds, State
<1> QED
    BY <1>2, <1>3, <1>4, <1>5

LEMMA EndsOwn ==
    ASSUME TypeOK, CoreInv, Grows, NEW c \in Call, NEW out \in Outcomes,
           NEW t \in Turn \cup {None}, EndsWith(c, out, t), NotBorn(c),
           state'[c].turn # None => Holds(c)
    PROVE  /\ call' \in [Call -> CallRecord] /\ Own(c)'
           /\ \A d \in Call \ {c} : call'[d] = call[d]
<1>1. Moved(c, Ends(c, out, t)) /\ ToldDone(c)
    BY EndsRecord, Typed DEF EndsWith, Moved, ToldDone
<1> QED
    BY <1>1, MovedOne, ToldOwn

LEMMA ReconcileCore ==
    ASSUME TypeOK, CoreInv, NEW c \in Call, Reconcile(c) PROVE TypeOK' /\ CoreInv'
<1>0. /\ Still /\ UNCHANGED <<state, steerQueue, thread, watch, faults, doubtful>>
      /\ At(c, {"reconciling"}) /\ HasLock(c) /\ Unlock /\ Reconciled(c, call[c].thread)
    BY DEF Reconcile, Still, server
<1>1. /\ Grows /\ ActiveOK' /\ \A o \in State : StateOK(o)'
      /\ \A d \in Call : NotBorn(d) /\ (state'[d].turn # None => Holds(d))
    BY <1>0, StillFacts
<1>2. PICK t \in Turn : /\ t = call[c].turn /\ Known(t) /\ native[t].thread = call[c].thread
                        /\ call[c].thread \in Thread
    BY <1>0, Typed DEF CoreInv, UnderLock, Known, At, LockStages, CallRecord, None, Thread
<1>3. PICK out \in Outcomes : EndsWith(c, out, t)
    BY <1>0, <1>2 DEF Reconciled, Outcomes
<1>4. /\ call' \in [Call -> CallRecord] /\ Own(c)'
      /\ \A d \in Call \ {c} : call'[d] = call[d]
    BY <1>1, <1>3, EndsOwn
<1>5. store' \subseteq EventRecord /\ (\A x \in store' : ReceiptOK(x)') /\ OneReceipt'
  <2>1. CASE UNCHANGED store
    BY <1>1, <2>1, ReceiptFrame, Typed DEF OneReceipt, CoreInv
  <2>2. CASE Delivered(c) /\ store' = Save(store, Event(call[c].thread, Of(c), "confirmed", t, "steer"))
    <3>1. PICK e \in EventRecord : /\ e = Event(call[c].thread, Of(c), "confirmed", t, "steer")
                                   /\ e.turn = t /\ e.thread = call[c].thread
                                   /\ e.message = Of(c) /\ e.key = "confirmed"
      <4>1. "confirmed" \in Keys /\ "steer" \in Settlements \cup {"steer"}
        BY DEF Keys
      <4> QED
        BY <1>2, <4>1, MessageType, EventFacts
    <3>2. ReceiptOK(e)'
      BY <1>0, <1>2, <2>2, <3>1 DEF ReceiptOK, Known, PartOf, Delivered, Still
    <3> QED
      BY <1>1, <2>2, <3>1, <3>2, SaveStep
  <2> QED
    BY <1>0, <1>2, <2>1, <2>2 DEF Reconciled
<1>6. \A d \in Call \ {c} : LockKept(d)
    BY <1>0, LockFrame
<1>7. TypeOK'
    BY <1>0, <1>4, <1>5, TailType, Typed, TypedNext DEF Still
<1>8. thread' \in 1..newest'
    BY <1>0 DEF Still, CoreInv
<1> QED
    BY <1>1, <1>4, <1>5, <1>6, <1>7, <1>8, CoreStep

LEMMA Unnoted ==
    ASSUME NEW q \in CallRecord
    PROVE  \E r \in CallRecord : /\ r = [q EXCEPT !.note = None] /\ r.note = None
                                  /\ r.stage = q.stage /\ r.state = q.state
                                  /\ r.turn = q.turn /\ r.outcome = q.outcome
<1> DEFINE r == [q EXCEPT !.note = None]
<1>1. /\ r \in CallRecord /\ r.note = None /\ r.stage = q.stage /\ r.state = q.state
      /\ r.turn = q.turn /\ r.outcome = q.outcome
    BY DEF CallRecord
<1> HIDE DEF r
<1>2. \E p \in CallRecord : /\ p = r /\ p.note = None /\ p.stage = q.stage /\ p.state = q.state
                             /\ p.turn = q.turn /\ p.outcome = q.outcome
    BY <1>1
<1> QED
    BY <1>2 DEF r

\* A registered state that is settled.
LEMMA HeldFacts ==
    ASSUME TypeOK, CoreInv, NEW o \in State, Holds(o)
    PROVE  /\ state[o].turn \in Turn /\ Known(state[o].turn)
           /\ state[o].thread = native[state[o].turn].thread
           /\ state[o].thread \in 1..newest /\ state[o].thread \in Thread
           /\ ~Unsettled(o) => state[o].settled \in {"answered", "failed", "lost"}
           /\ state[o].settled = "answered" => native[state[o].turn].status = "completed"
<1>1. StateOK(o)
    BY DEF CoreInv
<1>2. /\ state[o].turn \in Turn /\ Known(state[o].turn)
      /\ state[o].thread = native[state[o].turn].thread
      /\ state[o].settled = "answered" => native[state[o].turn].status = "completed"
    BY <1>1 DEF StateOK, Known
<1>3. Born(state[o].turn)
    BY <1>2 DEF CoreInv, Turn
<1>4. state[o].thread \in 1..newest
    BY <1>2, <1>3 DEF Born, Known
<1>5. newest \in 1..MaxThread /\ MaxThread \in Nat
    BY Typed, BoundAssumption DEF Thread
<1>6. state[o].thread \in 1..MaxThread
    BY <1>4, <1>5
<1>7. state[o].settled \in Settlements
    BY Typed DEF StateRecord
<1> QED
    BY <1>2, <1>4, <1>6, <1>7, Zero DEF Thread, Settlements, Unsettled

LEMMA NoteCore ==
    ASSUME TypeOK, CoreInv, NEW c \in Call, Note(c) PROVE TypeOK' /\ CoreInv'
<1>0. /\ Still /\ UNCHANGED <<state, steerQueue, watch, doubtful, lockQueue>>
    BY DEF Note, Still, server
<1>1. /\ Grows /\ ActiveOK' /\ \A o \in State : StateOK(o)'
      /\ \A d \in Call : NotBorn(d) /\ (state'[d].turn # None => Holds(d))
    BY <1>0, StillFacts
<1>2. PICK o \in State : /\ o = call[c].note /\ Holds(o) /\ PartOf(Of(c), state[o].turn)
                         /\ active # o /\ ~Unsettled(o) /\ o # None
    BY Typed DEF Note, CoreInv, Refers, CallRecord
<1>3. /\ state[o].turn \in Turn /\ Known(state[o].turn) /\ state[o].thread \in 1..newest
      /\ state[o].thread \in Thread /\ state[o].thread = native[state[o].turn].thread
      /\ state[o].settled \in {"answered", "failed", "lost"}
      /\ state[o].settled = "answered" => native[state[o].turn].status = "completed"
      /\ newest \in Nat
    BY <1>2, HeldFacts, Typed DEF Thread
<1>4. At(c, Launched)
    BY <1>2, Zero DEF CoreInv, Refers
<1>5. ASSUME NEW out \in Outcomes,
             call' = [call EXCEPT ![c] =
                [IF At(c, {"noting"}) THEN Ends(c, out, state[o].turn) ELSE call[c]
                    EXCEPT !.note = None]]
      PROVE  /\ call' \in [Call -> CallRecord] /\ Own(c)'
             /\ \A d \in Call \ {c} : call'[d] = call[d]
  <2>1. CASE At(c, {"noting"})
    <3>1. PICK r \in CallRecord : /\ Moved(c, r) /\ r.stage = "done" /\ r.state = None /\ r.note = None
      <4>1. PICK q \in CallRecord : q = Ends(c, out, state[o].turn) /\ q.stage = "done" /\ q.state = None
        BY <1>3, EndsRecord
      <4>2. PICK r \in CallRecord : r = [q EXCEPT !.note = None] /\ r.stage = "done" /\ r.state = None /\ r.note = None
        BY <4>1, Unnoted
      <4>3. call' = [call EXCEPT ![c] = r]
        BY <1>5, <2>1, <4>1, <4>2
      <4> QED
        BY <4>2, <4>3 DEF Moved
    <3>2. /\ call' \in [Call -> CallRecord] /\ call'[c] = r
          /\ \A d \in Call \ {c} : call'[d] = call[d]
      BY <3>1, MovedOne
    <3>3. ToldDone(c)
      BY <3>1, <3>2 DEF ToldDone
    <3> QED
      BY <1>1, <3>2, <3>3, ToldOwn
  <2>2. CASE ~At(c, {"noting"})
    <3>1. PICK r \in CallRecord : /\ Moved(c, r) /\ r.stage = call[c].stage /\ r.state = call[c].state
                                  /\ r.note = None /\ r.outcome = call[c].outcome
      <4>1. call \in [Call -> CallRecord]
        BY Typed
      <4>2. PICK r \in CallRecord : /\ r = [call[c] EXCEPT !.note = None]
                                    /\ r.stage = call[c].stage /\ r.state = call[c].state
                                    /\ r.note = None /\ r.outcome = call[c].outcome
        BY <4>1, Unnoted
      <4>3. call' = [call EXCEPT ![c] = r]
        BY <1>5, <2>2, <4>2
      <4> QED
        BY <4>2, <4>3 DEF Moved
    <3>2. /\ call' \in [Call -> CallRecord] /\ call'[c] = r
          /\ \A d \in Call \ {c} : call'[d] = call[d]
      BY <3>1, MovedOne
    <3>3. Own(c)'
      BY <1>0, <1>4, <3>1, <3>2 DEF Own, CoreInv, Refers, UnderLock, Born, At, Still, Holds, PartOf,
                               Known, SteerStages, LockStages, Launched
    <3> QED
      BY <3>2, <3>3
  <2> QED
    BY <2>1, <2>2
<1>6. /\ call' \in [Call -> CallRecord] /\ Own(c)'
      /\ \A d \in Call \ {c} : call'[d] = call[d]
  <2>1. /\ state[o].settled \in Outcomes
        /\ (IF state[o].settled = "answered" THEN "error" ELSE state[o].settled) \in Outcomes
    BY <1>3 DEF Outcomes
  <2>2. \E out \in Outcomes :
            call' = [call EXCEPT ![c] =
                [IF At(c, {"noting"}) THEN Ends(c, out, state[o].turn) ELSE call[c]
                    EXCEPT !.note = None]]
    BY <1>2, <2>1 DEF Note
  <2> QED
    BY <1>5, <2>2
<1>7. /\ store' \subseteq EventRecord /\ (\A x \in store' : ReceiptOK(x)') /\ OneReceipt'
      /\ thread' \in 1..newest' /\ thread' \in Thread /\ faults' \in 0..MaxFaults
  <2>1. CASE UNCHANGED <<store, thread>> /\ Fault
    BY <1>0, <1>1, <2>1, ReceiptFrame, FaultType, Typed DEF OneReceipt, CoreInv, Still
  <2>2. CASE store' = Save(store, TurnReceipt(o, Of(c))) /\ thread' = state[o].thread /\ UNCHANGED faults
    <3>1. PICK key \in {"final", "error"} : key = IF state[o].settled = "answered" THEN "final" ELSE "error"
      OBVIOUS
    <3>2. PICK e \in EventRecord : /\ e = Event(state[o].thread, Of(c), key, state[o].turn, state[o].settled)
                                   /\ e.turn = state[o].turn /\ e.thread = state[o].thread
                                   /\ e.message = Of(c) /\ e.key = key /\ e.how = state[o].settled
      <4>1. key \in Keys /\ state[o].settled \in Settlements \cup {"steer"}
        BY <1>3 DEF Keys, Settlements
      <4> QED
        BY <1>3, <4>1, MessageType, EventFacts
    <3>3. ReceiptOK(e)'
      BY <1>0, <1>2, <1>3, <3>1, <3>2 DEF ReceiptOK, Known, PartOf, Still
    <3>4. store' = Save(store, e)
      BY <2>2, <3>1, <3>2 DEF TurnReceipt
    <3> QED
      BY <1>0, <1>1, <1>3, <2>2, <3>3, <3>4, SaveStep, Typed DEF Still
  <2>3. CASE UNCHANGED store /\ thread' = state[o].thread /\ UNCHANGED faults
    BY <1>0, <1>1, <1>3, <2>3, ReceiptFrame, Typed DEF OneReceipt, CoreInv, Still
  <2>4. \/ UNCHANGED <<store, thread>> /\ Fault
        \/ /\ store' = IF state[o].silent THEN store ELSE Save(store, TurnReceipt(o, Of(c)))
           /\ thread' = state[o].thread /\ UNCHANGED faults
    BY <1>2 DEF Note
  <2> QED
    BY <2>1, <2>2, <2>3, <2>4
<1>8. \A d \in Call \ {c} : LockKept(d)
    BY <1>0, LockFrame DEF Still
<1>9. TypeOK'
    BY <1>0, <1>6, <1>7, Typed, TypedNext DEF Still
<1> QED
    BY <1>1, <1>6, <1>7, <1>8, <1>9, CoreStep

\* A turn is registered by the call that holds the lock.
LEMMA RegisterCore ==
    ASSUME TypeOK, CoreInv, NEW c \in Call, At(c, {"resumed", "started"}), HasLock(c), Unlock,
           NEW t \in Turn, NEW g \in Settlements \ {"lost"}, Register(c, t, g),
           Known(t), native[t].thread = call[c].thread, PartOf(Of(c), t),
           g = "answered" => native[t].status = "completed",
           call' = [call EXCEPT ![c] = Waits(c, c)], loaded' \subseteq Thread,
           UNCHANGED <<steerQueue, durable, server, faults, doubtful>>
    PROVE  TypeOK' /\ CoreInv'
<1>1. /\ Own(c) /\ ~Holds(c) /\ active = None /\ call[c].outcome = "none" /\ call[c].note = None
      /\ call[c].thread \in Thread \cup {None} /\ c \in State /\ c # None
    BY Typed, Zero DEF Own, CoreInv, Refers, UnderLock, Born, At, Launched, LockStages, CallRecord, State
<1>2. UNCHANGED <<steerQueue, thread, newest, store, native, watch, faults, doubtful>>
    BY DEF durable, server
<1>3. PICK p \in StateRecord : /\ state' = [state EXCEPT ![c] = p] /\ p.turn = t
                               /\ p.thread = call[c].thread /\ p.message = Of(c) /\ p.settled = g
  <2> DEFINE p == [message |-> Of(c), thread |-> call[c].thread, turn |-> t,
                   settled |-> g, silent |-> FALSE, pendingSteer |-> None]
  <2>1. /\ p \in StateRecord /\ p.turn = t
        /\ p.thread = call[c].thread /\ p.message = Of(c) /\ p.settled = g
    BY <1>1, MessageType DEF StateRecord
  <2>2. state' = [state EXCEPT ![c] = p]
    BY DEF Register
  <2> HIDE DEF p
  <2> QED
    BY <2>1, <2>2
<1>4. /\ state' \in [State -> StateRecord] /\ state'[c] = p /\ active' = c
      /\ \A o \in State \ {c} : state'[o] = state[o]
    BY <1>1, <1>3, Typed DEF Register
<1>5. Grows
  <2>1. \A o \in State : StateKept(o)
    BY <1>1, <1>4 DEF StateKept
  <2> QED
    BY <1>1, <1>2, <2>1, Zero, Typed DEF Grows, NativeGrows, Thread
<1>6. \A o \in State : StateOK(o)'
  <2>1. StateOK(c)'
    BY <1>2, <1>3, <1>4, MessageType DEF StateOK, Holds, Known, PartOf
  <2>2. ASSUME NEW o \in State \ {c} PROVE StateOK(o)'
    BY <1>2, <1>4 DEF CoreInv, StateOK, Holds, Known, PartOf
  <2> QED
    BY <2>1, <2>2
<1>7. ActiveOK'
    BY <1>1, <1>3, <1>4, Zero DEF ActiveOK, Holds
<1>8. (\A x \in store' : ReceiptOK(x)') /\ OneReceipt'
    BY <1>2, <1>5, ReceiptFrame DEF OneReceipt, CoreInv
<1>9. /\ call' \in [Call -> CallRecord] /\ call'[c] = Waits(c, c)
      /\ \A d \in Call \ {c} : call'[d] = call[d]
    BY <1>1, WaitsRecord, Typed
<1>10. NotBorn(c)
    BY <1>2 DEF NotBorn
<1>11. Own(c)'
  <2>1. /\ call'[c].stage \in {"waiting", "noting"} /\ call'[c].state = c
        /\ call'[c].note \in {call[c].note, c} /\ call'[c].outcome = "none"
    BY <1>1, <1>9, WaitsRecord
  <2>2. state'[c].turn # None /\ Of(c) \in native'[state'[c].turn].inputs
    BY <1>2, <1>3, <1>4, Zero DEF PartOf
  <2> QED
    BY <1>1, <1>4, <1>5, <1>10, <2>1, <2>2, WaitsOwn
<1>12. \A d \in Call \ {c} : /\ LockKept(d) /\ NotBorn(d)
                             /\ state'[d].turn # None => Holds(d)
    BY <1>2, <1>4, LockFrame DEF NotBorn, Holds, State
<1>13. TypeOK'
    BY <1>1, <1>2, <1>4, <1>9, TailType, Typed, TypedNext
<1>14. thread' \in 1..newest'
    BY <1>2 DEF CoreInv
<1> QED
    BY <1>5, <1>6, <1>7, <1>8, <1>9, <1>11, <1>12, <1>13, <1>14, CoreStep

LEMMA StartedCore ==
    ASSUME TypeOK, CoreInv, NEW c \in Call, Started(c) PROVE TypeOK' /\ CoreInv'
<1>1. /\ At(c, {"resumed", "started"}) /\ HasLock(c) /\ Unlock /\ Register(c, c, "no")
      /\ call' = [call EXCEPT ![c] = Waits(c, c)] /\ loaded' \subseteq Thread
      /\ UNCHANGED <<steerQueue, durable, server, faults, doubtful>>
    BY Typed DEF Started, At
<1>2. c \in Turn /\ Known(c) /\ native[c].thread = call[c].thread /\ PartOf(Of(c), c)
    BY DEF Started, CoreInv, Born, Turn
<1>3. "no" \in Settlements \ {"lost"} /\ "no" # "answered"
    BY DEF Settlements
<1> QED
    BY <1>1, <1>2, <1>3, RegisterCore

LEMMA ResumedFacts ==
    ASSUME TypeOK, CoreInv, NEW c \in Call, Resumed(c)
    PROVE  \E t \in Turn, g \in Settlements \ {"lost"} :
              /\ t = call[c].turn /\ g = call[c].seen /\ Register(c, t, g)
              /\ Known(t) /\ native[t].thread = call[c].thread /\ PartOf(Of(c), t)
              /\ g = "answered" => native[t].status = "completed"
<1>1. At(c, {"resumed"}) /\ UnderLock(c) /\ Register(c, call[c].turn, call[c].seen)
    BY DEF Resumed, CoreInv
<1>2. At(c, {"resuming", "resumed"}) /\ At(c, {"reconciling", "resuming", "resumed"})
    BY <1>1 DEF At
<1>3. call[c].seen \in Settlements
    BY Typed DEF CallRecord
<1> QED
    BY <1>1, <1>2, <1>3 DEF UnderLock, Known

LEMMA ResumedCore ==
    ASSUME TypeOK, CoreInv, NEW c \in Call, Resumed(c) PROVE TypeOK' /\ CoreInv'
<1>1. /\ At(c, {"resumed", "started"}) /\ HasLock(c) /\ Unlock
      /\ call' = [call EXCEPT ![c] = Waits(c, c)]
      /\ UNCHANGED <<steerQueue, durable, server, faults, doubtful>>
    BY DEF Resumed, At
<1>2. PICK t \in Turn, g \in Settlements \ {"lost"} :
              /\ t = call[c].turn /\ g = call[c].seen /\ Register(c, t, g)
              /\ Known(t) /\ native[t].thread = call[c].thread /\ PartOf(Of(c), t)
              /\ g = "answered" => native[t].status = "completed"
    BY ResumedFacts
<1>3. call[c].thread \in Thread
  <2>1. Born(t) /\ newest \in 1..MaxThread /\ MaxThread \in Nat
    BY Typed, BoundAssumption DEF CoreInv, Turn, Thread
  <2>2. native[t].thread \in 1..newest
    BY <1>2, <2>1 DEF Born, Known
  <2> QED
    BY <1>2, <2>1, <2>2 DEF Thread
<1>4. loaded' \subseteq Thread
    BY <1>3, Typed DEF Resumed
<1> QED
    BY <1>1, <1>2, <1>4, RegisterCore

LEMMA InterruptedFacts ==
    ASSUME TypeOK, NEW th
    PROVE  /\ Interrupted(th) \in [Turn -> NativeRecord]
           /\ \A t \in Turn :
                 /\ Interrupted(th)[t].thread = native[t].thread
                 /\ Interrupted(th)[t].inputs = native[t].inputs
                 /\ IF native[t].thread = th /\ native[t].status = "running"
                    THEN Interrupted(th)[t].status = "failed"
                    ELSE Interrupted(th)[t].status = native[t].status
<1>1. \A t \in Turn :
        /\ native[t] \in NativeRecord
        /\ [native[t] EXCEPT !.status = "failed"] \in NativeRecord
        /\ [native[t] EXCEPT !.status = "failed"].status = "failed"
        /\ [native[t] EXCEPT !.status = "failed"].thread = native[t].thread
        /\ [native[t] EXCEPT !.status = "failed"].inputs = native[t].inputs
    BY Typed DEF NativeRecord, Ended
<1> QED
    BY <1>1, Zenon DEF Interrupted

\* Turns end or stay as they are.
TurnsStay ==
    /\ native' \in [Turn -> NativeRecord]
    /\ \A t \in Turn : /\ native'[t].thread = native[t].thread /\ native'[t].inputs = native[t].inputs
                       /\ native'[t].status # native[t].status =>
                             native[t].status = "running" /\ native'[t].status \in Ended

LEMMA TurnsStayFacts ==
    ASSUME TypeOK, CoreInv, TurnsStay, UNCHANGED <<state, store, active>>,
           newest' \in Nat, newest <= newest'
    PROVE  /\ Grows /\ (\A o \in State : StateOK(o)')
           /\ (\A d \in Call : NotBorn(d) /\ (state'[d].turn # None => Holds(d)))
           /\ (\A x \in store' : ReceiptOK(x)') /\ OneReceipt'
<1>1. Grows
    BY DEF Grows, TurnsStay, NativeGrows, StateKept, Ended
<1>2. \A o \in State : StateOK(o)'
    BY <1>1, StateFrame DEF Holds
<1>3. \A d \in Call : NotBorn(d) /\ (state'[d].turn # None => Holds(d))
    BY DEF NotBorn, TurnsStay, Holds, Turn
<1>4. (\A x \in store' : ReceiptOK(x)') /\ OneReceipt'
    BY <1>1, ReceiptFrame DEF OneReceipt, CoreInv
<1> QED
    BY <1>1, <1>2, <1>3, <1>4

\* The call that holds the lock goes on to ask for a turn, on a thread that is loaded.
LEMMA GoesOnCore ==
    ASSUME TypeOK, CoreInv, NEW c \in Call, At(c, {"preparing", "sent"}), HasLock(c),
           NEW th \in 1..newest', newest' \in Thread, newest <= newest',
           NEW r \in CallRecord, Moved(c, r), r.stage = "starting", r.thread = th,
           r.state = call[c].state, r.note = call[c].note, r.outcome = call[c].outcome,
           TurnsStay, thread' \in 1..newest', loaded' \subseteq Thread, faults' \in 0..MaxFaults,
           UNCHANGED <<lockQueue, active, state, steerQueue, store, watch, doubtful>>
    PROVE  TypeOK' /\ CoreInv'
<1>1. /\ Own(c) /\ active = None /\ native[c].status = "none" /\ ~Holds(c)
      /\ native[c].inputs = {}
    BY DEF Own, CoreInv, UnderLock, Born, At, LockStages, Launched
<1>2. newest' \in Nat /\ thread' \in Thread
    BY BoundAssumption DEF Thread
<1>3. /\ Grows /\ (\A o \in State : StateOK(o)')
      /\ (\A d \in Call : NotBorn(d) /\ (state'[d].turn # None => Holds(d)))
      /\ (\A x \in store' : ReceiptOK(x)') /\ OneReceipt'
    BY <1>2, TurnsStayFacts
<1>4. /\ call' \in [Call -> CallRecord] /\ call'[c] = r
      /\ \A d \in Call \ {c} : call'[d] = call[d]
    BY MovedOne
<1>5. Refers(c)'
    BY <1>1, <1>4 DEF Own, Refers, At, Holds, SteerStages, Launched
<1>6. UnderLock(c)'
    BY <1>1, <1>4 DEF UnderLock, At, HasLock, LockStages
<1>7. Born(c)'
    BY <1>1, <1>3, <1>4 DEF Born, NotBorn, At, Holds
<1>8. \A d \in Call \ {c} : LockKept(d)
    BY LockFrame
<1>9. ActiveOK'
    BY <1>1 DEF ActiveOK
<1>10. TypeOK'
    BY <1>2, <1>4, Typed, TypedNext DEF TurnsStay
<1> QED
    BY <1>3, <1>4, <1>5, <1>6, <1>7, <1>8, <1>9, <1>10, CoreStep DEF Own

\* The record of a call that is sent back to starting on another thread.
Reroutes(c, th) == call' = [call EXCEPT ![c].stage = "starting", ![c].thread = th]
ReroutesOnce(c, th) ==
    call' = [call EXCEPT ![c].stage = "starting", ![c].thread = th, ![c].moved = TRUE]
Rerouted(x, s, th) == [x EXCEPT !.stage = s, !.thread = th]
ReroutedOnce(x, s, th) == [x EXCEPT !.stage = s, !.thread = th, !.moved = TRUE]

LEMMA RecordMoves ==
    ASSUME NEW x \in CallRecord, NEW s \in Stages, NEW th \in Thread
    PROVE  /\ Rerouted(x, s, th) \in CallRecord
           /\ Rerouted(x, s, th).stage = s /\ Rerouted(x, s, th).thread = th
           /\ Rerouted(x, s, th).state = x.state /\ Rerouted(x, s, th).note = x.note
           /\ Rerouted(x, s, th).outcome = x.outcome
    BY DEF CallRecord, Rerouted

LEMMA RecordMovesOnce ==
    ASSUME NEW x \in CallRecord, NEW s \in Stages, NEW th \in Thread
    PROVE  /\ ReroutedOnce(x, s, th) \in CallRecord
           /\ ReroutedOnce(x, s, th).stage = s /\ ReroutedOnce(x, s, th).thread = th
           /\ ReroutedOnce(x, s, th).state = x.state /\ ReroutedOnce(x, s, th).note = x.note
           /\ ReroutedOnce(x, s, th).outcome = x.outcome
    BY DEF CallRecord, ReroutedOnce

LEMMA ReroutesMoves ==
    ASSUME TypeOK, NEW c \in Call, NEW th \in Thread,
           Reroutes(c, th) \/ ReroutesOnce(c, th)
    PROVE  \E r \in CallRecord :
              /\ Moved(c, r) /\ r.stage = "starting" /\ r.thread = th
              /\ r.state = call[c].state /\ r.note = call[c].note /\ r.outcome = call[c].outcome
<1>0. /\ call \in [Call -> CallRecord] /\ th \in Thread
      /\ call[c] \in CallRecord /\ "starting" \in Stages
    BY Typed DEF Stages
<1>1. CASE Reroutes(c, th)
  <2> DEFINE r == Rerouted(call[c], "starting", th)
  <2>1. /\ r \in CallRecord /\ r.stage = "starting" /\ r.thread = th
        /\ r.state = call[c].state /\ r.note = call[c].note /\ r.outcome = call[c].outcome
    BY <1>0, RecordMoves
  <2>2. call' = [call EXCEPT ![c] = r]
    BY <1>0, <1>1 DEF CallRecord, Reroutes, Rerouted
  <2> HIDE DEF r
  <2> QED
    BY <2>1, <2>2 DEF Moved
<1>2. CASE ReroutesOnce(c, th)
  <2> DEFINE r == ReroutedOnce(call[c], "starting", th)
  <2>1. /\ r \in CallRecord /\ r.stage = "starting" /\ r.thread = th
        /\ r.state = call[c].state /\ r.note = call[c].note /\ r.outcome = call[c].outcome
    BY <1>0, RecordMovesOnce
  <2>2. call' = [call EXCEPT ![c] = r]
    BY <1>0, <1>2 DEF CallRecord, ReroutesOnce, ReroutedOnce
  <2> HIDE DEF r
  <2> QED
    BY <2>1, <2>2 DEF Moved
<1> QED
    BY <1>1, <1>2

LEMMA PrepareCore ==
    ASSUME TypeOK, CoreInv, NEW c \in Call, Prepare(c) PROVE TypeOK' /\ CoreInv'
<1>0. /\ At(c, {"preparing", "sent"}) /\ HasLock(c)
      /\ UNCHANGED <<lockQueue, active, state, steerQueue, store, watch, doubtful>>
    BY DEF Prepare, At
<1>1. /\ call[c].thread \in 1..newest /\ newest \in Thread /\ newest \in Nat /\ thread \in 1..newest
      /\ loaded \subseteq Thread /\ faults \in 0..MaxFaults /\ call[c].thread \in Thread
  <2>1. newest \in 1..MaxThread /\ MaxThread \in Nat /\ loaded \subseteq Thread /\ faults \in 0..MaxFaults
    BY Typed, BoundAssumption DEF Thread
  <2>2. call[c].thread \in 1..newest /\ thread \in 1..newest
    BY <1>0 DEF CoreInv, UnderLock, LockStages, At
  <2> QED
    BY <2>1, <2>2 DEF Thread
<1>2. CASE /\ Goes(c, "starting")
           /\ loaded' = loaded \cup {call[c].thread}
           /\ native' = IF call[c].thread \in loaded THEN native ELSE Interrupted(call[c].thread)
           /\ UNCHANGED <<thread, newest, faults>>
  <2>1. PICK r \in CallRecord : /\ Moved(c, r) /\ r.stage = "starting" /\ r.thread = call[c].thread
                                /\ r.state = call[c].state /\ r.note = call[c].note
                                /\ r.outcome = call[c].outcome
    BY <1>2, GoesMoves DEF Stages
  <2>2. TurnsStay
    BY <1>2, InterruptedFacts, Typed DEF TurnsStay, Ended
  <2>3. /\ newest' \in Thread /\ newest <= newest' /\ thread' \in 1..newest'
        /\ loaded' \subseteq Thread /\ faults' \in 0..MaxFaults /\ call[c].thread \in 1..newest'
    <3>1. newest' = newest /\ thread' = thread /\ faults' = faults
          /\ loaded' = loaded \cup {call[c].thread}
      BY <1>2
    <3>2. loaded' \subseteq Thread
      BY <1>1, <3>1, Zenon
    <3> QED
      BY <1>1, <3>1, <3>2
  <2> QED
    BY <1>0, <2>1, <2>2, <2>3, GoesOnCore
<1>3. CASE Fault /\ Rollover(c) /\ UNCHANGED native
  <2>1. newest' = newest + 1 /\ thread' = newest' /\ newest' \in Thread /\ loaded' \subseteq Thread
        /\ newest' \in 1..newest' /\ newest <= newest' /\ thread' \in 1..newest'
    BY <1>1, <1>3, BoundAssumption DEF Rollover, Thread
  <2>2. PICK th \in Thread : th = newest' /\ th \in 1..newest'
    BY <2>1
  <2>3. Reroutes(c, th)
    BY <1>3, <2>2 DEF Rollover, Reroutes
  <2>4. PICK r \in CallRecord : /\ Moved(c, r) /\ r.stage = "starting" /\ r.thread = th
                                /\ r.state = call[c].state /\ r.note = call[c].note
                                /\ r.outcome = call[c].outcome
    BY <2>3, ReroutesMoves
  <2>5. TurnsStay /\ faults' \in 0..MaxFaults
    BY <1>3, FaultType, Typed DEF TurnsStay
  <2> QED
    BY <1>0, <2>1, <2>2, <2>4, <2>5, GoesOnCore
<1> QED
    BY <1>2, <1>3 DEF Prepare

LEMMA StartRefusedCore ==
    ASSUME TypeOK, CoreInv, NEW c \in Call, StartRefused(c) PROVE TypeOK' /\ CoreInv'
<1>0. /\ At(c, {"preparing", "sent"}) /\ HasLock(c)
      /\ UNCHANGED <<active, state, steerQueue, store, native, watch, doubtful>>
    BY DEF StartRefused, At, server
<1>1. CASE EndsWith(c, "error", None) /\ Unlock /\ UNCHANGED <<thread, newest, loaded, faults>>
  <2>1. Quiet /\ UNCHANGED <<loaded, steerQueue, watch, doubtful>> /\ UNCHANGED faults
    BY <1>0, <1>1 DEF Quiet
  <2> QED
    BY <1>0, <1>1, <2>1, EndsQuietly DEF Outcomes
<1>2. CASE Fault /\ RolloverArchived(c) /\ UNCHANGED lockQueue
  <2>1. newest' = newest + 1 /\ thread' = newest' /\ newest' \in Thread /\ loaded' \subseteq Thread
        /\ newest' \in 1..newest' /\ newest <= newest' /\ thread' \in 1..newest'
    <3>1. newest \in 1..MaxThread /\ MaxThread \in Nat /\ loaded \subseteq Thread
      BY Typed, BoundAssumption DEF Thread
    <3> QED
      BY <1>2, <3>1 DEF RolloverArchived, Thread
  <2>2. PICK th \in Thread : th = newest' /\ th \in 1..newest'
    BY <2>1
  <2>3. ReroutesOnce(c, th)
    BY <1>2, <2>2 DEF RolloverArchived, ReroutesOnce
  <2>4. PICK r \in CallRecord : /\ Moved(c, r) /\ r.stage = "starting" /\ r.thread = th
                                /\ r.state = call[c].state /\ r.note = call[c].note
                                /\ r.outcome = call[c].outcome
    BY <2>3, ReroutesMoves
  <2>5. TurnsStay /\ faults' \in 0..MaxFaults
    BY <1>0, <1>2, FaultType, Typed DEF TurnsStay
  <2> QED
    BY <1>0, <1>2, <2>1, <2>2, <2>4, <2>5, GoesOnCore
<1> QED
    BY <1>1, <1>2 DEF StartRefused

\* The app server takes a prompt.
LEMMA ServerStartsCore ==
    ASSUME TypeOK, CoreInv, NEW c \in Call, ServerStarts(c) PROVE TypeOK' /\ CoreInv'
<1>0. /\ At(c, {"sent"}) /\ Goes(c, "started") /\ watch' = watch \cup {c}
      /\ UNCHANGED <<lockQueue, active, state, steerQueue, loaded, thread, newest, store, faults, doubtful>>
    BY DEF ServerStarts, durable
<1>1. /\ Own(c) /\ active = None /\ HasLock(c) /\ call[c].thread \in 1..newest
      /\ native[c].status = "none" /\ native[c].inputs = {} /\ ~Holds(c)
      /\ c \in Turn /\ Of(c) \in Message /\ newest \in Nat
    BY <1>0, MessageType, Typed DEF Own, CoreInv, UnderLock, Born, At, LockStages, Launched, Turn, Thread
<1>2. call[c].thread \in Thread
  <2>1. newest \in 1..MaxThread /\ MaxThread \in Nat
    BY Typed, BoundAssumption DEF Thread
  <2> QED
    BY <1>1, <2>1 DEF Thread
<1>3. PICK n \in NativeRecord : /\ native' = [native EXCEPT ![c] = n] /\ n.status = "running"
                                /\ n.thread = call[c].thread /\ n.inputs = {Of(c)}
  <2> DEFINE n == [status |-> "running", thread |-> call[c].thread, inputs |-> {Of(c)}]
  <2>1. n \in NativeRecord /\ n.status = "running" /\ n.thread = call[c].thread /\ n.inputs = {Of(c)}
    BY <1>1, <1>2 DEF NativeRecord
  <2>2. native' = [native EXCEPT ![c] = n]
    BY DEF ServerStarts
  <2> HIDE DEF n
  <2> QED
    BY <2>1, <2>2
<1>4. /\ native' \in [Turn -> NativeRecord] /\ native'[c] = n
      /\ \A t \in Turn \ {c} : native'[t] = native[t]
    BY <1>1, <1>3, Typed
<1>5. Grows
  <2>1. \A t \in Turn : NativeGrows(t)
    BY <1>1, <1>3, <1>4 DEF NativeGrows
  <2> QED
    BY <1>0, <1>1, <2>1 DEF Grows, StateKept
<1>6. PICK r \in CallRecord : /\ Moved(c, r) /\ r.stage = "started"
                              /\ r.thread = call[c].thread /\ r.state = call[c].state
                              /\ r.note = call[c].note /\ r.outcome = call[c].outcome
    BY <1>0, GoesMoves DEF Stages
<1>7. /\ call' \in [Call -> CallRecord] /\ call'[c] = r
      /\ \A d \in Call \ {c} : call'[d] = call[d]
    BY <1>6, MovedOne
<1>8. Refers(c)'
    BY <1>0, <1>1, <1>6, <1>7 DEF Own, Refers, At, Holds, SteerStages, Launched
<1>9. UnderLock(c)'
    BY <1>0, <1>1, <1>6, <1>7 DEF UnderLock, At, HasLock, LockStages
<1>10. Born(c)'
    BY <1>0, <1>1, <1>3, <1>4, <1>6, <1>7 DEF Born, At, Holds, Known, PartOf
<1>11. \A o \in State : StateOK(o)'
    BY <1>0, <1>5, StateFrame DEF Holds
<1>12. ActiveOK' /\ (\A x \in store' : ReceiptOK(x)') /\ OneReceipt'
    BY <1>0, <1>1, <1>5, ReceiptFrame DEF ActiveOK, OneReceipt, CoreInv
<1>13. \A d \in Call \ {c} : /\ LockKept(d) /\ NotBorn(d)
                             /\ state'[d].turn # None => Holds(d)
    BY <1>0, <1>1, <1>4, LockFrame DEF NotBorn, Holds, Turn
<1>14. TypeOK'
    BY <1>0, <1>1, <1>4, <1>7, Typed, TypedNext
<1>15. thread' \in 1..newest'
    BY <1>0 DEF CoreInv
<1> QED
    BY <1>5, <1>7, <1>8, <1>9, <1>10, <1>11, <1>12, <1>13, <1>14, <1>15, CoreStep DEF Own
----------------------------------------------------------------------------
(* The core invariant: steering *)

LEMMA EndsSteering ==
    ASSUME TypeOK, CoreInv, Quiet, UNCHANGED loaded, UNCHANGED doubtful, UNCHANGED lockQueue,
           NEW c \in Call, NEW out \in Outcomes, NEW t \in Turn \cup {None}, EndsWith(c, out, t),
           steerQueue' \in [State -> Seq(Call)], watch' \subseteq Turn, UNCHANGED faults \/ Fault
    PROVE  TypeOK' /\ CoreInv'
<1>1. Moved(c, Ends(c, out, t)) /\ ToldDone(c)
    BY EndsRecord, Typed DEF EndsWith, Moved, ToldDone
<1>2. Own(c)'
    BY <1>1, QuietGrows, ToldOwn DEF Quiet, NotBorn, Holds
<1> QED
    BY <1>1, <1>2, MovesQuietly

LEMMA RestartsSteering ==
    ASSUME TypeOK, CoreInv, Quiet, UNCHANGED loaded, UNCHANGED doubtful, UNCHANGED lockQueue,
           NEW c \in Call, At(c, SteerStages), Restarts(c),
           steerQueue' \in [State -> Seq(Call)], watch' \subseteq Turn, UNCHANGED faults
    PROVE  TypeOK' /\ CoreInv'
<1>1. /\ Own(c) /\ call[c].outcome = "none" /\ call[c].note = None
      /\ native[c].status = "none" /\ native[c].inputs = {} /\ ~Holds(c)
    BY DEF Own, CoreInv, At, Refers, Born, Launched, SteerStages
<1>2. PICK r \in CallRecord : /\ Moved(c, r) /\ r.stage = "entering" /\ r.state = None
                              /\ r.note = call[c].note /\ r.outcome = call[c].outcome
    BY RestartsMoves
<1>3. call'[c] = r
    BY <1>2, MovedOne
<1>4. Own(c)'
    BY <1>1, <1>2, <1>3 DEF Own, Refers, UnderLock, Born, At, Quiet, Holds,
                            SteerStages, LockStages, Launched
<1> QED
    BY <1>2, <1>4, MovesQuietly

\* The state a message is steered into.
LEMMA SteeredFacts ==
    ASSUME TypeOK, CoreInv, NEW c \in Call, At(c, SteerStages)
    PROVE  /\ call[c].state \in State /\ Holds(call[c].state)
           /\ state[call[c].state].settled = "no" => active = call[c].state
           /\ state[call[c].state].message # Of(c)
           /\ native[c].status = "none" /\ native[c].inputs = {} /\ ~Holds(c)
           /\ call[c].outcome = "none" /\ call[c].note = None
    BY Typed DEF CoreInv, Refers, Born, At, SteerStages, Launched, CallRecord

\* A call at one stage of steering goes to the next.
LEMMA SteersOwn ==
    ASSUME TypeOK, CoreInv, Grows, NEW c \in Call, At(c, SteerStages),
           NEW s \in SteerStages, NEW r \in CallRecord, Moved(c, r), r.stage = s,
           r.state = call[c].state, r.note = call[c].note, r.outcome = call[c].outcome,
           NotBorn(c), state'[c].turn # None => Holds(c),
           s = "steerReading" => /\ Known(r.turn)
                                 /\ native[r.turn].thread = state[call[c].state].thread,
           s = "steerTaken" => Of(c) \in native'[state[call[c].state].turn].inputs
    PROVE  Own(c)'
<1>0. PICK o \in State : o = call[c].state /\ Holds(o)
    BY SteeredFacts
<1>1. call'[c] = r /\ o # None /\ (\A S : At(c, S)' <=> s \in S)
    BY <1>0, MovedOne, Zero DEF At
<1>2. /\ state'[o].turn = state[o].turn /\ state'[o].turn # None
      /\ state'[o].message = state[o].message /\ state'[o].thread = state[o].thread
      /\ state'[o].settled = "no" => active' = o
  <2>1. StateKept(o)
    BY <1>0 DEF Grows
  <2>2. state[o].settled = "no" => active = o
    BY <1>0, SteeredFacts
  <2> QED
    BY <1>0, <2>1, <2>2 DEF StateKept, Holds, Grows
<1>3. Refers(c)'
    BY <1>0, <1>1, <1>2, SteeredFacts DEF Refers, Holds, PartOf, SteerStages
<1>4. UnderLock(c)'
  <2>1. s = "steerReading" => Known(r.turn)' /\ native'[r.turn].thread = state'[o].thread
    BY <1>0, <1>2 DEF Known, Grows, NativeGrows
  <2> QED
    BY <1>0, <1>1, <2>1 DEF UnderLock, LockStages, SteerStages
<1>5. Born(c)'
    BY <1>1, SteeredFacts DEF Born, NotBorn, Holds, SteerStages
<1> QED
    BY <1>3, <1>4, <1>5 DEF Own

LEMMA SteerRestartsCore ==
    ASSUME TypeOK, CoreInv, NEW c \in Call, SteerRestarts(c), Steers(c) PROVE TypeOK' /\ CoreInv'
<1>1. /\ Quiet /\ UNCHANGED loaded /\ UNCHANGED doubtful /\ UNCHANGED lockQueue
      /\ watch' \subseteq Turn /\ UNCHANGED faults
      /\ At(c, SteerStages) /\ Restarts(c) /\ LeaveSteering(c)
    BY Typed DEF SteerRestarts, Quiet, durable, server, SteerStages, At
<1>2. steerQueue' \in [State -> Seq(Call)]
    BY <1>1, SteeredFacts, LeaveType
<1> QED
    BY <1>1, <1>2, RestartsSteering

LEMMA FirstFacts ==
    ASSUME NEW events
    PROVE  First(events) \subseteq events
    BY DEF First

\* A state that only changes the message being steered into it.
LEMMA PendingStill ==
    ASSUME TypeOK, NEW o \in State, NEW m \in Message \cup {None},
           state' \in {state, [state EXCEPT ![o].pendingSteer = m]}
    PROVE  /\ state' \in [State -> StateRecord]
           /\ \A p \in State : /\ state'[p].turn = state[p].turn /\ state'[p].thread = state[p].thread
                               /\ state'[p].message = state[p].message
                               /\ state'[p].settled = state[p].settled
<1>1. state \in [State -> StateRecord]
    BY Typed
<1>2. CASE state' = [state EXCEPT ![o].pendingSteer = m]
  <2>1. PICK q : q = [state[o] EXCEPT !.pendingSteer = m]
    OBVIOUS
  <2>2. /\ q \in StateRecord /\ q.turn = state[o].turn /\ q.thread = state[o].thread
        /\ q.message = state[o].message /\ q.settled = state[o].settled
    BY <1>1, <2>1 DEF StateRecord
  <2>3. state' = [state EXCEPT ![o] = q]
    BY <1>1, <1>2, <2>1 DEF StateRecord
  <2> QED
    BY <1>1, <2>2, <2>3
<1> QED
    BY <1>1, <1>2

\* A message is steered on or its steering ends, and a receipt may be saved.
LEMMA SteersStep ==
    ASSUME TypeOK, CoreInv, NEW c \in Call, Own(c)', call' \in [Call -> CallRecord],
           \A d \in Call \ {c} : call'[d] = call[d],
           Still, state' \in [State -> StateRecord],
           store' \subseteq EventRecord, \A x \in store' : ReceiptOK(x)', OneReceipt',
           UNCHANGED <<lockQueue, thread, watch, doubtful>>,
           steerQueue' \in [State -> Seq(Call)], UNCHANGED faults \/ Fault
    PROVE  TypeOK' /\ CoreInv'
<1>1. /\ Grows /\ ActiveOK' /\ \A o \in State : StateOK(o)'
      /\ \A d \in Call : NotBorn(d) /\ (state'[d].turn # None => Holds(d))
    BY StillFacts
<1>2. \A d \in Call \ {c} : LockKept(d)
    BY LockFrame DEF Still
<1>3. faults' \in 0..MaxFaults
    BY FaultType, Typed
<1>4. TypeOK'
    BY <1>3, Typed, TypedNext DEF Still
<1>5. thread' \in 1..newest'
    BY DEF Still, CoreInv
<1> QED
    BY <1>1, <1>2, <1>4, <1>5, CoreStep

LEMMA SteerReconcileCore ==
    ASSUME TypeOK, CoreInv, NEW c \in Call, SteerReconcile(c), Steers(c) PROVE TypeOK' /\ CoreInv'
<1>0. PICK o \in State : o = call[c].state /\ Holds(o) /\ At(c, SteerStages) /\ At(c, {"steerReading"})
    BY SteeredFacts DEF SteerReconcile, At, SteerStages
<1>1. /\ UNCHANGED <<native, newest, active, loaded, lockQueue, thread, watch, doubtful>>
      /\ UNCHANGED faults /\ Reconciled(c, state[o].thread) /\ LeaveSteering(c)
      /\ state' \in {state, [state EXCEPT ![o].pendingSteer = None]}
    BY <1>0 DEF SteerReconcile, server
<1>2. Still /\ state' \in [State -> StateRecord]
    BY <1>1, PendingStill DEF Still
<1>3. /\ Grows /\ ActiveOK' /\ \A p \in State : StateOK(p)'
      /\ \A d \in Call : NotBorn(d) /\ (state'[d].turn # None => Holds(d))
    BY <1>2, StillFacts
<1>4. PICK t \in Turn : /\ t = call[c].turn /\ Known(t) /\ native[t].thread = state[o].thread
                        /\ state[o].thread \in Thread
    BY <1>0, HeldFacts DEF CoreInv, UnderLock, Known, At
<1>5. PICK out \in Outcomes : EndsWith(c, out, t)
    BY <1>1, <1>4 DEF Reconciled, Outcomes
<1>6. /\ call' \in [Call -> CallRecord] /\ Own(c)'
      /\ \A d \in Call \ {c} : call'[d] = call[d]
    BY <1>3, <1>5, EndsOwn
<1>7. store' \subseteq EventRecord /\ (\A x \in store' : ReceiptOK(x)') /\ OneReceipt'
  <2>1. CASE UNCHANGED store
    BY <1>3, <2>1, ReceiptFrame, Typed DEF OneReceipt, CoreInv
  <2>2. CASE Delivered(c) /\ store' = Save(store, Event(state[o].thread, Of(c), "confirmed", t, "steer"))
    <3>1. PICK e \in EventRecord : /\ e = Event(state[o].thread, Of(c), "confirmed", t, "steer")
                                   /\ e.turn = t /\ e.thread = state[o].thread
                                   /\ e.message = Of(c) /\ e.key = "confirmed"
      <4>1. "confirmed" \in Keys /\ "steer" \in Settlements \cup {"steer"}
        BY DEF Keys
      <4> QED
        BY <1>4, <4>1, MessageType, EventFacts
    <3>2. ReceiptOK(e)'
      BY <1>2, <1>4, <2>2, <3>1 DEF ReceiptOK, Known, PartOf, Delivered, Still
    <3> QED
      BY <1>3, <2>2, <3>1, <3>2, SaveStep
  <2> QED
    BY <1>1, <1>4, <2>1, <2>2 DEF Reconciled
<1>8. steerQueue' \in [State -> Seq(Call)]
    BY <1>0, <1>1, LeaveType
<1> QED
    BY <1>1, <1>2, <1>6, <1>7, <1>8, SteersStep

LEMMA ServerSteersCore ==
    ASSUME TypeOK, CoreInv, NEW c \in Call, ServerSteers(c) PROVE TypeOK' /\ CoreInv'
<1>0. PICK o \in State : o = call[c].state /\ Holds(o) /\ At(c, SteerStages) /\ At(c, {"steerSent"})
    BY SteeredFacts DEF ServerSteers, At, SteerStages
<1>1. PICK t \in Turn : t = state[o].turn
    BY <1>0, HeldFacts
<1>2. /\ UNCHANGED <<lockQueue, active, state, steerQueue, loaded, thread, newest, store>>
      /\ UNCHANGED <<watch, faults, doubtful>>
      /\ \/ /\ native[t].status = "running" /\ Goes(c, "steerTaken")
            /\ native' = [native EXCEPT ![t].inputs = @ \cup {Of(c)}]
         \/ native[t].status # "running" /\ Goes(c, "steerRefused") /\ UNCHANGED native
    BY <1>0, <1>1 DEF ServerSteers, durable
<1>3. PICK s \in {"steerTaken", "steerRefused"} : Goes(c, s) /\ s \in Stages
    BY <1>2 DEF Stages
<1>4. /\ native' \in [Turn -> NativeRecord]
      /\ \A u \in Turn : /\ native'[u].status = native[u].status
                         /\ native'[u].thread = native[u].thread
                         /\ native[u].inputs \subseteq native'[u].inputs
                         /\ native[u].status # "running" => native'[u].inputs = native[u].inputs
      /\ native[t].status = "running" => Of(c) \in native'[t].inputs
  <2>1. native \in [Turn -> NativeRecord] /\ Of(c) \in Message
    BY Typed, MessageType
  <2>2. CASE native[t].status = "running"
    <3>1. PICK n : n = [native[t] EXCEPT !.inputs = @ \cup {Of(c)}]
      OBVIOUS
    <3>2. /\ n \in NativeRecord /\ n.status = native[t].status /\ n.thread = native[t].thread
          /\ n.inputs = native[t].inputs \cup {Of(c)}
      BY <2>1, <3>1 DEF NativeRecord
    <3>3. native' = [native EXCEPT ![t] = n]
      BY <1>2, <2>1, <2>2, <3>1 DEF NativeRecord
    <3> QED
      BY <2>1, <2>2, <3>2, <3>3
  <2> QED
    BY <1>2, <2>1, <2>2
<1>5. Grows
    BY <1>2, <1>4, Typed DEF Grows, NativeGrows, StateKept, Thread
<1>6. PICK r \in CallRecord : /\ Moved(c, r) /\ r.stage = s
                              /\ r.thread = call[c].thread /\ r.state = call[c].state
                              /\ r.note = call[c].note /\ r.outcome = call[c].outcome
    BY <1>3, GoesMoves
<1>7. \A d \in Call : NotBorn(d) /\ (state'[d].turn # None => Holds(d))
    BY <1>2, <1>4 DEF NotBorn, Holds, Turn
<1>8. Own(c)'
  <2>1. s = "steerTaken" => native[t].status = "running"
    <3>1. call'[c].stage = s
      BY <1>6, MovedOne
    <3>2. native[t].status # "running" => Goes(c, "steerRefused")
      BY <1>2
    <3>3. Goes(c, "steerRefused") => call'[c].stage = "steerRefused"
      BY GoesMoves, MovedOne DEF Stages
    <3> QED
      BY <3>1, <3>2, <3>3
  <2>2. s \in SteerStages /\ s # "steerReading"
    BY DEF SteerStages
  <2> QED
    BY <1>0, <1>1, <1>4, <1>5, <1>6, <1>7, <2>1, <2>2, SteersOwn
<1>9. \A p \in State : StateOK(p)'
    BY <1>2, <1>5, StateFrame DEF Holds
<1>10. ActiveOK' /\ (\A x \in store' : ReceiptOK(x)') /\ OneReceipt'
    BY <1>2, <1>5, ReceiptFrame DEF ActiveOK, OneReceipt, CoreInv, Holds
<1>11. /\ call' \in [Call -> CallRecord]
       /\ \A d \in Call \ {c} : call'[d] = call[d]
    BY <1>6, MovedOne
<1>12. \A d \in Call \ {c} : LockKept(d)
    BY <1>2, LockFrame
<1>13. TypeOK' /\ thread' \in 1..newest'
    BY <1>2, <1>4, <1>11, Typed, TypedNext DEF CoreInv
<1> QED
    BY <1>5, <1>7, <1>8, <1>9, <1>10, <1>11, <1>12, <1>13, CoreStep

LEMMA SteerConfirmsCore ==
    ASSUME TypeOK, CoreInv, NEW c \in Call, SteerConfirms(c), Steers(c) PROVE TypeOK' /\ CoreInv'
<1>0. PICK o \in State : /\ o = call[c].state /\ Holds(o) /\ At(c, SteerStages)
                         /\ At(c, {"steerTaken"}) /\ PartOf(Of(c), state[o].turn)
                         /\ call[c].outcome = "none"
    BY SteeredFacts DEF SteerConfirms, At, SteerStages, CoreInv, Refers
<1>1. PICK t \in Turn : t = state[o].turn /\ Known(t) /\ native[t].thread = state[o].thread
                        /\ state[o].thread \in Thread
    BY <1>0, HeldFacts
<1>2. /\ UNCHANGED <<native, newest, active, loaded, lockQueue, thread, watch, doubtful>>
      /\ LeaveSteering(c)
      /\ \/ /\ store' = Save(store, Event(state[o].thread, Of(c), "confirmed", t, "steer"))
            /\ state' = [state EXCEPT ![o].pendingSteer = None] /\ UNCHANGED faults
            /\ EndsWith(c, "accepted", t) \/ call' = [call EXCEPT ![c] = TakesOver(c, o)]
         \/ Fault /\ EndsWith(c, "unconfirmed", t) /\ UNCHANGED <<store, state>>
    BY <1>0, <1>1 DEF SteerConfirms, server
<1>3. /\ state' \in {state, [state EXCEPT ![o].pendingSteer = None]}
      /\ UNCHANGED faults \/ Fault
    BY <1>2
<1>4. Still /\ state' \in [State -> StateRecord]
    BY <1>2, <1>3, PendingStill DEF Still
<1>5. /\ Grows /\ ActiveOK' /\ \A p \in State : StateOK(p)'
      /\ \A d \in Call : NotBorn(d) /\ (state'[d].turn # None => Holds(d))
    BY <1>4, StillFacts
<1>6. /\ call' \in [Call -> CallRecord] /\ Own(c)'
      /\ \A d \in Call \ {c} : call'[d] = call[d]
  <2>1. ASSUME NEW out \in Outcomes, EndsWith(c, out, t)
        PROVE  /\ call' \in [Call -> CallRecord] /\ Own(c)'
               /\ \A d \in Call \ {c} : call'[d] = call[d]
    BY <1>5, <2>1, EndsOwn
  <2>2. CASE call' = [call EXCEPT ![c] = TakesOver(c, o)]
    <3>1. PICK r \in CallRecord : /\ r = TakesOver(c, o) /\ r.stage \in {"waiting", "noting"}
                                  /\ r.state = o /\ r.outcome = "none"
                                  /\ r.note \in {call[c].note, o}
      BY <1>0, WaitsRecord
    <3>2. Moved(c, r)
      BY <2>2, <3>1 DEF Moved
    <3>3. /\ call' \in [Call -> CallRecord] /\ call'[c] = r
          /\ \A d \in Call \ {c} : call'[d] = call[d]
      BY <3>2, MovedOne
    <3>4. /\ state'[o].turn # None /\ Of(c) \in native'[state'[o].turn].inputs
          /\ state'[o].settled = "no" => active' = o
      BY <1>0, <1>4, SteeredFacts DEF Still, Holds, PartOf
    <3> QED
      BY <1>5, <3>1, <3>3, <3>4, WaitsOwn
  <2>3. EndsWith(c, "accepted", t) \/ EndsWith(c, "unconfirmed", t)
           \/ call' = [call EXCEPT ![c] = TakesOver(c, o)]
    BY <1>2
  <2> QED
    BY <2>1, <2>2, <2>3 DEF Outcomes
<1>7. store' \subseteq EventRecord /\ (\A x \in store' : ReceiptOK(x)') /\ OneReceipt'
  <2>1. CASE UNCHANGED store
    BY <1>5, <2>1, ReceiptFrame, Typed DEF OneReceipt, CoreInv
  <2>2. CASE store' = Save(store, Event(state[o].thread, Of(c), "confirmed", t, "steer"))
    <3>1. PICK e \in EventRecord : /\ e = Event(state[o].thread, Of(c), "confirmed", t, "steer")
                                   /\ e.turn = t /\ e.thread = state[o].thread
                                   /\ e.message = Of(c) /\ e.key = "confirmed"
      <4>1. "confirmed" \in Keys /\ "steer" \in Settlements \cup {"steer"}
        BY DEF Keys
      <4> QED
        BY <1>1, <4>1, MessageType, EventFacts
    <3>2. ReceiptOK(e)'
      BY <1>0, <1>1, <1>4, <3>1 DEF ReceiptOK, Known, PartOf, Still
    <3> QED
      BY <1>5, <2>2, <3>1, <3>2, SaveStep
  <2> QED
    BY <1>2, <2>1, <2>2
<1>8. steerQueue' \in [State -> Seq(Call)]
    BY <1>0, <1>2, LeaveType
<1> QED
    BY <1>2, <1>3, <1>4, <1>6, <1>7, <1>8, SteersStep

\* A state is settled, if it was not: o is told g.
SettledBy(o, g) ==
    /\ state' \in [State -> StateRecord]
    /\ \A p \in State : /\ state'[p].turn = state[p].turn /\ state'[p].thread = state[p].thread
                        /\ state'[p].message = state[p].message
                        /\ p # o => state'[p].settled = state[p].settled
    /\ state'[o].settled = IF state[o].settled = "no" THEN g ELSE state[o].settled

LEMMA SettledFacts ==
    ASSUME TypeOK, CoreInv, TurnsStay, UNCHANGED <<store, active, newest>>,
           NEW o \in State, NEW g \in Settlements, SettledBy(o, g),
           g = "answered" => native'[state[o].turn].status = "completed",
           loaded' \in {loaded, {}}, g = "lost" => loaded' = {}
    PROVE  /\ Grows /\ ActiveOK' /\ (\A p \in State : StateOK(p)')
           /\ (\A d \in Call : NotBorn(d) /\ (state'[d].turn # None => Holds(d)))
           /\ (\A x \in store' : ReceiptOK(x)') /\ OneReceipt'
<1>1. Grows
  <2>1. \A t \in Turn : NativeGrows(t)
    BY DEF TurnsStay, NativeGrows, Ended
  <2>2. \A p \in State : StateKept(p)
    BY DEF SettledBy, StateKept
  <2> QED
    BY <2>1, <2>2, Typed DEF Grows, Thread
<1>2. \A p \in State : StateOK(p)'
    BY <1>1, StateFrame DEF Holds, SettledBy
<1>3. \A d \in Call : NotBorn(d) /\ (state'[d].turn # None => Holds(d))
    BY DEF NotBorn, TurnsStay, Holds, Turn, SettledBy, State
<1>4. (\A x \in store' : ReceiptOK(x)') /\ OneReceipt'
    BY <1>1, ReceiptFrame DEF OneReceipt, CoreInv
<1>5. ActiveOK'
  <2>1. active \in State \cup {None} /\ ActiveOK
    BY Typed DEF CoreInv
  <2> QED
    BY <2>1 DEF ActiveOK, Holds, SettledBy
<1> QED
    BY <1>1, <1>2, <1>3, <1>4, <1>5

\* What a snapshot of a known turn says.
LEMMA SeenFacts ==
    ASSUME TypeOK, NEW t \in Turn, Known(t)
    PROVE  /\ Settlement(native[t].status) \in Settlements \ {"lost"}
           /\ Settlement(native[t].status) = "no" <=> native[t].status = "running"
           /\ Settlement(native[t].status) = "answered" => native[t].status = "completed"
<1>1. native[t].status \in {"running", "completed", "failed"}
    BY Typed DEF Known, NativeRecord, Ended
<1> QED
    BY <1>1 DEF Settlement, Settlements

LEMMA SteerRejectedCore ==
    ASSUME TypeOK, CoreInv, NEW c \in Call, SteerRejected(c), Steers(c) PROVE TypeOK' /\ CoreInv'
<1>0. PICK o \in State : o = call[c].state /\ Holds(o) /\ At(c, SteerStages)
    BY SteeredFacts DEF SteerRejected, At, SteerStages
<1>1. PICK t \in Turn : t = state[o].turn /\ Known(t) /\ native[t].thread = state[o].thread
                        /\ state[o].thread \in Thread
    BY <1>0, HeldFacts
<1>2. PICK g \in Settlements \ {"lost"} : /\ g = Settlement(native[t].status)
                                          /\ g = "answered" => native[t].status = "completed"
    BY <1>1, SeenFacts
<1>3. /\ UNCHANGED <<native, newest, active, loaded, lockQueue, thread, watch, faults, doubtful>>
      /\ store' = Save(store, Event(state[o].thread, Of(c), "rejected", t, "steer"))
      /\ state' = [state EXCEPT ![o].pendingSteer = None,
                                ![o].settled = IF @ = "no" THEN g ELSE @]
      /\ \/ EndsWith(c, "unconfirmed", t) /\ LeaveSteering(c)
         \/ Goes(c, "steerEnding") /\ UNCHANGED steerQueue
    BY <1>0, <1>1, <1>2 DEF SteerRejected, server
<1>4. SettledBy(o, g)
  <2>1. PICK h \in Settlements : h = IF state[o].settled = "no" THEN g ELSE state[o].settled
    BY Typed DEF StateRecord
  <2>2. PICK q : q = [state[o] EXCEPT !.pendingSteer = None, !.settled = h]
    OBVIOUS
  <2>3. /\ q \in StateRecord /\ q.turn = state[o].turn /\ q.thread = state[o].thread
        /\ q.message = state[o].message /\ q.settled = h
    BY <2>1, <2>2, Typed DEF StateRecord
  <2>4. state' = [state EXCEPT ![o] = q]
    BY <1>3, <2>1, <2>2, Typed DEF StateRecord
  <2> QED
    BY <2>1, <2>3, <2>4, Typed DEF SettledBy
<1>5. TurnsStay
    BY <1>3, Typed DEF TurnsStay
<1>6. /\ Grows /\ ActiveOK' /\ (\A p \in State : StateOK(p)')
      /\ (\A d \in Call : NotBorn(d) /\ (state'[d].turn # None => Holds(d)))
  <2>1. Grows
    BY <1>3, <1>4, Typed DEF Grows, NativeGrows, StateKept, SettledBy, Thread
  <2>2. \A p \in State : StateOK(p)'
    BY <1>1, <1>2, <1>3, <1>4, <2>1, StateFrame DEF Holds, SettledBy
  <2>3. \A d \in Call : NotBorn(d) /\ (state'[d].turn # None => Holds(d))
    BY <1>3, <1>4 DEF NotBorn, Holds, SettledBy, State
  <2>4. active \in State \cup {None} /\ ActiveOK
    BY Typed DEF CoreInv
  <2>5. ActiveOK'
    BY <1>2, <1>3, <1>4, <2>4 DEF ActiveOK, Holds, SettledBy
  <2> QED
    BY <2>1, <2>2, <2>3, <2>5
<1>7. /\ call' \in [Call -> CallRecord] /\ Own(c)' /\ steerQueue' \in [State -> Seq(Call)]
      /\ \A d \in Call \ {c} : call'[d] = call[d]
  <2>1. CASE EndsWith(c, "unconfirmed", t) /\ LeaveSteering(c)
    BY <1>0, <1>6, <2>1, EndsOwn, LeaveType DEF Outcomes
  <2>2. CASE Goes(c, "steerEnding") /\ UNCHANGED steerQueue
    <3>1. PICK r \in CallRecord : /\ Moved(c, r) /\ r.stage = "steerEnding"
                                  /\ r.thread = call[c].thread /\ r.state = call[c].state
                                  /\ r.note = call[c].note /\ r.outcome = call[c].outcome
      BY <2>2, GoesMoves DEF Stages
    <3>2. "steerEnding" \in SteerStages
      BY DEF SteerStages
    <3>3. Own(c)'
      BY <1>0, <1>6, <3>1, <3>2, SteersOwn
    <3> QED
      BY <2>2, <3>1, <3>3, MovedOne, Typed
  <2> QED
    BY <1>3, <2>1, <2>2
<1>8. store' \subseteq EventRecord /\ (\A x \in store' : ReceiptOK(x)') /\ OneReceipt'
  <2>1. PICK e \in EventRecord : /\ e = Event(state[o].thread, Of(c), "rejected", t, "steer")
                                 /\ e.turn = t /\ e.thread = state[o].thread
                                 /\ e.message = Of(c) /\ e.key = "rejected"
    <3>1. "rejected" \in Keys /\ "steer" \in Settlements \cup {"steer"}
      BY DEF Keys
    <3> QED
      BY <1>1, <3>1, MessageType, EventFacts
  <2>2. ReceiptOK(e)'
    BY <1>1, <1>3, <2>1 DEF ReceiptOK, Known, PartOf
  <2> QED
    BY <1>3, <1>6, <2>1, <2>2, SaveStep
<1>9. \A d \in Call \ {c} : LockKept(d)
    BY <1>3, LockFrame
<1>10. TypeOK' /\ thread' \in 1..newest'
    BY <1>3, <1>4, <1>7, <1>8, Typed, TypedNext DEF SettledBy, CoreInv
<1> QED
    BY <1>6, <1>7, <1>8, <1>9, <1>10, CoreStep

\* What a call is told of an earlier delivery that it finds.
LEMMA DuplicateFacts ==
    ASSUME TypeOK, CoreInv, NEW c \in Call, NEW th \in Thread
    PROVE  \A x \in First(Duplicate(th, Of(c))) :
              /\ x \in store /\ Known(x.turn) /\ PartOf(Of(c), x.turn)
              /\ Told(x) \in {"answered", "failed", "accepted"}
              /\ Told(x) = "answered" => native[x.turn].status = "completed"
<1>1. \A x \in Duplicate(th, Of(c)) :
        /\ x \in store /\ Known(x.turn) /\ PartOf(Of(c), x.turn)
        /\ x.key = "confirmed" \/ x.how \in {"failed", "lost"}
              \/ (x.how = "answered" /\ native[x.turn].status = "completed")
  <2>1. \A x \in Found(th, Of(c), "confirmed") : x.key = "confirmed"
    BY DEF Found
  <2> QED
    BY <2>1, FoundFacts DEF Duplicate
<1>2. \A x \in Duplicate(th, Of(c)) :
        /\ Told(x) \in {"answered", "failed", "accepted"}
        /\ Told(x) = "answered" => native[x.turn].status = "completed"
    BY <1>1 DEF Told
<1> QED
    BY <1>1, <1>2, FirstFacts

LEMMA SteerBeginsCore ==
    ASSUME TypeOK, CoreInv, NEW c \in Call, SteerBegins(c) PROVE TypeOK' /\ CoreInv'
<1>0. PICK o \in State : /\ o = call[c].state /\ Holds(o) /\ At(c, SteerStages)
                         /\ Steers(c) /\ call[c].outcome = "none"
    BY SteeredFacts DEF SteerBegins, At, SteerStages
<1>1. PICK th \in Thread : th = state[o].thread
    BY <1>0, HeldFacts
<1>2. PICK m \in Message : m = Of(c)
    BY MessageType
<1>3. PICK t \in Turn : t = state[o].turn /\ Known(t) /\ native[t].thread = th
    BY <1>0, <1>1, HeldFacts
<1>4. /\ UNCHANGED <<native, newest, active, loaded, thread, watch, doubtful>>
      /\ UNCHANGED lockQueue /\ UNCHANGED faults /\ watch' \subseteq Turn
    BY Typed DEF SteerBegins, server
<1>5. LeaveSteering(c) \/ UNCHANGED steerQueue => steerQueue' \in [State -> Seq(Call)]
    BY <1>0, LeaveType, Typed
<1>6. CASE Restarts(c) /\ LeaveSteering(c) /\ UNCHANGED <<state, store>>
    BY <1>0, <1>4, <1>5, <1>6, RestartsSteering DEF Quiet
<1>7. ASSUME NEW out \in Outcomes, NEW u \in Turn \cup {None}, EndsWith(c, out, u),
             LeaveSteering(c), UNCHANGED <<state, store>>
      PROVE  TypeOK' /\ CoreInv'
    BY <1>4, <1>5, <1>7, EndsSteering DEF Quiet
<1>8. CASE \E x \in First(Duplicate(th, m)) :
              EndsWith(c, Told(x), x.turn) /\ LeaveSteering(c) /\ UNCHANGED <<state, store>>
    BY <1>2, <1>7, <1>8, DuplicateFacts DEF Known, Outcomes
<1>9. CASE \E x \in OpenAttempt(th, m) : Reads(c, "steerReading", x.turn)
           /\ UNCHANGED <<steerQueue, state, store>>
  <2>1. PICK x \in OpenAttempt(th, m) :
            Reads(c, "steerReading", x.turn) /\ Known(x.turn) /\ native[x.turn].thread = th
    BY <1>2, <1>9, FoundFacts DEF OpenAttempt
  <2>2. PICK r \in CallRecord : /\ Moved(c, r) /\ r.stage = "steerReading" /\ r.turn = x.turn
                                /\ r.state = call[c].state
                                /\ r.note = call[c].note /\ r.outcome = call[c].outcome
    BY <2>1, ReadsMoves DEF Known, Stages
  <2>3. Quiet /\ steerQueue' \in [State -> Seq(Call)]
    BY <1>4, <1>5, <1>9 DEF Quiet
  <2>4. Own(c)'
    <3>1. "steerReading" \in SteerStages /\ Grows /\ NotBorn(c) /\ (state'[c].turn # None => Holds(c))
      BY <2>3, QuietGrows DEF SteerStages, NotBorn, Quiet, Holds
    <3> QED
      BY <1>0, <1>1, <2>1, <2>2, <3>1, SteersOwn
  <2> QED
    BY <1>4, <2>2, <2>3, <2>4, MovesQuietly
<1>10. CASE /\ store' = Save(store \ Found(th, m, "rejected"), Event(th, m, "attempt", t, "steer"))
            /\ state' = [state EXCEPT ![o].pendingSteer = m]
            /\ Goes(c, "steerReady") /\ UNCHANGED steerQueue
  <2>1. Still /\ state' \in [State -> StateRecord]
    BY <1>4, <1>10, PendingStill DEF Still
  <2>2. /\ Grows /\ ActiveOK' /\ \A p \in State : StateOK(p)'
        /\ \A d \in Call : NotBorn(d) /\ (state'[d].turn # None => Holds(d))
    BY <2>1, StillFacts
  <2>3. PICK r \in CallRecord : /\ Moved(c, r) /\ r.stage = "steerReady" /\ r.state = call[c].state
                                /\ r.note = call[c].note /\ r.outcome = call[c].outcome
    BY <1>10, GoesMoves DEF Stages
  <2>4. Own(c)'
    <3>1. "steerReady" \in SteerStages
      BY DEF SteerStages
    <3> QED
      BY <1>0, <2>2, <2>3, <3>1, SteersOwn
  <2>5. store' \subseteq EventRecord /\ (\A x \in store' : ReceiptOK(x)') /\ OneReceipt'
    <3>1. PICK e \in EventRecord : /\ e = Event(th, m, "attempt", t, "steer") /\ e.turn = t
                                   /\ e.thread = th /\ e.message = m /\ e.key = "attempt"
      <4>1. "attempt" \in Keys /\ "steer" \in Settlements \cup {"steer"}
        BY DEF Keys
      <4> QED
        BY <4>1, EventFacts
    <3>2. ReceiptOK(e)'
      BY <1>3, <1>4, <3>1 DEF ReceiptOK, Known
    <3> QED
      BY <1>10, <2>2, <3>1, <3>2, SaveStep
  <2> QED
    BY <1>4, <1>5, <1>10, <2>1, <2>3, <2>4, <2>5, MovedOne, SteersStep
<1> QED
    BY <1>0, <1>1, <1>2, <1>3, <1>6, <1>7, <1>8, <1>9, <1>10 DEF SteerBegins, Outcomes, Reads
----------------------------------------------------------------------------
(* The core invariant: turns end, the connection is lost, the process dies *)

LEMMA CoreAll ==
    ASSUME TypeOK, CoreInv, Grows,
           \A d \in Call : /\ NotBorn(d) /\ (state'[d].turn # None => Holds(d))
                           /\ \/ call'[d] = call[d] /\ LockKept(d)
                              \/ ToldDone(d)
                              \/ Own(d)',
           \A o \in State : StateOK(o)',
           ActiveOK', \A x \in store' : ReceiptOK(x)', OneReceipt', thread' \in 1..newest'
    PROVE  CoreInv'
<1>1. \A d \in Call : Refers(d)' /\ UnderLock(d)' /\ Born(d)'
    BY RefersFrame, UnderLockFrame, BornFrame, ToldOwn DEF Own
<1> QED
    BY <1>1 DEF CoreInv

LEMMA LockStill ==
    ASSUME CoreInv, UNCHANGED <<lockQueue, active>>
    PROVE  \A d \in Call : LockKept(d)
    BY DEF CoreInv, UnderLock, LockKept, HasLock

LEMMA SettlesBy ==
    ASSUME TypeOK, NEW o \in State, NEW g \in Settlements, state[o].settled = "no", Settle(o, g)
    PROVE  SettledBy(o, g)
<1>1. PICK q : q = [state[o] EXCEPT !.settled = g]
    OBVIOUS
<1>2. /\ q \in StateRecord /\ q.turn = state[o].turn /\ q.thread = state[o].thread
      /\ q.message = state[o].message /\ q.settled = g
    BY <1>1, Typed DEF StateRecord
<1>3. state' = [state EXCEPT ![o] = q]
    BY <1>1, Typed DEF StateRecord, Settle
<1> QED
    BY <1>2, <1>3, Typed DEF SettledBy

\* Turns end, and the active one may be settled.
TurnsChange ==
    /\ TurnsStay /\ watch' \subseteq Turn
    /\ UNCHANGED <<call, lockQueue, active, steerQueue, loaded, thread, newest, store,
                   faults, doubtful>>
    /\ \/ UNCHANGED state
       \/ \E o \in State, g \in Settlements \ {"lost"} :
             /\ state[o].settled = "no" /\ Settle(o, g)
             /\ g = "answered" => native'[state[o].turn].status = "completed"

LEMMA TurnCore ==
    ASSUME TypeOK, CoreInv, TurnsChange PROVE TypeOK' /\ CoreInv'
<1>0. /\ TurnsStay /\ watch' \subseteq Turn
      /\ UNCHANGED <<call, lockQueue, active, steerQueue, loaded, thread, newest, store,
                     faults, doubtful>>
    BY DEF TurnsChange
<1>1. newest \in Nat /\ active \in State \cup {None}
    BY Typed DEF Thread
<1>2. /\ Grows /\ ActiveOK' /\ (\A p \in State : StateOK(p)')
      /\ (\A d \in Call : NotBorn(d) /\ (state'[d].turn # None => Holds(d)))
      /\ (\A x \in store' : ReceiptOK(x)') /\ OneReceipt' /\ state' \in [State -> StateRecord]
  <2>1. CASE UNCHANGED state
    <3>1. ActiveOK'
      BY <1>0, <1>1, <2>1 DEF CoreInv, ActiveOK, Holds
    <3>2. newest' \in Nat /\ newest <= newest'
      BY <1>0, <1>1
    <3> QED
      BY <1>0, <2>1, <3>1, <3>2, TurnsStayFacts, Typed
  <2>2. CASE \E o \in State, g \in Settlements \ {"lost"} :
                /\ state[o].settled = "no" /\ Settle(o, g)
                /\ g = "answered" => native'[state[o].turn].status = "completed"
    <3>1. PICK o \in State, g \in Settlements \ {"lost"} :
                /\ SettledBy(o, g)
                /\ g = "answered" => native'[state[o].turn].status = "completed"
      BY <2>2, SettlesBy
    <3>2. state' \in [State -> StateRecord]
      BY <3>1 DEF SettledBy
    <3> QED
      BY <1>0, <3>1, <3>2, SettledFacts
  <2> QED
    BY <2>1, <2>2 DEF TurnsChange
<1>3. \A d \in Call : LockKept(d)
    BY <1>0, LockStill
<1>4. thread' \in 1..newest'
    BY <1>0 DEF CoreInv
<1>5. TypeOK'
    BY <1>0, <1>2, Typed, TypedNext DEF TurnsStay
<1> QED
    BY <1>0, <1>2, <1>3, <1>4, <1>5, CoreAll

\* A turn of which only the status changes.
LEMMA EndedTurn ==
    ASSUME TypeOK, NEW t \in Turn, native[t].status = "running", NEW s \in Ended,
           native' = [native EXCEPT ![t].status = s]
    PROVE  TurnsStay /\ native'[t].status = s /\ \A u \in Turn \ {t} : native'[u] = native[u]
<1>1. PICK n : n = [native[t] EXCEPT !.status = s]
    OBVIOUS
<1>2. /\ n \in NativeRecord /\ n.status = s /\ n.thread = native[t].thread
      /\ n.inputs = native[t].inputs
    BY <1>1, Typed DEF NativeRecord
<1>3. native' = [native EXCEPT ![t] = n]
    BY <1>1, Typed DEF NativeRecord
<1> QED
    BY <1>2, <1>3, Typed DEF TurnsStay

LEMMA NativeEndsChanges ==
    ASSUME TypeOK, CoreInv, NEW t \in Turn, NativeEnds(t) PROVE TurnsChange
<1>1. TurnsStay
    BY EndedTurn DEF NativeEnds
<1>2. /\ UNCHANGED <<call, lockQueue, active, steerQueue, loaded, thread, newest, store,
                     faults, doubtful>>
      /\ watch' \subseteq Turn /\ UNCHANGED state
    BY Typed DEF NativeEnds, local, durable
<1> QED
    BY <1>1, <1>2 DEF TurnsChange

LEMMA NotifyChanges ==
    ASSUME TypeOK, CoreInv, NEW t \in Turn, Notify(t) PROVE TurnsChange
<1>1. /\ UNCHANGED <<call, lockQueue, active, steerQueue, loaded, thread, newest, store,
                     faults, doubtful>>
      /\ watch' \subseteq Turn /\ native' = native
    BY Typed DEF Notify, durable
<1>2. TurnsStay
    BY <1>1, Typed DEF TurnsStay
<1>3. \/ UNCHANGED state
      \/ \E o \in State, g \in Settlements \ {"lost"} :
            /\ state[o].settled = "no" /\ Settle(o, g)
            /\ g = "answered" => native'[state[o].turn].status = "completed"
  <2>1. CASE Unsettled(active) /\ state[active].turn = t
    <3>1. active \in State /\ state[active].settled = "no"
      BY <2>1, Typed DEF Unsettled
    <3>2. PICK g \in Settlements \ {"lost"} : /\ g = Settlement(native[t].status)
                                              /\ g = "answered" => native[t].status = "completed"
      BY DEF Notify, Ended, Settlement, Settlements
    <3>3. Settle(active, g)
      BY <2>1, <3>2 DEF Notify
    <3> QED
      BY <1>1, <2>1, <3>1, <3>2, <3>3
  <2> QED
    BY <2>1 DEF Notify
<1> QED
    BY <1>1, <1>2, <1>3 DEF TurnsChange

LEMMA NotifyErrorChanges ==
    ASSUME TypeOK, CoreInv, NEW t \in Turn, NotifyError(t) PROVE TurnsChange
<1>1. /\ UNCHANGED <<call, lockQueue, active, steerQueue, loaded, thread, newest, store,
                     faults, doubtful>>
      /\ watch' \subseteq Turn /\ native' = native
    BY Typed DEF NotifyError, durable, server
<1>2. TurnsStay
    BY <1>1, Typed DEF TurnsStay
<1>3. active \in State /\ state[active].settled = "no" /\ Settle(active, "failed")
    BY Typed DEF NotifyError, Unsettled
<1> QED
    BY <1>1, <1>2, <1>3 DEF TurnsChange, Settlements

LEMMA TurnTimeoutFacts ==
    ASSUME TypeOK, CoreInv, TurnTimeout
    PROVE  /\ TurnsStay /\ active \in State /\ Holds(active)
           /\ state[active].settled = "no" /\ Settle(active, "failed")
<1>1. active \in State /\ state[active].settled = "no" /\ Settle(active, "failed")
    BY Typed DEF TurnTimeout, Unsettled
<1>2. Holds(active)
    BY DEF TurnTimeout, Unsettled, CoreInv, ActiveOK
<1>3. PICK t \in Turn : t = state[active].turn
    BY <1>1, <1>2, HeldFacts
<1>4. TurnsStay
  <2>1. CASE UNCHANGED native
    BY <2>1, Typed DEF TurnsStay
  <2>2. CASE native[t].status = "running" /\ native' = [native EXCEPT ![t].status = "failed"]
    BY <2>2, EndedTurn DEF Ended
  <2> QED
    BY <1>3, <2>1, <2>2 DEF TurnTimeout
<1> QED
    BY <1>1, <1>2, <1>4

LEMMA TurnTimeoutChanges ==
    ASSUME TypeOK, CoreInv, TurnTimeout PROVE TurnsChange
<1>1. /\ UNCHANGED <<call, lockQueue, active, steerQueue, loaded, thread, newest, store,
                     faults, doubtful>>
      /\ watch' \subseteq Turn
    BY Typed DEF TurnTimeout, durable
<1> QED
    BY <1>1, TurnTimeoutFacts DEF TurnsChange, Settlements

LEMMA IdleCloseCore ==
    ASSUME TypeOK, CoreInv, IdleClose PROVE TypeOK' /\ CoreInv'
<1>1. /\ Quiet /\ UNCHANGED <<call, lockQueue, steerQueue, faults, doubtful>>
      /\ active = None /\ loaded' = {} /\ watch' = {}
    BY DEF IdleClose, Quiet, durable
<1>2. Grows
    BY <1>1, QuietGrows
<1>3. \A d \in Call : /\ NotBorn(d) /\ (state'[d].turn # None => Holds(d))
                      /\ call'[d] = call[d] /\ LockKept(d)
    BY <1>1, LockStill DEF Quiet, NotBorn, Holds
<1>4. \A o \in State : StateOK(o)'
    BY <1>1 DEF Quiet, StateOK, CoreInv, Holds, Known, PartOf
<1>5. ActiveOK' /\ OneReceipt' /\ thread' \in 1..newest'
    BY <1>1 DEF Quiet, ActiveOK, OneReceipt, CoreInv
<1>6. \A x \in store' : ReceiptOK(x)'
    BY <1>1, <1>2, ReceiptFrame DEF Quiet
<1>7. TypeOK'
    BY <1>1, QuietTypes, Typed
<1> QED
    BY <1>2, <1>3, <1>4, <1>5, <1>6, <1>7, CoreAll

\* The state that is put away, and what each call that waits for it becomes.
LEMMA FinalizeFacts ==
    ASSUME TypeOK, CoreInv, Finalize
    PROVE  \E o \in State :
              /\ o = active /\ Holds(o) /\ state[o].settled \in {"answered", "failed", "lost"}
              /\ call' \in [Call -> CallRecord]
              /\ \A c \in Call :
                    \/ /\ ~(At(c, {"waiting"}) /\ call[c].state = o)
                       /\ call'[c] = call[c]
                    \/ /\ At(c, {"waiting"}) /\ call[c].state = o /\ call[c].note = o
                       /\ call'[c].stage = "noting" /\ call'[c].state = o /\ call'[c].note = o
                       /\ call'[c].outcome = "none"
                    \/ /\ At(c, {"waiting"}) /\ call[c].state = o
                       /\ call'[c] = Ends(c, state[o].settled, state[o].turn)
                       /\ ToldDone(c) /\ call'[c].outcome = state[o].settled
                       /\ call'[c].turn = state[o].turn
<1>1. PICK o \in State : o = active /\ Holds(o) /\ ~Unsettled(o)
    BY Typed DEF Finalize, CoreInv, ActiveOK
<1>2. PICK t \in Turn, g \in {"answered", "failed", "lost"} : t = state[o].turn /\ g = state[o].settled
    BY <1>1, HeldFacts
<1>3. call' = [c \in Call |->
                 IF At(c, {"waiting"}) /\ call[c].state = o
                 THEN IF call[c].note = o THEN [call[c] EXCEPT !.stage = "noting"] ELSE Ends(c, g, t)
                 ELSE call[c]]
    BY <1>1, <1>2 DEF Finalize
<1>4. \A c \in Call :
        /\ call[c] \in CallRecord
        /\ Ends(c, g, t) \in CallRecord /\ Ends(c, g, t).stage = "done" /\ Ends(c, g, t).state = None
        /\ Ends(c, g, t).note = call[c].note
        /\ Ends(c, g, t).outcome = g /\ Ends(c, g, t).turn = t
    BY EndsRecord, Typed DEF Outcomes
<1>5. \A q \in CallRecord : /\ [q EXCEPT !.stage = "noting"] \in CallRecord
                            /\ [q EXCEPT !.stage = "noting"].stage = "noting"
                            /\ [q EXCEPT !.stage = "noting"].state = q.state
                            /\ [q EXCEPT !.stage = "noting"].note = q.note
                            /\ [q EXCEPT !.stage = "noting"].outcome = q.outcome
    BY DEF CallRecord, Stages
<1>6. call' \in [Call -> CallRecord]
    BY <1>3, <1>4, <1>5, Zenon
<1>7. \A c \in Call : At(c, {"waiting"}) => call[c].outcome = "none"
    BY DEF CoreInv, Refers, At
<1>8. ASSUME NEW c \in Call
      PROVE  \/ /\ ~(At(c, {"waiting"}) /\ call[c].state = o)
                /\ call'[c] = call[c]
             \/ /\ At(c, {"waiting"}) /\ call[c].state = o /\ call[c].note = o
                /\ call'[c].stage = "noting" /\ call'[c].state = o /\ call'[c].note = o
                /\ call'[c].outcome = "none"
             \/ /\ At(c, {"waiting"}) /\ call[c].state = o
                /\ call'[c] = Ends(c, g, t)
                /\ ToldDone(c) /\ call'[c].outcome = g /\ call'[c].turn = t
  <2>1. CASE ~(At(c, {"waiting"}) /\ call[c].state = o)
    BY <1>3, <2>1
  <2>2. CASE At(c, {"waiting"}) /\ call[c].state = o /\ call[c].note = o
    <3>1. call'[c] = [call[c] EXCEPT !.stage = "noting"]
      BY <1>3, <2>2
    <3> QED
      BY <1>4, <1>5, <1>7, <2>2, <3>1
  <2>3. CASE At(c, {"waiting"}) /\ call[c].state = o /\ call[c].note # o
    <3>1. call'[c] = Ends(c, g, t)
      BY <1>3, <2>3
    <3> QED
      BY <1>4, <2>3, <3>1 DEF ToldDone
  <2> QED
    BY <2>1, <2>2, <2>3
<1> QED
    BY <1>1, <1>2, <1>6, <1>8

\* Only the mark of an empty answer is set in it.
LEMMA FinalizeStates ==
    ASSUME TypeOK, CoreInv, Finalize
    PROVE  /\ state' \in [State -> StateRecord]
           /\ \A p \in State : /\ state'[p].turn = state[p].turn /\ state'[p].thread = state[p].thread
                               /\ state'[p].message = state[p].message
                               /\ state'[p].settled = state[p].settled
<1>1. active \in State
    BY Typed DEF Finalize
<1>2. PICK b \in BOOLEAN : state' = [state EXCEPT ![active].silent = b]
    BY DEF Finalize, MaySilent
<1>3. PICK q : q = [state[active] EXCEPT !.silent = b]
    OBVIOUS
<1>4. /\ q \in StateRecord /\ q.turn = state[active].turn /\ q.thread = state[active].thread
      /\ q.message = state[active].message /\ q.settled = state[active].settled
    BY <1>1, <1>2, <1>3, Typed DEF StateRecord
<1>5. state' = [state EXCEPT ![active] = q]
    BY <1>1, <1>2, <1>3, Typed DEF StateRecord
<1> QED
    BY <1>1, <1>4, <1>5, Typed

LEMMA FinalizeCore ==
    ASSUME TypeOK, CoreInv, Finalize PROVE TypeOK' /\ CoreInv'
<1>0. /\ UNCHANGED <<lockQueue, steerQueue, loaded, newest, native>> /\ active' = None
      /\ watch' \subseteq Turn /\ state' \in [State -> StateRecord]
      /\ \A p \in State : /\ state'[p].turn = state[p].turn /\ state'[p].thread = state[p].thread
                          /\ state'[p].message = state[p].message
                          /\ state'[p].settled = state[p].settled
    BY FinalizeStates, Typed DEF Finalize
<1>1. PICK o \in State :
              /\ o = active /\ Holds(o) /\ state[o].settled \in {"answered", "failed", "lost"}
              /\ call' \in [Call -> CallRecord]
              /\ \A c \in Call :
                    \/ /\ ~(At(c, {"waiting"}) /\ call[c].state = o)
                       /\ call'[c] = call[c]
                    \/ /\ At(c, {"waiting"}) /\ call[c].state = o /\ call[c].note = o
                       /\ call'[c].stage = "noting" /\ call'[c].state = o /\ call'[c].note = o
                       /\ call'[c].outcome = "none"
                    \/ /\ At(c, {"waiting"}) /\ call[c].state = o
                       /\ call'[c] = Ends(c, state[o].settled, state[o].turn)
                       /\ ToldDone(c) /\ call'[c].outcome = state[o].settled
                       /\ call'[c].turn = state[o].turn
    BY FinalizeFacts
<1>2. /\ state[o].turn \in Turn /\ Known(state[o].turn) /\ state[o].thread \in 1..newest
      /\ state[o].thread \in Thread /\ state[o].thread = native[state[o].turn].thread
      /\ state[o].settled = "answered" => native[state[o].turn].status = "completed"
      /\ newest \in Nat /\ StateOK(o) /\ o # None
    BY <1>1, HeldFacts, Typed, Zero DEF Thread, CoreInv
<1>3. Grows
  <2>1. \A p \in State : StateKept(p)
    BY <1>0 DEF StateKept
  <2>2. \A t \in Turn : NativeGrows(t)
    BY <1>0 DEF NativeGrows
  <2>3. \A p \in State : active = p /\ state'[p].settled = "no" => active' = p
    BY <1>0, <1>1
  <2> QED
    BY <1>0, <1>2, <2>1, <2>2, <2>3 DEF Grows
<1>4. \A d \in Call : NotBorn(d) /\ (state'[d].turn # None => Holds(d))
    BY <1>0 DEF NotBorn, Holds, State
<1>5. ASSUME NEW d \in Call
      PROVE  (call'[d] = call[d] /\ LockKept(d)) \/ ToldDone(d) \/ Own(d)'
  <2>1. CASE call'[d] = call[d]
    BY <1>0, <1>1, <1>2, <2>1 DEF LockKept, CoreInv, UnderLock
  <2>2. CASE /\ At(d, {"waiting"}) /\ call[d].state = o
             /\ call'[d].stage = "noting" /\ call'[d].state = o /\ call'[d].note = o
             /\ call'[d].outcome = "none"
    <3>1. PartOf(Of(d), state[o].turn)
      BY <2>2 DEF CoreInv, Refers
    <3>2. state'[o].turn # None /\ Of(d) \in native'[state'[o].turn].inputs /\ state'[o].settled # "no"
      BY <1>0, <1>1, <3>1 DEF Holds, PartOf
    <3> QED
      BY <1>3, <1>4, <2>2, <3>2, WaitsOwn
  <2> QED
    BY <1>1, <2>1, <2>2
<1>6. \A p \in State : StateOK(p)'
    BY <1>0, <1>3, StateFrame DEF Holds
<1>7. ActiveOK' /\ thread' \in 1..newest' /\ thread' \in Thread
    BY <1>0, <1>1, <1>2 DEF ActiveOK, Finalize
<1>8. store' \subseteq EventRecord /\ (\A x \in store' : ReceiptOK(x)') /\ OneReceipt'
  <2>1. CASE UNCHANGED store
    BY <1>3, <2>1, ReceiptFrame, Typed DEF OneReceipt, CoreInv
  <2>2. CASE store' = Save(store, TurnReceipt(o, state[o].message))
    <3>1. PICK m \in Message : m = state[o].message /\ PartOf(m, state[o].turn)
      BY <1>1, <1>2, MessageType DEF StateOK, State
    <3>2. PICK key \in {"final", "error"} : key = IF state[o].settled = "answered" THEN "final" ELSE "error"
      OBVIOUS
    <3>3. PICK e \in EventRecord : /\ e = Event(state[o].thread, m, key, state[o].turn, state[o].settled)
                                   /\ e.turn = state[o].turn /\ e.thread = state[o].thread
                                   /\ e.message = m /\ e.key = key /\ e.how = state[o].settled
      <4>1. key \in Keys /\ state[o].settled \in Settlements \cup {"steer"}
        BY <1>1 DEF Keys, Settlements
      <4> QED
        BY <1>2, <4>1, EventFacts
    <3>4. ReceiptOK(e)'
      BY <1>0, <1>1, <1>2, <3>1, <3>2, <3>3 DEF ReceiptOK, Known, PartOf
    <3>5. store' = Save(store, e)
      BY <2>2, <3>1, <3>2, <3>3 DEF TurnReceipt
    <3> QED
      BY <1>3, <3>4, <3>5, SaveStep
  <2> QED
    BY <1>1, <2>1, <2>2 DEF Finalize
<1>9. faults' \in 0..MaxFaults /\ doubtful' \subseteq Message \X Turn
  <2>1. <<state[o].message, state[o].turn>> \in Message \X Turn
    BY <1>1, <1>2, MessageType DEF StateOK, State
  <2>2. \/ UNCHANGED faults
        \/ Fault
    BY DEF Finalize
  <2>3. \/ UNCHANGED doubtful
        \/ doubtful' = doubtful \cup {<<state[o].message, state[o].turn>>}
    BY <1>1 DEF Finalize
  <2>4. doubtful \subseteq Message \X Turn /\ faults \in 0..MaxFaults
    BY Typed
  <2>5. doubtful' \subseteq Message \X Turn
    BY <2>1, <2>3, <2>4, Zenon
  <2> QED
    BY <2>2, <2>4, <2>5, FaultType
<1>10. TypeOK'
    BY <1>0, <1>1, <1>7, <1>8, <1>9, Typed, TypedNext
<1> QED
    BY <1>3, <1>4, <1>5, <1>6, <1>7, <1>8, <1>10, CoreAll

LEMMA DisconnectFacts ==
    ASSUME TypeOK, CoreInv, Disconnect
    PROVE  /\ call' \in [Call -> CallRecord]
           /\ \A c \in Call :
                 \/ ~At(c, Requesting) /\ call'[c] = call[c]
                 \/ /\ At(c, Requesting) /\ ToldDone(c) /\ call'[c].note = call[c].note
                    /\ call'[c].outcome \in {"lost", "unknown", "error", "unconfirmed"}
<1>1. \A c \in Call :
        /\ call[c] \in CallRecord
        /\ Rejected(call[c].stage) \in {"lost", "unknown", "error", "unconfirmed"}
        /\ call[c].turn \in Turn \cup {None}
    BY Typed DEF Rejected, CallRecord
<1>2. \A c \in Call : LET r == Ends(c, Rejected(call[c].stage), call[c].turn) IN
        /\ r \in CallRecord /\ r.stage = "done" /\ r.state = None /\ r.note = call[c].note
        /\ r.outcome = Rejected(call[c].stage)
    BY <1>1, EndsRecord DEF Outcomes
<1>3. call' = [c \in Call |-> IF At(c, Requesting)
                              THEN Ends(c, Rejected(call[c].stage), call[c].turn) ELSE call[c]]
    BY DEF Disconnect
<1>4. call' \in [Call -> CallRecord]
    BY <1>1, <1>2, <1>3, Zenon
<1> QED
    BY <1>1, <1>2, <1>3, <1>4 DEF ToldDone

LEMMA DisconnectCore ==
    ASSUME TypeOK, CoreInv, Disconnect PROVE TypeOK' /\ CoreInv'
<1>0. /\ UNCHANGED <<active, thread, newest, store, native>> /\ watch' = {} /\ loaded' = {}
      /\ LoseTurns /\ faults' \in 0..MaxFaults
    BY FaultType DEF Disconnect, durable, LoseTurns
<1>1. /\ call' \in [Call -> CallRecord]
      /\ \A c \in Call : \/ ~At(c, Requesting) /\ call'[c] = call[c]
                         \/ ToldDone(c)
    BY DisconnectFacts
<1>2. TurnsStay
    BY <1>0, Typed DEF TurnsStay
<1>3. /\ Grows /\ ActiveOK' /\ (\A p \in State : StateOK(p)')
      /\ (\A d \in Call : NotBorn(d) /\ (state'[d].turn # None => Holds(d)))
      /\ (\A x \in store' : ReceiptOK(x)') /\ OneReceipt' /\ state' \in [State -> StateRecord]
  <2>1. CASE Unsettled(active)
    <3>1. active \in State /\ state[active].settled = "no" /\ Settle(active, "lost")
      BY <1>0, <2>1, Typed DEF LoseTurns, Unsettled, Settle
    <3>2. SettledBy(active, "lost") /\ "lost" \in Settlements
      BY <3>1, SettlesBy DEF Settlements
    <3> QED
      BY <1>0, <1>2, <3>1, <3>2, SettledFacts DEF SettledBy
  <2>2. CASE ~Unsettled(active)
    <3>1. UNCHANGED state
      BY <1>0, <2>2 DEF LoseTurns
    <3>2. newest' \in Nat /\ newest <= newest'
      BY <1>0, Typed DEF Thread
    <3>3. ActiveOK'
      BY <1>0, <3>1, Typed DEF ActiveOK, CoreInv, Holds
    <3> QED
      BY <1>0, <1>2, <3>1, <3>2, <3>3, TurnsStayFacts, Typed
  <2> QED
    BY <2>1, <2>2
<1>4. \A d \in Call : ~At(d, Requesting) => LockKept(d)
  <2>1. ASSUME NEW d \in Call, ~At(d, Requesting), At(d, LockStages)
        PROVE  HasLock(d)' /\ active' = None
    <3>1. HasLock(d) /\ active = None
      BY <2>1 DEF CoreInv, UnderLock
    <3>2. lockQueue' = lockQueue
      BY <2>1, <3>1 DEF Disconnect, HasLock
    <3> QED
      BY <1>0, <3>1, <3>2 DEF HasLock
  <2> QED
    BY <2>1 DEF LockKept
<1>5. lockQueue' \in Seq(Call) /\ steerQueue' \in [State -> Seq(Call)]
  <2>1. lockQueue \in Seq(Call) /\ \A o \in State : steerQueue[o] \in Seq(Call)
    BY Typed
  <2>2. \A q \in Seq(Call) : q # <<>> => Tail(q) \in Seq(Call)
    OBVIOUS
  <2>3. lockQueue' \in {lockQueue} \cup {Tail(lockQueue) : x \in {y \in {1} : lockQueue # <<>>}}
    BY DEF Disconnect
  <2>4. lockQueue' \in Seq(Call)
    BY <2>1, <2>2, <2>3
  <2> DEFINE hit == {c \in Call : At(c, Requesting)}
             left(o) == IF steerQueue[o] # <<>> /\ Head(steerQueue[o]) \in hit
                        THEN Tail(steerQueue[o]) ELSE steerQueue[o]
  <2>5. \A o \in State : left(o) \in Seq(Call)
    BY <2>1, <2>2
  <2>6. steerQueue' = [o \in State |-> left(o)]
    BY DEF Disconnect
  <2> HIDE DEF left
  <2> QED
    BY <2>4, <2>5, <2>6
<1>6. doubtful' \subseteq Message \X Turn
    BY MessageType, Typed DEF Disconnect, Turn
<1>7. TypeOK'
    BY <1>0, <1>1, <1>3, <1>5, <1>6, Typed, TypedNext
<1>8. thread' \in 1..newest'
    BY <1>0 DEF CoreInv
<1> QED
    BY <1>1, <1>3, <1>4, <1>7, <1>8, CoreAll

\* A crash ends every call that was made, and forgets what was to be noted.
LEMMA CrashFacts ==
    ASSUME TypeOK, CoreInv, Crash
    PROVE  /\ call' \in [Call -> CallRecord]
           /\ \A c \in Call :
                 /\ call'[c].state = None /\ call'[c].note = None
                 /\ \/ /\ At(c, {"idle", "done"}) /\ call'[c].stage = call[c].stage
                       /\ call'[c].outcome = call[c].outcome /\ call'[c].turn = call[c].turn
                    \/ /\ ~At(c, {"idle", "done"})
                       /\ call'[c].stage = "done" /\ call'[c].outcome = "crashed"
<1> DEFINE end(c) == Ends(c, "crashed", None)
           q(c) == IF At(c, {"idle", "done"}) THEN call[c] ELSE end(c)
<1>1. ASSUME NEW c \in Call PROVE end(c) \in CallRecord /\ end(c).stage = "done"
                                  /\ end(c).state = None /\ end(c).outcome = "crashed"
    BY EndsRecord DEF Outcomes
<1>2. \A c \in Call : call[c] \in CallRecord /\ (At(c, {"idle", "done"}) => call[c].state = None)
    BY Typed DEF CoreInv, Refers
<1> HIDE DEF end
<1>3. \A c \in Call : q(c) \in CallRecord
    BY <1>1, <1>2
<1>4. call' = [c \in Call |-> [q(c) EXCEPT !.note = None]]
    BY Zenon DEF Crash, end
<1>5. \A c \in Call : \E r \in CallRecord : /\ r = [q(c) EXCEPT !.note = None] /\ r.note = None
                                  /\ r.stage = q(c).stage /\ r.state = q(c).state
                                  /\ r.turn = q(c).turn /\ r.outcome = q(c).outcome
    BY <1>3, Unnoted
<1>6. call' \in [Call -> CallRecord]
    BY <1>4, <1>5
<1>7. \A c \in Call : /\ call'[c].note = None /\ call'[c].stage = q(c).stage
                      /\ call'[c].state = q(c).state /\ call'[c].turn = q(c).turn
                      /\ call'[c].outcome = q(c).outcome
    BY <1>4, <1>5
<1> QED
    BY <1>1, <1>2, <1>6, <1>7

LEMMA CrashCore ==
    ASSUME TypeOK, CoreInv, Crash PROVE TypeOK' /\ CoreInv'
<1>0. /\ UNCHANGED <<state, thread, newest, store, native>> /\ active' = None /\ lockQueue' = <<>>
      /\ watch' = {} /\ loaded' = {} /\ faults' \in 0..MaxFaults
    BY FaultType DEF Crash, durable
<1>1. /\ call' \in [Call -> CallRecord]
      /\ \A c \in Call :
                 /\ call'[c].state = None /\ call'[c].note = None
                 /\ \/ /\ At(c, {"idle", "done"}) /\ call'[c].stage = call[c].stage
                       /\ call'[c].outcome = call[c].outcome
                    \/ ~At(c, {"idle", "done"}) /\ call'[c].stage = "done"
    BY CrashFacts
<1>2. ASSUME NEW c \in Call PROVE Refers(c)' /\ UnderLock(c)' /\ Born(c)'
  <2>1. /\ call'[c].stage \in {"idle", "done"} /\ call'[c].state = None /\ call'[c].note = None
        /\ call'[c].stage = "idle" => At(c, {"idle"}) /\ call'[c].outcome = call[c].outcome
    BY <1>1 DEF At
  <2>2. Refers(c) /\ Born(c)
    BY DEF CoreInv
  <2>3. call'[c].outcome # "none" => call'[c].stage = "done"
    BY <2>1, <2>2 DEF Refers, At
  <2>4. Refers(c)' /\ UnderLock(c)'
    BY <2>1, <2>3 DEF Refers, UnderLock, At, SteerStages, LockStages
  <2>5. At(c, {"idle"}) => native[c].status = "none" /\ ~Holds(c)
    BY <2>2 DEF Born, At, Launched
  <2>6. Born(c)'
    BY <1>0, <2>1, <2>2, <2>5 DEF Born, At, Launched, Holds
  <2> QED
    BY <2>4, <2>6
<1>3. \A o \in State : StateOK(o)'
    BY <1>0 DEF CoreInv, StateOK, Holds, Known, PartOf
<1>4. ActiveOK' /\ (\A x \in store' : ReceiptOK(x)') /\ OneReceipt' /\ thread' \in 1..newest'
    BY <1>0 DEF CoreInv, ActiveOK, ReceiptOK, OneReceipt, Known, PartOf
<1>5. CoreInv'
    BY <1>2, <1>3, <1>4 DEF CoreInv
<1>6. steerQueue' \in [State -> Seq(Call)]
    BY DEF Crash
<1>7. doubtful' \subseteq Message \X Turn
  <2>1. active # None => state[active].message \in Message /\ state[active].turn \in Turn
    BY MessageType, Typed DEF CoreInv, ActiveOK, StateOK, State, Known
  <2>2. doubtful' = doubtful \cup {<<Of(c), c>> : c \in {d \in Call : At(d, {"started"})}}
                            \cup {<<state[o].message, state[o].turn>> : o \in {active} \ {None}}
    BY DEF Crash
  <2> QED
    BY <2>1, <2>2, MessageType, Typed DEF Turn
<1> QED
    BY <1>0, <1>1, <1>5, <1>6, <1>7, Typed, TypedNext
----------------------------------------------------------------------------
(* The other invariants: what each of them lets change *)

OneMoves(c) == \A d \in Call \ {c} : call'[d] = call[d]

\* The steering queues: one call comes, or leaves from the front.
QueueMoves(c) ==
    \/ UNCHANGED steerQueue
    \/ \E o \in State : steerQueue' = [steerQueue EXCEPT ![o] = Append(@, c)]
    \/ Steers(c) /\ LeaveSteering(c) /\ call[c].state \in State

LEMMA SteerFrame ==
    ASSUME TypeOK, CoreInv, SteerInv, NEW c \in Call, OneMoves(c), QueueMoves(c),
           At(c, Steering)' =>
              Steers(c) /\ call'[c].state = call[c].state /\ UNCHANGED steerQueue
    PROVE  SteerInv'
<1>1. \A d \in Call : At(d, Steering) => call[d].state \in State /\ Steers(d)
    BY SteeredFacts DEF SteerInv, Steering, At
<1>2. steerQueue \in [State -> Seq(Call)]
    BY Typed
<1>3. \A q \in Seq(Call) : q # <<>> => Append(q, c) # <<>> /\ Head(Append(q, c)) = Head(q)
    OBVIOUS
<1>4. ASSUME NEW d \in Call \ {c}, At(d, Steering)' PROVE Steers(d)'
  <2>1. call'[d] = call[d] /\ At(d, Steering)
    BY <1>4 DEF OneMoves, At
  <2>2. PICK p \in State : p = call[d].state /\ steerQueue[p] # <<>> /\ Head(steerQueue[p]) = d
    BY <1>1, <2>1 DEF Steers
  <2>3. CASE UNCHANGED steerQueue
    BY <2>1, <2>2, <2>3 DEF Steers
  <2>4. ASSUME NEW o \in State, steerQueue' = [steerQueue EXCEPT ![o] = Append(@, c)]
        PROVE  Steers(d)'
    <3>1. steerQueue'[p] = IF p = o THEN Append(steerQueue[p], c) ELSE steerQueue[p]
      BY <1>2, <2>4
    <3>2. steerQueue'[p] # <<>> /\ Head(steerQueue'[p]) = d
      BY <1>2, <1>3, <2>2, <3>1
    <3> QED
      BY <2>1, <2>2, <3>2 DEF Steers
  <2>5. CASE Steers(c) /\ LeaveSteering(c) /\ call[c].state \in State
    <3>1. p # call[c].state
      BY <2>2, <2>5 DEF Steers
    <3> QED
      BY <1>2, <2>1, <2>2, <2>5, <3>1 DEF Steers, LeaveSteering
  <2> QED
    BY <2>3, <2>4, <2>5 DEF QueueMoves
<1>5. At(c, Steering)' => Steers(c)'
    BY DEF Steers
<1> QED
    BY <1>4, <1>5 DEF SteerInv

LEMMA ToldFrame ==
    ASSUME ToldInv, \A t \in Turn : NativeGrows(t),
           \A d \in Call : \/ Truly(d)'
                           \/ call'[d].outcome = call[d].outcome /\ call'[d].turn = call[d].turn
    PROVE  ToldInv'
<1>1. ASSUME NEW d \in Call, call'[d].outcome = call[d].outcome, call'[d].turn = call[d].turn
      PROVE  Truly(d)'
  <2>1. Truly(d)
    BY DEF ToldInv
  <2> QED
    BY <1>1, <2>1 DEF Truly, NativeGrows, Known, PartOf
<1> QED
    BY <1>1 DEF ToldInv

\* A turn that runs on a loaded thread is not lost sight of.
LEMMA LoadedFrame ==
    ASSUME TypeOK, LoadedInv, \A o \in State : StateKept(o),
           \A t \in Turn : native'[t].status = "running" /\ native'[t].thread \in loaded' =>
              \/ Watched(t)'
              \/ /\ native[t].status = "running" /\ native[t].thread \in loaded
                 /\ active # None /\ state[active].turn = t => Watched(t)'
                 /\ call[t].stage = "started" => Watched(t)'
    PROVE  LoadedInv'
<1>1. ASSUME NEW t \in Turn, GivenUp(t) PROVE GivenUp(t)'
  <2>1. PICK o \in State : state[o].turn = t /\ state[o].settled = "failed"
    BY <1>1 DEF GivenUp
  <2> QED
    BY <2>1, Zero DEF GivenUp, StateKept, Holds
<1> QED
    BY <1>1 DEF LoadedInv, Watched

LEMMA OverlapFrame ==
    ASSUME TypeOK, TurnsDoNotOverlap, \A o \in State : StateKept(o),
           \A t \in Turn : native'[t].status = "running" =>
              native[t].status = "running" /\ native'[t].thread = native[t].thread
    PROVE  TurnsDoNotOverlap'
<1>1. ASSUME NEW t \in Turn, NEW u \in Turn, NEW o \in State,
             state[o].turn \in {t, u}, state[o].settled = "failed"
      PROVE  state'[o].turn \in {t, u} /\ state'[o].settled = "failed"
    BY <1>1, Zero DEF StateKept, Holds
<1> QED
    BY <1>1 DEF TurnsDoNotOverlap

ReceiptsKept ==
    \A th \in Thread, m \in Message :
        FinalReceipt(th, m) \cup ErrorReceipt(th, m) # {} =>
            (FinalReceipt(th, m) \cup ErrorReceipt(th, m))' # {}
AttemptsKept == \A th, m : OpenAttempt(th, m)' = OpenAttempt(th, m)

LEMMA SaveKeeps ==
    ASSUME NEW e, e.key \in {"final", "error", "confirmed"},
           store' = store \/ store' = Save(store, e)
    PROVE  ReceiptsKept /\ AttemptsKept
<1>1. CASE store' = store
    BY <1>1 DEF ReceiptsKept, AttemptsKept, FinalReceipt, ErrorReceipt, OpenAttempt, Found
<1>2. CASE store' = Save(store, e)
  <2>1. \A x : x \in store' <=>
            x = e \/ (x \in store /\ <<x.thread, x.message, x.key>> # <<e.thread, e.message, e.key>>)
    BY <1>2 DEF Save
  <2>2. ReceiptsKept
    <3>1. ASSUME NEW th, NEW m, NEW x \in store, x.thread = th, x.message = m,
                 x.key \in {"final", "error"}
          PROVE  \E y \in store' : y.thread = th /\ y.message = m /\ y.key = x.key
      BY <2>1, <3>1
    <3> QED
      BY <3>1 DEF ReceiptsKept, FinalReceipt, ErrorReceipt, Found
  <2>3. \A th, m : Found(th, m, "attempt")' = Found(th, m, "attempt")
                   /\ Found(th, m, "rejected")' = Found(th, m, "rejected")
    BY <2>1 DEF Found
  <2> QED
    BY <2>2, <2>3 DEF AttemptsKept, OpenAttempt
<1> QED
    BY <1>1, <1>2

\* No message becomes part of a turn, and no attempt begins or ends.
LEMMA EvidenceFrame ==
    ASSUME TypeOK, CoreInv, EvidenceInv, PromptNotRepeated, ReceiptsKept, AttemptsKept,
           \A t \in Turn : native'[t].thread = native[t].thread /\ native'[t].inputs = native[t].inputs,
           doubtful \subseteq doubtful', \A o \in State : StateKept(o),
           \A t \in Turn, m \in Message :
              PartOf(m, t) /\ InHand(m, t) => Evident(m, t)' \/ <<m, t>> \in doubtful',
           \A c \in Call : At(c, Delivering)' =>
              \/ At(c, Delivering) /\ call'[c].thread = call[c].thread
              \/ /\ Unseen(Of(c), call'[c].thread)
                 /\ OpenAttempt(call'[c].thread, Of(c)) = {},
           \A c \in Call : At(c, Attempting)' =>
              At(c, Attempting) /\ call'[c].state = call[c].state
    PROVE  EvidenceInv' /\ PromptNotRepeated'
<1>1. ASSUME NEW t \in Turn, NEW m \in Message, PartOf(m, t)'
      PROVE  Evident(m, t)' \/ <<m, t>> \in doubtful'
  <2>1. PartOf(m, t)
    BY <1>1 DEF PartOf
  <2>2. PICK th \in Thread : th = native[t].thread /\ native'[t].thread = th
    <3>1. native[t].status # "none" /\ Born(t)
      BY <2>1 DEF CoreInv, Born, PartOf, Turn
    <3>2. native[t].thread \in 1..newest /\ newest \in 1..MaxThread /\ MaxThread \in Nat
      BY <3>1, Typed, BoundAssumption DEF Born, Thread
    <3>3. native[t].thread \in Thread
      BY <3>2 DEF Thread
    <3> QED
      BY <3>3
  <2>3. CASE FinalReceipt(th, m) \cup ErrorReceipt(th, m) # {}
    BY <2>2, <2>3 DEF Evident, ReceiptsKept
  <2>4. CASE \E x \in OpenAttempt(th, m) : x.turn = t
    BY <2>2, <2>4 DEF Evident, AttemptsKept
  <2>5. CASE InHand(m, t)
    BY <2>1, <2>5
  <2> QED
    BY <2>1, <2>2, <2>3, <2>4, <2>5 DEF EvidenceInv, Evident
<1>2. \A m, th : Unseen(m, th) => Unseen(m, th)'
    BY DEF Unseen, PartOf
<1>3. ASSUME NEW c \in Call, At(c, Delivering)'
      PROVE  Unseen(Of(c), call[c].thread)' /\ OpenAttempt(call[c].thread, Of(c))' = {}
  <2>1. Unseen(Of(c), call'[c].thread) /\ OpenAttempt(call'[c].thread, Of(c)) = {}
    BY <1>3 DEF EvidenceInv
  <2>2. PICK th : th = call'[c].thread
    OBVIOUS
  <2>3. Unseen(Of(c), th)' /\ OpenAttempt(th, Of(c))' = {}
    BY <1>2, <2>1, <2>2 DEF AttemptsKept
  <2>4. Unseen(Of(c), call[c].thread)'
    BY <1>2, <2>1 DEF Unseen, PartOf
  <2>5. OpenAttempt(call[c].thread, Of(c))' = OpenAttempt(th, Of(c))'
    BY <2>2 DEF OpenAttempt, Found
  <2> QED
    BY <2>3, <2>4, <2>5
<1>4. \A c \in Call : At(c, Attempting)' =>
         /\ At(c, Attempting) /\ call'[c].state = call[c].state
         /\ state'[call[c].state].thread = state[call[c].state].thread
         /\ state'[call[c].state].turn = state[call[c].state].turn
  <2>1. \A c \in Call : At(c, Attempting) => call[c].state \in State /\ Holds(call[c].state)
    BY SteeredFacts DEF At, Attempting, SteerStages
  <2> QED
    BY <2>1 DEF StateKept
<1>5. ASSUME NEW c \in Call, At(c, Attempting)'
      PROVE  LET o == call[c].state IN
             /\ Unseen(Of(c), state[o].thread)'
             /\ \E x \in OpenAttempt(state[o].thread, Of(c))' : x.turn = state'[o'].turn
  <2>1. PICK o, th : o = call[c].state /\ th = state[o].thread /\ call'[c].state = o
                     /\ state'[o].thread = th /\ state'[o].turn = state[o].turn
    BY <1>4, <1>5
  <2>2. /\ Unseen(Of(c), th)
        /\ \E x \in OpenAttempt(th, Of(c)) : x.turn = state[o].turn
    BY <1>4, <1>5, <2>1 DEF EvidenceInv
  <2>3. Unseen(Of(c), state[call[c].state].thread)'
    BY <1>2, <2>1, <2>2 DEF Unseen, PartOf
  <2>4. OpenAttempt(state[call[c].state].thread, Of(c))' = OpenAttempt(th, Of(c))'
    BY <2>1 DEF OpenAttempt, Found
  <2> QED
    BY <2>1, <2>2, <2>3, <2>4 DEF AttemptsKept
<1>6. ASSUME NEW c \in Call, NEW d \in Call, c # d, At(c, Attempting)', At(d, Attempting)', Of(c) = Of(d)
      PROVE  state'[call'[c].state].thread # state'[call'[d].state].thread
    BY <1>4, <1>6 DEF EvidenceInv
<1>7. EvidenceInv'
    BY <1>1, <1>3, <1>5, <1>6 DEF EvidenceInv
<1>8. PromptNotRepeated'
    BY DEF PromptNotRepeated
<1> QED
    BY <1>7, <1>8
----------------------------------------------------------------------------
(* The other invariants: ordinary steps *)

\* A step that tells one call what is so, and changes no turn.
Plain(c) ==
    /\ OneMoves(c) /\ Still /\ QueueMoves(c)
    /\ At(c, Steering)' => Steers(c) /\ call'[c].state = call[c].state /\ UNCHANGED steerQueue
    /\ At(c, {"started"}) => At(c, {"started"})'
    /\ Truly(c)'

\* ... and makes no attempt to deliver a message that could have been delivered before.
Ordinary(c) ==
    /\ Plain(c) /\ ReceiptsKept /\ AttemptsKept /\ UNCHANGED doubtful
    /\ At(c, Delivering)' =>
          \/ At(c, Delivering) /\ call'[c].thread = call[c].thread
          \/ /\ Unseen(Of(c), call'[c].thread)
             /\ OpenAttempt(call'[c].thread, Of(c)) = {}
    /\ At(c, Attempting)' => At(c, Attempting) /\ call'[c].state = call[c].state

LEMMA PlainStep ==
    ASSUME TypeOK, CoreInv, RestInv, NEW c \in Call, Plain(c)
    PROVE  SteerInv' /\ ToldInv' /\ LoadedInv' /\ TurnsDoNotOverlap'
<1>0. /\ SteerInv /\ ToldInv /\ LoadedInv /\ TurnsDoNotOverlap /\ OneMoves(c) /\ Still /\ Grows
    BY StillFacts DEF RestInv, Plain
<1>1. \A d \in Call : call[d].stage = "started" => call'[d].stage = "started"
    BY <1>0 DEF Plain, OneMoves, At
<1>2. active \in State \cup {None} /\ (\A o \in State : StateKept(o)) /\ (\A t \in Turn : NativeGrows(t))
    BY <1>0, Typed DEF Grows
<1>3. SteerInv'
    BY <1>0, SteerFrame DEF Plain
<1>4. ToldInv'
    BY <1>0, <1>2, ToldFrame DEF Plain, OneMoves
<1>5. LoadedInv'
  <2>1. \A t \in Turn : active # None /\ state[active].turn = t => Watched(t)'
    BY <1>0, <1>2 DEF Watched, Still
  <2>2. \A t \in Turn : call[t].stage = "started" => Watched(t)'
    BY <1>1 DEF Watched, Turn
  <2> QED
    BY <1>0, <1>2, <2>1, <2>2, LoadedFrame DEF Still
<1>6. TurnsDoNotOverlap'
    BY <1>0, <1>2, OverlapFrame DEF Still
<1> QED
    BY <1>3, <1>4, <1>5, <1>6

LEMMA OrdinaryStep ==
    ASSUME TypeOK, CoreInv, RestInv, NEW c \in Call, Ordinary(c)
    PROVE  RestInv'
<1>0. /\ EvidenceInv /\ PromptNotRepeated /\ Plain(c) /\ OneMoves(c) /\ Still
      /\ ReceiptsKept /\ AttemptsKept /\ UNCHANGED doubtful /\ Grows
    BY StillFacts DEF RestInv, Ordinary, Plain
<1>1. \A d \in Call : call[d].stage = "started" => call'[d].stage = "started"
    BY <1>0 DEF Plain, OneMoves, At
<1>2. active \in State \cup {None} /\ (\A o \in State : StateKept(o))
    BY <1>0, Typed DEF Grows
<1>3. SteerInv' /\ ToldInv' /\ LoadedInv' /\ TurnsDoNotOverlap'
    BY <1>0, PlainStep
<1>4. EvidenceInv' /\ PromptNotRepeated'
  <2>1. \A t \in Turn, m \in Message : InHand(m, t) => Evident(m, t)'
    BY <1>0, <1>1, <1>2 DEF InHand, Evident, Still, Turn, Of
  <2>2. \A d \in Call : At(d, Delivering)' =>
          \/ At(d, Delivering) /\ call'[d].thread = call[d].thread
          \/ /\ Unseen(Of(d), call'[d].thread)
             /\ OpenAttempt(call'[d].thread, Of(d)) = {}
    BY <1>0 DEF Ordinary, OneMoves, At
  <2>3. \A d \in Call : At(d, Attempting)' => At(d, Attempting) /\ call'[d].state = call[d].state
    BY <1>0 DEF Ordinary, OneMoves, At
  <2> QED
    BY <1>0, <1>2, <2>1, <2>2, <2>3, EvidenceFrame DEF Still
<1> QED
    BY <1>3, <1>4 DEF RestInv

LEMMA OrdinaryEnds ==
    ASSUME TypeOK, NEW c \in Call, NEW out \in Outcomes, NEW t \in Turn \cup {None},
           EndsWith(c, out, t), ~At(c, {"started"}),
           Still, ReceiptsKept, AttemptsKept, UNCHANGED doubtful, QueueMoves(c),
           out = "answered" => Known(t) /\ native[t].status = "completed" /\ PartOf(Of(c), t),
           out = "accepted" => \E u \in Turn : PartOf(Of(c), u)
    PROVE  Ordinary(c)
<1>1. PICK r \in CallRecord : /\ Moved(c, r) /\ r.stage = "done" /\ r.outcome = out /\ r.turn = t
  <2>1. PICK r \in CallRecord : /\ r = Ends(c, out, t)
                                /\ r.stage = "done" /\ r.outcome = out /\ r.turn = t
    BY EndsRecord
  <2>2. Moved(c, r)
    BY <2>1 DEF EndsWith, Moved
  <2> QED
    BY <2>1, <2>2
<1>2. OneMoves(c) /\ call'[c] = r
    BY <1>1, MovedOne DEF OneMoves
<1>3. Truly(c)'
    BY <1>1, <1>2 DEF Truly, Still, Known, PartOf
<1> QED
    BY <1>1, <1>2, <1>3 DEF Ordinary, Plain, At, Steering, SteerStages, Delivering, Attempting

LEMMA OrdinaryMoves ==
    ASSUME TypeOK, NEW c \in Call, OneMoves(c), NEW s, call'[c].stage = s,
           call'[c].outcome \notin {"answered", "accepted"},
           Still, ReceiptsKept, AttemptsKept, UNCHANGED doubtful, QueueMoves(c),
           At(c, {"started"}) => s = "started",
           s \in Steering => Steers(c) /\ call'[c].state = call[c].state /\ UNCHANGED steerQueue,
           s \in Delivering => At(c, Delivering) /\ call'[c].thread = call[c].thread,
           s \in Attempting => At(c, Attempting)
    PROVE  Ordinary(c)
<1>1. Truly(c)'
    BY DEF Truly
<1>2. s \in Attempting => s \in Steering
    BY DEF Attempting, Steering, SteerStages
<1> QED
    BY <1>1, <1>2 DEF Ordinary, Plain, At

LEMMA QuietStill ==
    ASSUME Quiet, UNCHANGED loaded
    PROVE  Still /\ ReceiptsKept /\ AttemptsKept
    BY DEF Quiet, Still, ReceiptsKept, AttemptsKept, FinalReceipt, ErrorReceipt, OpenAttempt, Found

LEMMA QuietEnds ==
    ASSUME TypeOK, NEW c \in Call, NEW out \in Outcomes, NEW t \in Turn \cup {None},
           EndsWith(c, out, t), ~At(c, {"started"}), Quiet, UNCHANGED loaded,
           UNCHANGED doubtful, QueueMoves(c),
           out = "answered" => Known(t) /\ native[t].status = "completed" /\ PartOf(Of(c), t),
           out = "accepted" => \E u \in Turn : PartOf(Of(c), u)
    PROVE  Ordinary(c)
    BY QuietStill, OrdinaryEnds

LEMMA QuietMoves ==
    ASSUME TypeOK, NEW c \in Call, OneMoves(c), NEW s, call'[c].stage = s,
           call'[c].outcome \notin {"answered", "accepted"},
           Quiet, UNCHANGED loaded, UNCHANGED doubtful, QueueMoves(c),
           At(c, {"started"}) => s = "started",
           s \in Steering => Steers(c) /\ call'[c].state = call[c].state /\ UNCHANGED steerQueue,
           s \in Delivering => At(c, Delivering) /\ call'[c].thread = call[c].thread,
           s \in Attempting => At(c, Attempting)
    PROVE  Ordinary(c)
    BY QuietStill, OrdinaryMoves

LEMMA EnterOrdinary ==
    ASSUME TypeOK, CoreInv, NEW c \in Call, Enter(c) PROVE Ordinary(c)
<1>1. /\ Quiet /\ UNCHANGED loaded /\ UNCHANGED doubtful /\ QueueMoves(c)
      /\ At(c, {"idle", "entering"}) /\ ~At(c, {"started"}) /\ call[c].outcome = "none"
    BY DEF Enter, Quiet, durable, server, At, CoreInv, Refers, QueueMoves
<1>2. CASE call' = [call EXCEPT ![c].stage = "queued", ![c].observes = call[c].aborted]
  <2>1. call'[c].stage = "queued" /\ call'[c].outcome = "none" /\ OneMoves(c)
    BY <1>1, <1>2, Typed DEF CallRecord, OneMoves
  <2> QED
    BY <1>1, <2>1, QuietMoves DEF Steering, SteerStages, Delivering, Attempting
<1>3. CASE EndsWith(c, "aborted", None)
    BY <1>1, <1>3, QuietEnds DEF Outcomes
<1> QED
    BY <1>2, <1>3 DEF Enter

LEMMA RouteOrdinary ==
    ASSUME TypeOK, CoreInv, NEW c \in Call, Route(c) PROVE Ordinary(c)
<1>1. /\ Quiet /\ UNCHANGED loaded /\ UNCHANGED doubtful
      /\ ~At(c, {"started"}) /\ call[c].outcome = "none"
    BY DEF Route, Quiet, durable, server, At, CoreInv, Refers
<1>2. UNCHANGED steerQueue => QueueMoves(c)
    BY DEF QueueMoves
<1>3. CASE EndsWith(c, "aborted", None) /\ UNCHANGED steerQueue
    BY <1>1, <1>2, <1>3, QuietEnds DEF Outcomes
<1>4. CASE active # None /\ RouteToActive(c)
  <2>0. PICK o \in State : o = active
    BY <1>4, Typed
  <2>1. Holds(o) /\ StateOK(o)
    BY <1>4, <2>0 DEF CoreInv, ActiveOK
  <2>2. PICK t \in Turn : t = state[o].turn
    BY <2>1, HeldFacts
  <2>3. CASE Of(c) = state[o].message /\ EndsWith(c, "accepted", t) /\ UNCHANGED steerQueue
    <3>1. PartOf(Of(c), t)
      BY <2>1, <2>2, <2>3 DEF StateOK
    <3> QED
      BY <1>1, <1>2, <2>3, <3>1, QuietEnds DEF Outcomes
  <2>4. CASE EndsWith(c, "busy", None) /\ UNCHANGED steerQueue
    BY <1>1, <1>2, <2>4, QuietEnds DEF Outcomes
  <2>5. CASE call' = [call EXCEPT ![c] = TakesOver(c, o)] /\ UNCHANGED steerQueue
    <3>1. /\ call'[c].stage \in {"waiting", "noting"} /\ call'[c].outcome = "none" /\ OneMoves(c)
      BY <1>1, <2>5, WaitsRecord, Typed DEF OneMoves
    <3> QED
      BY <1>1, <1>2, <2>5, <3>1, QuietMoves DEF Steering, SteerStages, Delivering, Attempting
  <2>6. ASSUME NEW s \in {"afterFinal", "steerQueued"},
               call' = [call EXCEPT ![c].stage = s, ![c].state = o], QueueMoves(c)
        PROVE  Ordinary(c)
    <3>1. /\ call'[c].stage = s /\ call'[c].outcome = "none" /\ OneMoves(c)
      BY <1>1, <2>6, Typed DEF OneMoves, CallRecord
    <3> QED
      BY <1>1, <2>6, <3>1, QuietMoves DEF Steering, SteerStages, Delivering, Attempting
  <2>7. steerQueue' = [steerQueue EXCEPT ![o] = Append(@, c)] => QueueMoves(c)
    BY DEF QueueMoves
  <2> QED
    BY <1>2, <1>4, <2>0, <2>2, <2>3, <2>4, <2>5, <2>6, <2>7 DEF RouteToActive
<1>5. CASE call' = [call EXCEPT ![c].stage = "admitting", ![c].thread = thread]
           /\ UNCHANGED steerQueue
  <2>1. /\ call'[c].stage = "admitting" /\ call'[c].outcome = "none" /\ OneMoves(c)
    BY <1>1, <1>5, Typed DEF OneMoves, CallRecord
  <2> QED
    BY <1>1, <1>2, <1>5, <2>1, QuietMoves DEF Steering, SteerStages, Delivering, Attempting
<1> QED
    BY <1>3, <1>4, <1>5 DEF Route

LEMMA RestartAfterFinalOrdinary ==
    ASSUME TypeOK, CoreInv, NEW c \in Call, RestartAfterFinal(c) PROVE Ordinary(c)
<1>1. /\ Quiet /\ UNCHANGED loaded /\ UNCHANGED doubtful /\ QueueMoves(c)
      /\ ~At(c, {"started"}) /\ call[c].outcome = "none"
    BY DEF RestartAfterFinal, Quiet, durable, server, At, CoreInv, Refers, QueueMoves
<1>2. CASE EndsWith(c, "aborted", None)
    BY <1>1, <1>2, QuietEnds DEF Outcomes
<1>3. CASE Restarts(c)
  <2>1. call'[c].stage = "entering" /\ call'[c].outcome = "none" /\ OneMoves(c)
    BY <1>1, <1>3, RestartsMoves, MovedOne DEF OneMoves
  <2> QED
    BY <1>1, <2>1, QuietMoves DEF Steering, SteerStages, Delivering, Attempting
<1> QED
    BY <1>2, <1>3 DEF RestartAfterFinal

LEMMA ResumeAnsweredOrdinary ==
    ASSUME TypeOK, CoreInv, NEW c \in Call, ResumeAnswered(c) PROVE Ordinary(c)
<1>1. /\ Quiet /\ UNCHANGED loaded /\ UNCHANGED doubtful /\ QueueMoves(c)
      /\ ~At(c, {"started"}) /\ call[c].outcome = "none"
    BY DEF ResumeAnswered, Quiet, durable, At, CoreInv, Refers, QueueMoves
<1>2. call'[c].stage = "resumed" /\ call'[c].outcome = "none" /\ OneMoves(c)
    BY <1>1, Typed DEF ResumeAnswered, OneMoves, CallRecord
<1> QED
    BY <1>1, <1>2, QuietMoves DEF Steering, SteerStages, Delivering, Attempting

LEMMA RequestStartOrdinary ==
    ASSUME TypeOK, CoreInv, NEW c \in Call, RequestStart(c) PROVE Ordinary(c)
<1>1. /\ Quiet /\ UNCHANGED loaded /\ UNCHANGED doubtful /\ QueueMoves(c)
      /\ ~At(c, {"started"}) /\ call[c].outcome = "none" /\ At(c, Delivering)
    BY DEF RequestStart, Quiet, durable, server, At, CoreInv, Refers, QueueMoves, Delivering
<1>2. CASE EndsWith(c, "aborted", None)
    BY <1>1, <1>2, QuietEnds DEF Outcomes
<1>3. CASE Goes(c, "sent")
  <2>1. /\ call'[c].stage = "sent" /\ call'[c].outcome = "none" /\ OneMoves(c)
        /\ call'[c].thread = call[c].thread
    BY <1>1, <1>3, GoesMoves, MovedOne DEF OneMoves, Stages
  <2> QED
    BY <1>1, <2>1, QuietMoves DEF Steering, SteerStages, Attempting
<1> QED
    BY <1>2, <1>3 DEF RequestStart

LEMMA SteerSendsOrdinary ==
    ASSUME TypeOK, CoreInv, SteerInv, NEW c \in Call, SteerSends(c) PROVE Ordinary(c)
<1>1. /\ Quiet /\ UNCHANGED loaded /\ UNCHANGED doubtful /\ QueueMoves(c) /\ UNCHANGED steerQueue
      /\ ~At(c, {"started"}) /\ call[c].outcome = "none" /\ At(c, Attempting) /\ Steers(c)
    BY DEF SteerSends, Quiet, durable, server, At, CoreInv, Refers, QueueMoves, Attempting,
           SteerInv, Steering, SteerStages
<1>2. /\ call'[c].stage = "steerSent" /\ call'[c].outcome = "none" /\ OneMoves(c)
      /\ call'[c].state = call[c].state
    BY <1>1, GoesMoves, MovedOne DEF SteerSends, OneMoves, Stages
<1> QED
    BY <1>1, <1>2, QuietMoves DEF Delivering

LEMMA StatementFailsOrdinary ==
    ASSUME TypeOK, NEW c \in Call, StatementFails(c) PROVE Ordinary(c)
<1>1. /\ Quiet /\ UNCHANGED loaded /\ UNCHANGED doubtful /\ QueueMoves(c)
      /\ ~At(c, {"started"}) /\ EndsWith(c, "error", None)
    BY DEF StatementFails, Quiet, durable, server, At, QueueMoves
<1> QED
    BY <1>1, QuietEnds DEF Outcomes

LEMMA StopWaitingOrdinary ==
    ASSUME TypeOK, NEW c \in Call, StopWaiting(c) PROVE Ordinary(c)
<1>1. /\ Quiet /\ UNCHANGED loaded /\ UNCHANGED doubtful /\ QueueMoves(c)
      /\ ~At(c, {"started"}) /\ EndsWith(c, "aborted", None)
    BY DEF StopWaiting, Quiet, durable, server, At, QueueMoves
<1> QED
    BY <1>1, QuietEnds DEF Outcomes

LEMMA AbortCallOrdinary ==
    ASSUME TypeOK, CoreInv, SteerInv, NEW c \in Call, AbortCall(c) PROVE Ordinary(c)
<1>1. /\ Quiet /\ UNCHANGED loaded /\ UNCHANGED doubtful /\ QueueMoves(c) /\ UNCHANGED steerQueue
      /\ call[c].outcome = "none" /\ (At(c, Steering) => Steers(c))
    BY DEF AbortCall, Quiet, durable, server, At, CoreInv, Refers, QueueMoves, SteerInv
<1>2. /\ call'[c].stage = call[c].stage /\ call'[c].outcome = "none" /\ OneMoves(c)
      /\ call'[c].state = call[c].state /\ call'[c].thread = call[c].thread
    BY <1>1, Typed DEF AbortCall, OneMoves, CallRecord
<1>3. PICK s : s = call[c].stage
    OBVIOUS
<1> QED
    BY <1>1, <1>2, <1>3, QuietMoves DEF At

LEMMA ThreadOfCall ==
    ASSUME TypeOK, CoreInv, NEW c \in Call, At(c, LockStages)
    PROVE  call[c].thread \in Thread
<1>1. call[c].thread \in 1..newest /\ newest \in 1..MaxThread /\ MaxThread \in Nat
    BY Typed, BoundAssumption DEF CoreInv, UnderLock, Thread
<1>2. call[c].thread \in 1..MaxThread
    BY <1>1
<1> QED
    BY <1>2 DEF Thread

\* Two calls are not under the lock at once.
LEMMA OneUnderLock ==
    ASSUME CoreInv, NEW c \in Call, At(c, LockStages), NEW d \in Call, At(d, LockStages)
    PROVE  c = d /\ active = None
    BY DEF CoreInv, UnderLock, HasLock

\* No receipt is found, so no turn has the message unless a fault hid it.
LEMMA LookupOrdinary ==
    ASSUME TypeOK, CoreInv, EvidenceInv, NEW c \in Call, Lookup(c) PROVE Ordinary(c)
<1>1. /\ Quiet /\ UNCHANGED loaded /\ UNCHANGED doubtful /\ QueueMoves(c)
      /\ ~At(c, {"started"}) /\ call[c].outcome = "none" /\ At(c, LockStages)
    BY DEF Lookup, Quiet, durable, server, At, CoreInv, Refers, QueueMoves, LockStages
<1>2. PICK th \in Thread : th = call[c].thread
    BY <1>1, ThreadOfCall
<1>3. /\ \A x \in FinalReceipt(th, Of(c)) :
            Known(x.turn) /\ native[x.turn].status = "completed" /\ PartOf(Of(c), x.turn)
      /\ \A x \in ErrorReceipt(th, Of(c)) : x.turn \in Turn /\ x.how \in {"failed", "lost"}
      /\ \A x \in OpenAttempt(th, Of(c)) : x.turn \in Turn
      /\ SteerConfirmed(th, Of(c)) => \E u \in Turn : PartOf(Of(c), u)
    BY FoundFacts DEF Known, OpenAttempt, SteerConfirmed
<1>4. ASSUME NEW x \in FinalReceipt(th, Of(c)), EndsWith(c, "answered", x.turn)
      PROVE  Ordinary(c)
    BY <1>1, <1>3, <1>4, QuietEnds DEF Outcomes, Known
<1>5. ASSUME NEW x \in ErrorReceipt(th, Of(c)), EndsWith(c, x.how, x.turn)
      PROVE  Ordinary(c)
    BY <1>1, <1>3, <1>5, QuietEnds DEF Outcomes
<1>6. ASSUME NEW x \in OpenAttempt(th, Of(c)), SteerConfirmed(th, Of(c)),
             EndsWith(c, "accepted", x.turn)
      PROVE  Ordinary(c)
    BY <1>1, <1>3, <1>6, QuietEnds DEF Outcomes
<1>7. ASSUME NEW s \in {"resuming", "reconciling"}, NEW t \in Turn, Reads(c, s, t)
      PROVE  Ordinary(c)
  <2>1. /\ call'[c].stage = s /\ call'[c].outcome = "none" /\ OneMoves(c)
    BY <1>1, <1>7, ReadsMoves, MovedOne DEF OneMoves, Stages
  <2> QED
    BY <1>1, <2>1, QuietMoves DEF Steering, SteerStages, Delivering, Attempting
<1>8. ASSUME Goes(c, "preparing"), OpenAttempt(th, Of(c)) = {},
             FinalReceipt(th, Of(c)) \cup ErrorReceipt(th, Of(c)) = {}
      PROVE  Ordinary(c)
  <2>1. /\ call'[c].stage = "preparing" /\ call'[c].outcome = "none" /\ OneMoves(c)
        /\ call'[c].thread = th
    BY <1>1, <1>2, <1>8, GoesMoves, MovedOne DEF OneMoves, Stages
  <2>2. ASSUME NEW t \in Turn, native[t].thread = th, PartOf(Of(c), t) PROVE <<Of(c), t>> \in doubtful
    <3>1. call[t].stage # "started"
      BY <1>1, OneUnderLock DEF At, LockStages, Turn
    <3>2. active = None
      BY <1>1, OneUnderLock
    <3>3. ~Evident(Of(c), t)
      BY <1>8, <2>2, <3>1, <3>2 DEF Evident, InHand
    <3> QED
      BY <2>2, <3>3, MessageType DEF EvidenceInv
  <2>3. Unseen(Of(c), th)
    BY <2>2 DEF Unseen
  <2>4. Truly(c)' /\ Still /\ ReceiptsKept /\ AttemptsKept
    BY <1>1, <2>1, QuietStill DEF Truly
  <2> QED
    BY <1>1, <1>8, <2>1, <2>3, <2>4 DEF Ordinary, Plain, At, Steering, SteerStages, Attempting
<1>9. LostReceipt(th, Of(c)) \subseteq ErrorReceipt(th, Of(c))
    BY DEF LostReceipt
<1>10. \/ \E x \in FinalReceipt(th, Of(c)) : EndsWith(c, "answered", x.turn)
       \/ \E x \in LostReceipt(th, Of(c)) : Reads(c, "resuming", x.turn)
       \/ \E x \in ErrorReceipt(th, Of(c)) : EndsWith(c, x.how, x.turn)
       \/ \E x \in OpenAttempt(th, Of(c)) :
             \/ SteerConfirmed(th, Of(c)) /\ EndsWith(c, "accepted", x.turn)
             \/ Reads(c, "reconciling", x.turn)
       \/ /\ Goes(c, "preparing") /\ OpenAttempt(th, Of(c)) = {}
          /\ FinalReceipt(th, Of(c)) \cup ErrorReceipt(th, Of(c)) = {}
    BY <1>2 DEF Lookup, Reads
<1> QED
    BY <1>3, <1>4, <1>5, <1>6, <1>7, <1>8, <1>9, <1>10

\* What a receipt of a steered message says of it.
LEMMA ReconciledOrdinary ==
    ASSUME TypeOK, CoreInv, NEW c \in Call, NEW th, NEW t \in Turn, t = call[c].turn, Known(t),
           Reconciled(c, th), ~At(c, {"started"}), Still, UNCHANGED doubtful, QueueMoves(c)
    PROVE  Ordinary(c)
<1>1. PICK e : e = Event(th, Of(c), "confirmed", t, "steer")
    OBVIOUS
<1>2. e.key = "confirmed"
    BY <1>1 DEF Event
<1>3. ReceiptsKept /\ AttemptsKept
    BY <1>1, <1>2, SaveKeeps DEF Reconciled
<1>4. CASE Delivered(c)
  <2>1. EndsWith(c, "accepted", t) /\ PartOf(Of(c), t)
    BY <1>4 DEF Reconciled, Delivered, PartOf
  <2> QED
    BY <1>3, <2>1, OrdinaryEnds DEF Outcomes
<1>5. CASE ~Delivered(c)
  <2>1. EndsWith(c, "unconfirmed", t)
    BY <1>5 DEF Reconciled
  <2> QED
    BY <1>3, <2>1, OrdinaryEnds DEF Outcomes
<1> QED
    BY <1>4, <1>5

LEMMA ReconcileOrdinary ==
    ASSUME TypeOK, CoreInv, NEW c \in Call, Reconcile(c) PROVE Ordinary(c)
<1>1. /\ Still /\ UNCHANGED doubtful /\ QueueMoves(c) /\ ~At(c, {"started"})
      /\ Reconciled(c, call[c].thread)
    BY DEF Reconcile, Still, server, QueueMoves, At
<1>2. call[c].turn \in Turn /\ Known(call[c].turn)
    BY DEF Reconcile, CoreInv, UnderLock, Known, At
<1> QED
    BY <1>1, <1>2, ReconciledOrdinary

LEMMA SteerReconcileOrdinary ==
    ASSUME TypeOK, CoreInv, SteerInv, NEW c \in Call, SteerReconcile(c) PROVE Ordinary(c)
<1>1. PICK o \in State : o = call[c].state /\ At(c, Steering) /\ Steers(c) /\ At(c, {"steerReading"})
    BY SteeredFacts DEF SteerReconcile, At, SteerStages, Steering, SteerInv
<1>2. /\ UNCHANGED doubtful /\ QueueMoves(c) /\ ~At(c, {"started"})
      /\ Reconciled(c, state[o].thread)
      /\ state' \in {state, [state EXCEPT ![o].pendingSteer = None]}
      /\ UNCHANGED <<native, newest, active, loaded>>
    BY <1>1 DEF SteerReconcile, server, QueueMoves, At
<1>3. Still
    BY <1>2, PendingStill DEF Still
<1>4. call[c].turn \in Turn /\ Known(call[c].turn)
    BY <1>1 DEF CoreInv, UnderLock, Known, At
<1> QED
    BY <1>2, <1>3, <1>4, ReconciledOrdinary

LEMMA SteerRestartsOrdinary ==
    ASSUME TypeOK, CoreInv, SteerInv, NEW c \in Call, SteerRestarts(c) PROVE Ordinary(c)
<1>1. /\ At(c, SteerStages) /\ Steers(c) /\ Restarts(c) /\ LeaveSteering(c) /\ ~At(c, {"started"})
      /\ Quiet /\ UNCHANGED loaded /\ UNCHANGED doubtful
    BY DEF SteerRestarts, At, SteerStages, Steering, SteerInv, Quiet, durable, server
<1>2. QueueMoves(c) /\ call[c].outcome = "none"
    BY <1>1, SteeredFacts DEF QueueMoves
<1>3. call'[c].stage = "entering" /\ call'[c].outcome = "none" /\ OneMoves(c)
    BY <1>1, <1>2, RestartsMoves, MovedOne DEF OneMoves
<1> QED
    BY <1>1, <1>2, <1>3, QuietMoves DEF Steering, SteerStages, Delivering, Attempting

LEMMA SteerConfirmsOrdinary ==
    ASSUME TypeOK, CoreInv, SteerInv, NEW c \in Call, SteerConfirms(c) PROVE Ordinary(c)
<1>1. PICK o \in State : /\ o = call[c].state /\ Steers(c) /\ Holds(o)
                         /\ PartOf(Of(c), state[o].turn) /\ call[c].outcome = "none"
                         /\ ~At(c, {"started"})
    BY SteeredFacts DEF SteerConfirms, At, SteerStages, Steering, SteerInv, CoreInv, Refers
<1>2. PICK t \in Turn : t = state[o].turn
    BY <1>1, HeldFacts
<1>3. PICK e : e = Event(state[o].thread, Of(c), "confirmed", t, "steer")
    OBVIOUS
<1>4. e.key = "confirmed"
    BY <1>3 DEF Event
<1>5. /\ UNCHANGED doubtful /\ QueueMoves(c) /\ UNCHANGED <<native, newest, active, loaded>>
      /\ state' \in {state, [state EXCEPT ![o].pendingSteer = None]}
      /\ store' \in {store, Save(store, e)}
      /\ \/ EndsWith(c, "accepted", t)
         \/ call' = [call EXCEPT ![c] = TakesOver(c, o)]
         \/ EndsWith(c, "unconfirmed", t)
    BY <1>3, <1>1, <1>2 DEF SteerConfirms, server, QueueMoves
<1>6. Still /\ ReceiptsKept /\ AttemptsKept
    BY <1>4, <1>5, PendingStill, SaveKeeps DEF Still
<1>7. CASE EndsWith(c, "accepted", t)
    BY <1>1, <1>2, <1>5, <1>6, <1>7, OrdinaryEnds DEF Outcomes
<1>8. CASE EndsWith(c, "unconfirmed", t)
    BY <1>1, <1>5, <1>6, <1>8, OrdinaryEnds DEF Outcomes
<1>9. CASE call' = [call EXCEPT ![c] = TakesOver(c, o)]
  <2>1. call'[c].stage \in {"waiting", "noting"} /\ call'[c].outcome = "none" /\ OneMoves(c)
    BY <1>1, <1>9, WaitsRecord, Typed DEF OneMoves
  <2> QED
    BY <1>1, <1>5, <1>6, <2>1, OrdinaryMoves DEF Steering, SteerStages, Delivering, Attempting
<1> QED
    BY <1>5, <1>7, <1>8, <1>9

LEMMA NoteOrdinary ==
    ASSUME TypeOK, CoreInv, ToldInv, NEW c \in Call, Note(c) PROVE Ordinary(c)
<1>1. /\ Still /\ UNCHANGED doubtful /\ QueueMoves(c)
    BY DEF Note, Still, server, QueueMoves
<1>2. PICK o \in State : /\ o = call[c].note /\ Holds(o) /\ PartOf(Of(c), state[o].turn)
                         /\ At(c, Launched) /\ ~Unsettled(o)
    BY Zero, Typed DEF Note, CoreInv, Refers, CallRecord
<1>3. PICK t \in Turn : /\ t = state[o].turn /\ Known(t)
                        /\ state[o].settled = "answered" => native[t].status = "completed"
                        /\ state[o].settled \in {"answered", "failed", "lost"}
    BY <1>2, HeldFacts
<1>4. ReceiptsKept /\ AttemptsKept
  <2>1. PICK key \in {"final", "error"} : key = IF state[o].settled = "answered" THEN "final" ELSE "error"
    OBVIOUS
  <2>2. PICK e : e = Event(state[o].thread, Of(c), key, t, state[o].settled)
    OBVIOUS
  <2>3. store' \in {store, Save(store, e)}
    BY <1>2, <1>3, <2>1, <2>2 DEF Note, TurnReceipt
  <2>4. e.key = key
    BY <2>2 DEF Event
  <2> QED
    BY <2>3, <2>4, SaveKeeps
<1>5. PICK out \in Outcomes :
         /\ out = "answered" => native[t].status = "completed"
         /\ out # "accepted"
         /\ call' = [call EXCEPT ![c] = [IF At(c, {"noting"}) THEN Ends(c, out, t) ELSE call[c]
                                            EXCEPT !.note = None]]
  <2>1. /\ state[o].settled \in Outcomes /\ state[o].settled # "accepted"
        /\ (IF state[o].settled = "answered" THEN "error" ELSE state[o].settled)
               \in Outcomes \ {"answered", "accepted"}
    BY <1>3 DEF Outcomes
  <2> QED
    BY <1>2, <1>3, <2>1 DEF Note
<1>6. PICK q \in CallRecord : q = IF At(c, {"noting"}) THEN Ends(c, out, t) ELSE call[c]
    BY EndsRecord, Typed
<1>7. PICK r \in CallRecord : /\ call' = [call EXCEPT ![c] = r]
                              /\ r.stage = q.stage /\ r.turn = q.turn /\ r.outcome = q.outcome
    BY <1>5, <1>6, Unnoted
<1>8. call'[c] = r /\ OneMoves(c)
    BY <1>7, Typed DEF OneMoves
<1>9. Truly(c)'
  <2>1. CASE At(c, {"noting"})
    <3>1. r.outcome = out /\ r.turn = t
      BY <1>6, <1>7, <2>1, EndsRecord
    <3> QED
      BY <1>1, <1>2, <1>3, <1>5, <1>8, <3>1 DEF Truly, Still, Known, PartOf
  <2>2. CASE ~At(c, {"noting"})
    <3>1. r.outcome = call[c].outcome /\ r.turn = call[c].turn /\ Truly(c)
      BY <1>6, <1>7, <2>2 DEF ToldInv
    <3> QED
      BY <1>1, <1>8, <3>1 DEF Truly, Still, Known, PartOf
  <2> QED
    BY <2>1, <2>2
<1>10. call'[c].stage \in Launched
    BY <1>2, <1>6, <1>7, <1>8, EndsRecord DEF At, Launched
<1>11. ~At(c, {"started"})
    BY <1>2 DEF At, Launched
<1> QED
    BY <1>1, <1>4, <1>8, <1>9, <1>10, <1>11
       DEF Ordinary, Plain, At, Launched, Steering, SteerStages, Delivering, Attempting

\* A steer that does not begin an attempt.
LEMMA SteerBeginsOrdinary ==
    ASSUME TypeOK, CoreInv, NEW c \in Call, SteerBegins(c), ~At(c, {"steerReady"})' PROVE Ordinary(c)
<1>1. PICK o \in State : /\ o = call[c].state /\ Holds(o) /\ Steers(c) /\ call[c].outcome = "none"
                         /\ ~At(c, {"started"})
    BY SteeredFacts DEF SteerBegins, At, SteerStages
<1>2. PICK th \in Thread : th = state[o].thread
    BY <1>1, HeldFacts
<1>3. PICK m \in Message : m = Of(c)
    BY MessageType
<1>4. /\ UNCHANGED loaded /\ UNCHANGED doubtful
      /\ UNCHANGED <<state, store>> => Quiet
      /\ LeaveSteering(c) \/ UNCHANGED steerQueue => QueueMoves(c)
    BY <1>1 DEF SteerBegins, server, Quiet, QueueMoves
<1>5. Goes(c, "steerReady") => At(c, {"steerReady"})'
    BY GoesMoves, MovedOne DEF At, Stages
<1>6. CASE Restarts(c) /\ LeaveSteering(c) /\ UNCHANGED <<state, store>>
  <2>1. call'[c].stage = "entering" /\ call'[c].outcome = "none" /\ OneMoves(c)
    BY <1>1, <1>6, RestartsMoves, MovedOne DEF OneMoves
  <2> QED
    BY <1>1, <1>4, <1>6, <2>1, QuietMoves DEF Steering, SteerStages, Delivering, Attempting
<1>7. CASE EndsWith(c, "unconfirmed", None) /\ LeaveSteering(c) /\ UNCHANGED <<state, store>>
    BY <1>1, <1>4, <1>7, QuietEnds DEF Outcomes
<1>8. ASSUME NEW x \in First(Duplicate(th, m)), EndsWith(c, Told(x), x.turn), LeaveSteering(c),
             UNCHANGED <<state, store>>
      PROVE  Ordinary(c)
  <2>1. /\ Known(x.turn) /\ PartOf(m, x.turn) /\ Told(x) \in Outcomes
        /\ Told(x) = "answered" => native[x.turn].status = "completed"
    BY <1>3, DuplicateFacts DEF Outcomes
  <2>2. PICK out \in Outcomes, u \in Turn : out = Told(x) /\ u = x.turn
    BY <2>1 DEF Known
  <2> QED
    BY <1>1, <1>3, <1>4, <1>8, <2>1, <2>2, QuietEnds
<1>9. ASSUME NEW x \in OpenAttempt(th, m), Reads(c, "steerReading", x.turn),
             UNCHANGED <<steerQueue, state, store>>
      PROVE  Ordinary(c)
  <2>1. x.turn \in Turn
    BY <1>3, FoundFacts DEF OpenAttempt, Known
  <2>2. call'[c].stage = "steerReading" /\ call'[c].outcome = "none" /\ OneMoves(c)
        /\ call'[c].state = call[c].state
    BY <1>1, <1>9, <2>1, ReadsMoves, MovedOne DEF OneMoves, Stages
  <2> QED
    BY <1>1, <1>4, <1>9, <2>2, QuietMoves DEF Delivering, Attempting
<1> QED
    BY <1>1, <1>2, <1>3, <1>5, <1>6, <1>7, <1>8, <1>9 DEF SteerBegins, Reads
----------------------------------------------------------------------------
(* The other invariants: a turn is asked for *)

\* A thread that was not created yet has no turn and no receipt.
LEMMA FreshThread ==
    ASSUME TypeOK, CoreInv, NEW th, th \notin 1..newest, NEW m
    PROVE  Unseen(m, th) /\ OpenAttempt(th, m) = {}
<1>1. \A t \in Turn : native[t].status # "none" => native[t].thread # th
    BY DEF CoreInv, Born, Turn
<1>2. \A t \in Turn : native[t].status = "none" => ~PartOf(m, t)
    BY DEF CoreInv, Born, Turn, PartOf
<1>3. \A x \in store : x.thread # th
    BY <1>1 DEF CoreInv, ReceiptOK, Known
<1> QED
    BY <1>1, <1>2, <1>3 DEF Unseen, OpenAttempt, Found

\* The call that holds the lock goes on, on its thread or on a new one.
LEMMA GoesOnRest ==
    ASSUME TypeOK, CoreInv, RestInv, NEW c \in Call, At(c, {"preparing", "sent"}),
           OneMoves(c), call'[c].stage = "starting", call'[c].outcome = call[c].outcome,
           call'[c].thread = call[c].thread \/ call'[c].thread \notin 1..newest,
           TurnsStay, newest' \in Nat, newest <= newest',
           UNCHANGED <<active, state, steerQueue, store, doubtful>>,
           \A t \in Turn : native'[t].status = "running" /\ native'[t].thread \in loaded' =>
              native[t].status = "running" /\ native[t].thread \in loaded
    PROVE  RestInv'
<1>0. /\ SteerInv /\ ToldInv /\ LoadedInv /\ TurnsDoNotOverlap /\ EvidenceInv /\ PromptNotRepeated
      /\ call[c].outcome = "none" /\ Grows
    BY TurnsStayFacts DEF RestInv, CoreInv, Refers, At
<1>1. /\ \A o \in State : StateKept(o)
      /\ \A t \in Turn : NativeGrows(t)
    BY <1>0 DEF Grows
<1>2. \A d \in Call : call[d].stage = "started" => call'[d] = call[d]
    BY DEF OneMoves, At
<1>3. SteerInv'
    BY <1>0, SteerFrame DEF QueueMoves, At, Steering, SteerStages
<1>4. ToldInv'
  <2>1. Truly(c)'
    BY <1>0 DEF Truly
  <2> QED
    BY <1>0, <1>1, <2>1, ToldFrame DEF OneMoves
<1>5. LoadedInv'
  <2>1. \A t \in Turn : \/ active # None /\ state[active].turn = t
                        \/ call[t].stage = "started" => Watched(t)'
    BY <1>2 DEF Watched, Turn
  <2>2. \A t \in Turn : active # None /\ state[active].turn = t => Watched(t)'
    BY DEF Watched
  <2> QED
    BY <1>0, <1>1, <2>1, <2>2, LoadedFrame
<1>6. TurnsDoNotOverlap'
    BY <1>0, <1>1, OverlapFrame DEF TurnsStay, Ended
<1>7. EvidenceInv' /\ PromptNotRepeated'
  <2>1. ReceiptsKept /\ AttemptsKept
    BY DEF ReceiptsKept, AttemptsKept, FinalReceipt, ErrorReceipt, OpenAttempt, Found
  <2>2. \A t \in Turn, m \in Message : InHand(m, t) => Evident(m, t)'
    BY <1>2 DEF InHand, Evident, Turn, Of
  <2>3. At(c, Delivering)' => \/ At(c, Delivering) /\ call'[c].thread = call[c].thread
                              \/ /\ Unseen(Of(c), call'[c].thread)
                                 /\ OpenAttempt(call'[c].thread, Of(c)) = {}
    BY FreshThread DEF At, Delivering
  <2>4. \A d \in Call : At(d, Delivering)' =>
          \/ At(d, Delivering) /\ call'[d].thread = call[d].thread
          \/ /\ Unseen(Of(d), call'[d].thread)
             /\ OpenAttempt(call'[d].thread, Of(d)) = {}
    BY <2>3 DEF OneMoves, At
  <2>5. \A d \in Call : At(d, Attempting)' => At(d, Attempting) /\ call'[d].state = call[d].state
    BY DEF OneMoves, At, Attempting
  <2> QED
    BY <1>0, <1>1, <2>1, <2>2, <2>4, <2>5, EvidenceFrame DEF TurnsStay
<1> QED
    BY <1>0, <1>3, <1>4, <1>5, <1>6, <1>7 DEF RestInv

\* The new thread is not one that a turn runs on.
LEMMA NewThread ==
    ASSUME TypeOK, CoreInv, NEW S, loaded' \subseteq S \cup {newest'}, S \subseteq loaded,
           newest' = newest + 1, newest < MaxThread, UNCHANGED native
    PROVE  /\ newest' \in Nat /\ newest <= newest' /\ newest' \notin 1..newest /\ newest' \in Thread
           /\ \A t \in Turn : native'[t].status = "running" /\ native'[t].thread \in loaded' =>
                 native[t].status = "running" /\ native[t].thread \in loaded
<1>1. newest \in Nat /\ newest \in 1..MaxThread /\ MaxThread \in Nat
    BY Typed, BoundAssumption DEF Thread
<1>2. newest' \in Nat /\ newest <= newest' /\ newest' \notin 1..newest /\ newest' \in Thread
    BY <1>1 DEF Thread
<1>3. \A t \in Turn : native[t].status # "none" => native[t].thread \in 1..newest
    BY DEF CoreInv, Born, Turn
<1> QED
    BY <1>2, <1>3

LEMMA PrepareRest ==
    ASSUME TypeOK, CoreInv, RestInv, NEW c \in Call, Prepare(c) PROVE RestInv'
<1>1. /\ At(c, {"preparing", "sent"}) /\ UNCHANGED <<active, state, steerQueue, store, doubtful>>
    BY DEF Prepare, At
<1>2. CASE /\ Goes(c, "starting") /\ loaded' = loaded \cup {call[c].thread}
           /\ native' = IF call[c].thread \in loaded THEN native ELSE Interrupted(call[c].thread)
           /\ UNCHANGED newest
  <2>1. /\ call'[c].stage = "starting" /\ call'[c].outcome = call[c].outcome
        /\ call'[c].thread = call[c].thread /\ OneMoves(c)
    BY <1>2, GoesMoves, MovedOne DEF OneMoves, Stages
  <2>2. TurnsStay
    BY <1>2, InterruptedFacts, Typed DEF TurnsStay, Ended
  <2>3. \A t \in Turn : native'[t].status = "running" /\ native'[t].thread \in loaded' =>
           native[t].status = "running" /\ native[t].thread \in loaded
    <3>1. CASE call[c].thread \in loaded
      BY <1>2, <3>1
    <3>2. CASE call[c].thread \notin loaded
      BY <1>2, <3>2, InterruptedFacts
    <3> QED
      BY <3>1, <3>2
  <2>4. newest' \in Nat /\ newest <= newest'
    BY <1>2, Typed DEF Thread
  <2> QED
    BY <1>1, <2>1, <2>2, <2>3, <2>4, GoesOnRest
<1>3. CASE Rollover(c) /\ UNCHANGED native
  <2>1. /\ newest' \in Nat /\ newest <= newest' /\ newest' \notin 1..newest /\ newest' \in Thread
        /\ \A t \in Turn : native'[t].status = "running" /\ native'[t].thread \in loaded' =>
              native[t].status = "running" /\ native[t].thread \in loaded
    BY <1>3, NewThread DEF Rollover
  <2>2. PICK th \in Thread : th = newest'
    BY <2>1
  <2>3. Reroutes(c, th)
    BY <1>3, <2>2 DEF Rollover, Reroutes
  <2>4. /\ call'[c].stage = "starting" /\ call'[c].outcome = call[c].outcome
        /\ call'[c].thread = th /\ OneMoves(c)
    BY <2>3, ReroutesMoves, MovedOne DEF OneMoves
  <2>5. TurnsStay
    BY <1>3, Typed DEF TurnsStay
  <2> QED
    BY <1>1, <2>1, <2>2, <2>4, <2>5, GoesOnRest
<1> QED
    BY <1>2, <1>3 DEF Prepare

LEMMA StartRefusedRest ==
    ASSUME TypeOK, CoreInv, RestInv, NEW c \in Call, StartRefused(c) PROVE RestInv'
<1>1. /\ At(c, {"preparing", "sent"}) /\ ~At(c, {"started"})
      /\ UNCHANGED <<active, state, steerQueue, store, doubtful, native>>
    BY DEF StartRefused, At, server
<1>2. CASE EndsWith(c, "error", None) /\ UNCHANGED <<thread, newest, loaded, faults>>
  <2>1. Quiet /\ UNCHANGED loaded /\ UNCHANGED doubtful /\ QueueMoves(c)
    BY <1>1, <1>2 DEF Quiet, QueueMoves
  <2> QED
    BY <1>1, <1>2, <2>1, QuietEnds, OrdinaryStep DEF Outcomes
<1>3. CASE RolloverArchived(c)
  <2>1. /\ newest' \in Nat /\ newest <= newest' /\ newest' \notin 1..newest /\ newest' \in Thread
        /\ \A t \in Turn : native'[t].status = "running" /\ native'[t].thread \in loaded' =>
              native[t].status = "running" /\ native[t].thread \in loaded
    <3>1. /\ loaded' \subseteq (loaded \ {call[c].thread}) \cup {newest'}
          /\ loaded \ {call[c].thread} \subseteq loaded
          /\ newest' = newest + 1 /\ newest < MaxThread
      BY <1>3 DEF RolloverArchived
    <3> QED
      BY <1>1, <3>1, NewThread
  <2>2. PICK th \in Thread : th = newest'
    BY <2>1
  <2>3. ReroutesOnce(c, th)
    BY <1>3, <2>2 DEF RolloverArchived, ReroutesOnce
  <2>4. /\ call'[c].stage = "starting" /\ call'[c].outcome = call[c].outcome
        /\ call'[c].thread = th /\ OneMoves(c)
    BY <2>3, ReroutesMoves, MovedOne DEF OneMoves
  <2>5. TurnsStay
    BY <1>1, Typed DEF TurnsStay
  <2> QED
    BY <1>1, <2>1, <2>2, <2>4, <2>5, GoesOnRest
<1> QED
    BY <1>2, <1>3 DEF StartRefused

\* A turn is registered: nothing else is active, and its call no longer has the only trace of it.
LEMMA RegisterRest ==
    ASSUME TypeOK, CoreInv, RestInv, NEW c \in Call, At(c, {"resumed", "started"}),
           NEW t \in Turn, NEW g, Register(c, t, g), At(c, {"started"}) => t = c,
           call' = [call EXCEPT ![c] = Waits(c, c)],
           \A u \in Turn \ {t} : native[u].status = "running" /\ native[u].thread \in loaded' =>
              native[u].thread \in loaded,
           UNCHANGED <<steerQueue, newest, store, native, doubtful>>
    PROVE  RestInv'
<1>0. /\ SteerInv /\ ToldInv /\ LoadedInv /\ TurnsDoNotOverlap /\ EvidenceInv /\ PromptNotRepeated
      /\ call[c].outcome = "none" /\ At(c, LockStages) /\ ~Holds(c) /\ active = None
    BY DEF RestInv, CoreInv, Refers, Born, UnderLock, At, LockStages, Launched
<1>1. /\ active' = c /\ c # None /\ c \in State /\ state'[c].turn = t /\ state'[c].message = Of(c)
      /\ \A o \in State \ {c} : state'[o] = state[o]
    BY Typed, Zero DEF Register, State
<1>2. /\ \A o \in State : StateKept(o)
      /\ \A u \in Turn : NativeGrows(u)
    BY <1>0, <1>1 DEF StateKept, NativeGrows
<1>3. /\ call'[c].stage = "waiting" /\ call'[c].outcome = "none" /\ OneMoves(c)
    BY <1>0, <1>1, WaitsRecord, Typed DEF OneMoves
<1>4. \A d \in Call : call[d].stage = "started" => d = c
    BY <1>0, OneUnderLock DEF At, LockStages
<1>5. SteerInv'
    BY <1>0, <1>3, SteerFrame DEF QueueMoves, At, Steering, SteerStages
<1>6. ToldInv'
  <2>1. Truly(c)'
    BY <1>3 DEF Truly
  <2> QED
    BY <1>0, <1>2, <1>3, <2>1, ToldFrame DEF OneMoves
<1>7. LoadedInv'
  <2>1. Watched(t)'
    BY <1>1 DEF Watched
  <2>2. \A u \in Turn \ {t} : call[u].stage # "started"
    BY <1>4 DEF At, Turn
  <2> QED
    BY <1>0, <1>2, <2>1, <2>2, LoadedFrame
<1>8. TurnsDoNotOverlap'
    BY <1>0, <1>2, OverlapFrame
<1>9. EvidenceInv' /\ PromptNotRepeated'
  <2>1. ReceiptsKept /\ AttemptsKept
    BY DEF ReceiptsKept, AttemptsKept, FinalReceipt, ErrorReceipt, OpenAttempt, Found
  <2>2. ASSUME NEW u \in Turn, NEW m \in Message, InHand(m, u) PROVE Evident(m, u)'
    <3>1. call[u].stage = "started" /\ Of(u) = m
      BY <1>0, <2>2 DEF InHand
    <3>2. u = c /\ t = c
      BY <1>4, <3>1 DEF Turn, At
    <3> QED
      BY <1>1, <3>1, <3>2 DEF InHand, Evident
  <2>3. \A d \in Call : At(d, Delivering)' => At(d, Delivering) /\ call'[d].thread = call[d].thread
    BY <1>3 DEF OneMoves, At, Delivering
  <2>4. \A d \in Call : At(d, Attempting)' => At(d, Attempting) /\ call'[d].state = call[d].state
    BY <1>3 DEF OneMoves, At, Attempting
  <2> QED
    BY <1>0, <1>2, <2>1, <2>2, <2>3, <2>4, EvidenceFrame
<1> QED
    BY <1>5, <1>6, <1>7, <1>8, <1>9 DEF RestInv

LEMMA StartedRest ==
    ASSUME TypeOK, CoreInv, RestInv, NEW c \in Call, Started(c) PROVE RestInv'
<1>1. /\ At(c, {"resumed", "started"}) /\ c \in Turn /\ Register(c, c, "no")
      /\ call' = [call EXCEPT ![c] = Waits(c, c)]
      /\ UNCHANGED <<steerQueue, loaded, newest, store, native, doubtful>>
    BY DEF Started, At, Turn, durable, server
<1> QED
    BY <1>1, RegisterRest

LEMMA ResumedRest ==
    ASSUME TypeOK, CoreInv, RestInv, NEW c \in Call, Resumed(c) PROVE RestInv'
<1>1. PICK t \in Turn, g \in Settlements \ {"lost"} :
          t = call[c].turn /\ Register(c, t, g) /\ native[t].thread = call[c].thread
    BY ResumedFacts
<1>2. /\ At(c, {"resumed", "started"}) /\ ~At(c, {"started"})
      /\ call' = [call EXCEPT ![c] = Waits(c, c)]
      /\ UNCHANGED <<steerQueue, newest, store, native, doubtful>>
    BY DEF Resumed, At, durable, server
<1>3. \A u \in Turn \ {t} : native[u].status = "running" /\ native[u].thread \in loaded' =>
         native[u].thread \in loaded
    BY <1>1 DEF Resumed
<1> QED
    BY <1>1, <1>2, <1>3, RegisterRest
----------------------------------------------------------------------------
(* The other invariants: turns end *)

LEMMA TurnRest ==
    ASSUME TypeOK, CoreInv, RestInv, TurnsChange PROVE RestInv'
<1>0. /\ SteerInv /\ ToldInv /\ LoadedInv /\ TurnsDoNotOverlap /\ EvidenceInv /\ PromptNotRepeated
      /\ TurnsStay /\ UNCHANGED <<call, active, steerQueue, loaded, newest, store, doubtful>>
    BY DEF RestInv, TurnsChange
<1>1. \A o \in State : /\ state'[o].turn = state[o].turn /\ state'[o].message = state[o].message
                       /\ state'[o].thread = state[o].thread
                       /\ state[o].settled # "no" => state'[o].settled = state[o].settled
    BY SettlesBy DEF TurnsChange, SettledBy
<1>2. /\ \A o \in State : StateKept(o)
      /\ \A t \in Turn : NativeGrows(t)
    BY <1>0, <1>1 DEF StateKept, NativeGrows, TurnsStay, Ended
<1>3. SteerInv'
    BY <1>0 DEF SteerInv, At, Steers
<1>4. ToldInv'
    BY <1>0, <1>2, ToldFrame
<1>5. active \in State \cup {None}
    BY Typed
<1>6. LoadedInv'
    BY <1>0, <1>1, <1>2, <1>5, LoadedFrame DEF Watched, TurnsStay, Ended
<1>7. TurnsDoNotOverlap'
    BY <1>0, <1>2, OverlapFrame DEF TurnsStay, Ended
<1>8. EvidenceInv' /\ PromptNotRepeated'
  <2>1. ReceiptsKept /\ AttemptsKept
    BY <1>0 DEF ReceiptsKept, AttemptsKept, FinalReceipt, ErrorReceipt, OpenAttempt, Found
  <2>2. \A t \in Turn, m \in Message : InHand(m, t) => Evident(m, t)'
    BY <1>0, <1>1, <1>5 DEF InHand, Evident
  <2>3. /\ \A c \in Call : At(c, Delivering)' => At(c, Delivering) /\ call'[c].thread = call[c].thread
        /\ \A c \in Call : At(c, Attempting)' => At(c, Attempting) /\ call'[c].state = call[c].state
    BY <1>0 DEF At
  <2> QED
    BY <1>0, <1>2, <2>1, <2>2, <2>3, EvidenceFrame DEF TurnsStay
<1> QED
    BY <1>3, <1>4, <1>6, <1>7, <1>8 DEF RestInv

LEMMA IdleCloseRest ==
    ASSUME TypeOK, CoreInv, RestInv, IdleClose PROVE RestInv'
<1>0. /\ SteerInv /\ ToldInv /\ LoadedInv /\ TurnsDoNotOverlap /\ EvidenceInv /\ PromptNotRepeated
      /\ UNCHANGED <<call, active, state, steerQueue, store, native, doubtful>> /\ loaded' = {}
    BY DEF RestInv, IdleClose, durable
<1>1. SteerInv' /\ ToldInv' /\ TurnsDoNotOverlap' /\ PromptNotRepeated'
    BY <1>0 DEF SteerInv, At, Steers, ToldInv, Truly, Known, PartOf, TurnsDoNotOverlap,
                PromptNotRepeated
<1>2. LoadedInv'
    BY <1>0 DEF LoadedInv
<1>3. EvidenceInv'
    BY <1>0 DEF EvidenceInv, PartOf, Evident, At, Unseen, OpenAttempt, Found, FinalReceipt,
                ErrorReceipt, InHand
<1> QED
    BY <1>0, <1>1, <1>2, <1>3 DEF RestInv
LEMMA FinalizeRest ==
    ASSUME TypeOK, CoreInv, RestInv, Finalize PROVE RestInv'
<1>0. /\ SteerInv /\ ToldInv /\ LoadedInv /\ TurnsDoNotOverlap /\ EvidenceInv /\ PromptNotRepeated
      /\ UNCHANGED <<steerQueue, loaded, newest, native>> /\ active' = None
      /\ \A p \in State : /\ state'[p].turn = state[p].turn /\ state'[p].thread = state[p].thread
                          /\ state'[p].message = state[p].message
                          /\ state'[p].settled = state[p].settled
    BY FinalizeStates DEF RestInv, Finalize
<1>1. PICK o \in State :
              /\ o = active /\ Holds(o) /\ state[o].settled \in {"answered", "failed", "lost"}
              /\ \A c \in Call :
                    \/ call'[c] = call[c]
                    \/ At(c, {"waiting"}) /\ call'[c].stage = "noting" /\ call'[c].outcome = "none"
                    \/ /\ At(c, {"waiting"}) /\ call[c].state = o
                       /\ call'[c].stage = "done" /\ call'[c].outcome = state[o].settled
                       /\ call'[c].turn = state[o].turn
    BY FinalizeFacts DEF ToldDone
<1>2. PICK t \in Turn : /\ t = state[o].turn /\ Known(t) /\ state[o].thread = native[t].thread
                        /\ state[o].settled = "answered" => native[t].status = "completed"
    BY <1>1, HeldFacts
<1>3. /\ \A p \in State : StateKept(p)
      /\ \A u \in Turn : NativeGrows(u)
    BY <1>0 DEF StateKept, NativeGrows
<1>4. \A d \in Call : call'[d] = call[d] \/ call'[d].stage \in {"noting", "done"}
    BY <1>1
<1>5. \A d \in Call : call[d].stage = "started" => call'[d].stage = "started"
    BY <1>1 DEF At
<1>6. SteerInv'
    BY <1>0, <1>4 DEF SteerInv, At, Steers, Steering, SteerStages
<1>7. ToldInv'
  <2>1. ASSUME NEW d \in Call, At(d, {"waiting"}), call[d].state = o,
               call'[d].outcome = state[o].settled, call'[d].turn = t
        PROVE  Truly(d)'
    <3>1. PartOf(Of(d), t)
      BY <1>2, <2>1 DEF CoreInv, Refers
    <3> QED
      BY <1>0, <1>1, <1>2, <2>1, <3>1 DEF Truly, Known, PartOf
  <2>2. \A d \in Call : call'[d].outcome = "none" => Truly(d)'
    BY DEF Truly
  <2> QED
    BY <1>0, <1>1, <1>2, <1>3, <2>1, <2>2, ToldFrame
<1>8. LoadedInv'
  <2>1. native[t].status = "running" /\ native[t].thread \in loaded => Watched(t)'
    <3>1. ASSUME native[t].status = "running", native[t].thread \in loaded PROVE GivenUp(t)'
      <4>1. state[o].settled = "failed"
        BY <1>1, <1>2, <3>1, Zero DEF CoreInv, ActiveOK
      <4> QED
        BY <1>0, <1>2, <4>1 DEF GivenUp
    <3> QED
      BY <3>1 DEF Watched
  <2>2. \A u \in Turn : call[u].stage = "started" => Watched(u)'
    BY <1>5 DEF Watched, Turn
  <2> QED
    BY <1>0, <1>1, <1>2, <1>3, <2>1, <2>2, LoadedFrame
<1>9. TurnsDoNotOverlap'
    BY <1>0, <1>3, OverlapFrame
<1>10. EvidenceInv' /\ PromptNotRepeated'
  <2>1. PICK key \in {"final", "error"} : key = IF state[o].settled = "answered" THEN "final" ELSE "error"
    OBVIOUS
  <2>2. PICK e : e = Event(state[o].thread, state[o].message, key, t, state[o].settled)
    OBVIOUS
  <2>3. e.key = key /\ e.thread = state[o].thread /\ e.message = state[o].message
    BY <2>2 DEF Event
  <2>4. \/ store' = Save(store, e) /\ UNCHANGED doubtful
        \/ UNCHANGED store /\ doubtful' = doubtful \cup {<<state[o].message, state[o].turn>>}
    BY <1>1, <1>2, <2>1, <2>2 DEF Finalize, TurnReceipt
  <2>5. ReceiptsKept /\ AttemptsKept
    BY <2>3, <2>4, SaveKeeps
  <2>6. ASSUME NEW u \in Turn, NEW m \in Message, InHand(m, u)
        PROVE  Evident(m, u)' \/ <<m, u>> \in doubtful'
    <3>1. CASE call[u].stage = "started" /\ Of(u) = m
      BY <1>5, <3>1 DEF Evident, InHand, Turn, Of
    <3>2. CASE state[o].turn = u /\ state[o].message = m /\ store' = Save(store, e)
      <4>1. e \in store' /\ e.thread = native'[u].thread /\ e.message = m
        BY <1>0, <1>2, <2>3, <3>2 DEF Save
      <4>2. FinalReceipt(native[u].thread, m)' \cup ErrorReceipt(native[u].thread, m)' # {}
        BY <2>1, <2>3, <4>1 DEF FinalReceipt, ErrorReceipt, Found
      <4> QED
        BY <4>2 DEF Evident
    <3> QED
      BY <1>1, <2>4, <2>6, <3>1, <3>2 DEF InHand
  <2>7. /\ \A c \in Call : At(c, Delivering)' => At(c, Delivering) /\ call'[c].thread = call[c].thread
        /\ \A c \in Call : At(c, Attempting)' => At(c, Attempting) /\ call'[c].state = call[c].state
    BY <1>4 DEF At, Delivering, Attempting
  <2> QED
    BY <1>0, <1>3, <2>4, <2>5, <2>6, <2>7, EvidenceFrame
<1> QED
    BY <1>6, <1>7, <1>8, <1>9, <1>10 DEF RestInv

LEMMA DisconnectRest ==
    ASSUME TypeOK, CoreInv, RestInv, Disconnect PROVE RestInv'
<1>0. /\ SteerInv /\ ToldInv /\ LoadedInv /\ TurnsDoNotOverlap /\ EvidenceInv /\ PromptNotRepeated
      /\ UNCHANGED <<active, newest, store, native>> /\ loaded' = {} /\ LoseTurns
    BY DEF RestInv, Disconnect, durable, LoseTurns
<1>1. \A c \in Call : \/ ~At(c, Requesting) /\ call'[c] = call[c]
                      \/ /\ call'[c].stage = "done"
                         /\ call'[c].outcome \notin {"answered", "accepted"}
    BY DisconnectFacts DEF ToldDone
<1>2. \A p \in State : /\ state'[p].turn = state[p].turn /\ state'[p].message = state[p].message
                       /\ state'[p].thread = state[p].thread
                       /\ state[p].settled # "no" => state'[p].settled = state[p].settled
  <2>1. CASE Unsettled(active)
    <3>1. active \in State /\ state[active].settled = "no" /\ Settle(active, "lost")
      BY <1>0, <2>1, Typed DEF LoseTurns, Unsettled, Settle
    <3> QED
      BY <3>1, SettlesBy DEF SettledBy, Settlements
  <2>2. CASE ~Unsettled(active)
    BY <1>0, <2>2 DEF LoseTurns
  <2> QED
    BY <2>1, <2>2
<1>3. /\ \A p \in State : StateKept(p)
      /\ \A u \in Turn : NativeGrows(u)
    BY <1>0, <1>2 DEF StateKept, NativeGrows
<1>4. SteerInv'
  <2>1. ASSUME NEW d \in Call, At(d, Steering)' PROVE Steers(d)'
    <3>1. call'[d] = call[d] /\ ~At(d, Requesting) /\ At(d, Steering)
      BY <1>1, <2>1 DEF At, Steering, SteerStages
    <3>2. PICK p \in State : p = call[d].state /\ steerQueue[p] # <<>> /\ Head(steerQueue[p]) = d
      BY <1>0, <3>1, SteeredFacts DEF SteerInv, Steers, At, Steering
    <3>3. steerQueue'[p] = steerQueue[p]
      BY <3>1, <3>2 DEF Disconnect
    <3> QED
      BY <3>1, <3>2, <3>3 DEF Steers
  <2> QED
    BY <2>1 DEF SteerInv
<1>5. ToldInv'
  <2>1. \A d \in Call : call'[d].outcome \notin {"answered", "accepted"} => Truly(d)'
    BY DEF Truly
  <2> QED
    BY <1>0, <1>1, <1>3, <2>1, ToldFrame
<1>6. LoadedInv'
    BY <1>0 DEF LoadedInv
<1>7. TurnsDoNotOverlap'
    BY <1>0, <1>3, OverlapFrame
<1>8. EvidenceInv' /\ PromptNotRepeated'
  <2>1. ReceiptsKept /\ AttemptsKept
    BY <1>0 DEF ReceiptsKept, AttemptsKept, FinalReceipt, ErrorReceipt, OpenAttempt, Found
  <2>2. doubtful' = doubtful \cup {<<Of(c), c>> : c \in {d \in Call : At(d, Requesting) /\ At(d, {"started"})}}
    BY DEF Disconnect
  <2>3. \A d \in Call : At(d, {"started"}) => At(d, Requesting)
    BY DEF At, Requesting
  <2>4. ASSUME NEW u \in Turn, NEW m \in Message, InHand(m, u)
        PROVE  Evident(m, u)' \/ <<m, u>> \in doubtful'
    <3>1. CASE call[u].stage = "started" /\ Of(u) = m
      BY <2>2, <2>3, <3>1 DEF At, Turn
    <3>2. CASE active # None /\ state[active].turn = u /\ state[active].message = m
      BY <1>0, <1>2, <3>2, Typed DEF Evident, InHand
    <3> QED
      BY <2>4, <3>1, <3>2 DEF InHand
  <2>5. /\ \A c \in Call : At(c, Delivering)' => At(c, Delivering) /\ call'[c].thread = call[c].thread
        /\ \A c \in Call : At(c, Attempting)' => At(c, Attempting) /\ call'[c].state = call[c].state
    BY <1>1 DEF At, Delivering, Attempting
  <2> QED
    BY <1>0, <1>3, <2>1, <2>2, <2>4, <2>5, EvidenceFrame
<1> QED
    BY <1>4, <1>5, <1>6, <1>7, <1>8 DEF RestInv

LEMMA CrashRest ==
    ASSUME TypeOK, CoreInv, RestInv, Crash PROVE RestInv'
<1>0. /\ ToldInv /\ TurnsDoNotOverlap /\ EvidenceInv /\ PromptNotRepeated
      /\ UNCHANGED <<state, store, native>> /\ loaded' = {}
      /\ doubtful' = doubtful \cup {<<Of(c), c>> : c \in {d \in Call : At(d, {"started"})}}
                              \cup {<<state[o].message, state[o].turn>> : o \in {active} \ {None}}
    BY DEF RestInv, Crash, durable
<1>1. \A c \in Call :
         \/ /\ call'[c].stage \in {"idle", "done"}
            /\ call'[c].outcome = call[c].outcome /\ call'[c].turn = call[c].turn
         \/ call'[c].stage = "done" /\ call'[c].outcome = "crashed"
    BY CrashFacts DEF At
<1>2. SteerInv' /\ LoadedInv' /\ TurnsDoNotOverlap' /\ PromptNotRepeated'
    BY <1>0, <1>1 DEF SteerInv, At, Steering, SteerStages, LoadedInv, TurnsDoNotOverlap,
                      PromptNotRepeated
<1>3. ToldInv'
  <2>1. \A d \in Call : call'[d].outcome = "crashed" => Truly(d)'
    BY DEF Truly
  <2>2. \A u \in Turn : NativeGrows(u)
    BY <1>0 DEF NativeGrows
  <2> QED
    BY <1>0, <1>1, <2>1, <2>2, ToldFrame
<1>4. EvidenceInv'
  <2>1. ASSUME NEW t \in Turn, NEW m \in Message, PartOf(m, t)'
        PROVE  Evident(m, t)' \/ <<m, t>> \in doubtful'
    <3>1. Evident(m, t) \/ <<m, t>> \in doubtful
      BY <1>0, <2>1 DEF EvidenceInv, PartOf
    <3>2. InHand(m, t) => <<m, t>> \in doubtful'
      BY <1>0 DEF InHand, At, Turn
    <3>3. Evident(m, t) => InHand(m, t) \/ Evident(m, t)'
      BY <1>0 DEF Evident, OpenAttempt, FinalReceipt, ErrorReceipt, Found
    <3> QED
      BY <1>0, <3>1, <3>2, <3>3
  <2>2. \A c \in Call : ~At(c, Delivering)' /\ ~At(c, Attempting)'
    BY <1>1 DEF At, Delivering, Attempting
  <2> QED
    BY <2>1, <2>2 DEF EvidenceInv
<1> QED
    BY <1>2, <1>3, <1>4 DEF RestInv
----------------------------------------------------------------------------
(* The other invariants: a message becomes part of a turn *)

\* The prompt was on none of the turns of the thread, unless a fault hid it.
LEMMA ServerStartsRest ==
    ASSUME TypeOK, CoreInv, RestInv, NEW c \in Call, ServerStarts(c) PROVE RestInv'
<1>0. /\ SteerInv /\ ToldInv /\ LoadedInv /\ TurnsDoNotOverlap /\ EvidenceInv /\ PromptNotRepeated
      /\ UNCHANGED <<active, state, steerQueue, loaded, store, doubtful>>
      /\ At(c, LockStages) /\ At(c, Delivering) /\ ~At(c, {"started"}) /\ call[c].thread \in loaded
      /\ active = None /\ native[c].status = "none" /\ call[c].outcome = "none" /\ c \in Turn
    BY DEF RestInv, ServerStarts, durable, At, LockStages, Delivering, CoreInv, UnderLock, Born,
           Refers, Launched, Turn
<1>1. /\ call'[c].stage = "started" /\ call'[c].outcome = "none" /\ OneMoves(c)
    BY <1>0, GoesMoves, MovedOne DEF ServerStarts, OneMoves, Stages
<1>2. PICK th, m : th = call[c].thread /\ m = Of(c)
    OBVIOUS
<1>3. /\ native'[c].status = "running" /\ native'[c].thread = th /\ native'[c].inputs = {m}
      /\ \A t \in Turn \ {c} : native'[t] = native[t]
    BY <1>0, <1>2, Typed DEF ServerStarts
<1>4. \A o \in State : StateKept(o)
    BY <1>0 DEF StateKept
<1>5. \A t \in Turn : NativeGrows(t)
  <2>1. native[c].inputs = {}
    BY <1>0 DEF CoreInv, Born
  <2> QED
    BY <1>0, <1>3, <2>1 DEF NativeGrows
<1>6. \A d \in Call : ~At(d, {"started"}) /\ (At(d, Delivering) => d = c)
    BY <1>0, OneUnderLock DEF At, LockStages, Delivering
<1>7. /\ Unseen(m, th) /\ OpenAttempt(th, m) = {}
    BY <1>0, <1>2 DEF EvidenceInv
<1>8. SteerInv'
    BY <1>0, <1>1, SteerFrame DEF QueueMoves, At, Steering, SteerStages
<1>9. ToldInv'
  <2>1. Truly(c)'
    BY <1>1 DEF Truly
  <2> QED
    BY <1>0, <1>1, <1>5, <2>1, ToldFrame DEF OneMoves
<1>10. LoadedInv'
  <2>1. Watched(c)'
    BY <1>1 DEF Watched
  <2> QED
    BY <1>0, <1>3, <1>4, <1>6, <2>1, LoadedFrame DEF At, Turn
<1>11. TurnsDoNotOverlap'
  <2>1. ASSUME NEW u \in Turn \ {c}, native[u].status = "running", native[u].thread = th
        PROVE  GivenUp(u)
    BY <1>0, <1>2, <1>6, <2>1 DEF LoadedInv, Watched, At, Turn
  <2> QED
    BY <1>0, <1>3, <2>1 DEF TurnsDoNotOverlap, GivenUp
<1>12. EvidenceInv'
  <2>1. ASSUME NEW t \in Turn, NEW n \in Message, PartOf(n, t)'
        PROVE  Evident(n, t)' \/ <<n, t>> \in doubtful'
    <3>1. CASE t = c
      BY <1>1, <1>2, <1>3, <2>1, <3>1 DEF PartOf, Evident, InHand, Of
    <3>2. CASE t # c
      <4>1. Evident(n, t) \/ <<n, t>> \in doubtful
        BY <1>0, <1>3, <2>1, <3>2 DEF PartOf, EvidenceInv
      <4>2. ~InHand(n, t)
        BY <1>0, <1>6 DEF InHand, At, Turn
      <4>3. PICK x : x = native[t].thread /\ x = native'[t].thread
        BY <1>3, <3>2
      <4>4. Evident(n, t) => Evident(n, t)'
        BY <1>0, <4>2, <4>3 DEF Evident, OpenAttempt, FinalReceipt, ErrorReceipt, Found
      <4> QED
        BY <1>0, <4>1, <4>4
    <3> QED
      BY <3>1, <3>2
  <2>2. \A d \in Call : ~At(d, Delivering)'
    BY <1>1, <1>6 DEF At, Delivering, OneMoves
  <2>3. \A d \in Call : At(d, Attempting)' => At(d, Attempting) /\ call'[d] = call[d]
    BY <1>1 DEF At, Attempting, OneMoves
  <2>4. ASSUME NEW d \in Call, At(d, Attempting)', NEW o, o = call[d].state
        PROVE  /\ Unseen(Of(d), state[o].thread)'
               /\ \E x \in OpenAttempt(state[o].thread, Of(d))' : x.turn = state[o].turn
    <3>1. PICK tr, n : tr = state[o].thread /\ n = Of(d)
      OBVIOUS
    <3>2. /\ Unseen(n, tr)
          /\ \E x \in OpenAttempt(tr, n) : x.turn = state[o].turn
      BY <1>0, <2>3, <2>4, <3>1 DEF EvidenceInv
    <3>3. ~(tr = th /\ n = m)
      BY <1>7, <3>2
    <3>4. Unseen(n, tr)'
      BY <1>0, <1>3, <3>2, <3>3 DEF Unseen, PartOf
    <3> QED
      BY <1>0, <3>1, <3>2, <3>4 DEF OpenAttempt, Found, Unseen
  <2>5. \A d, e \in Call : d # e /\ At(d, Attempting)' /\ At(e, Attempting)' /\ Of(d) = Of(e)
           => state'[call'[d].state].thread # state'[call'[e].state].thread
    BY <1>0, <2>3 DEF EvidenceInv
  <2>6. ASSUME NEW d \in Call, At(d, Attempting)'
        PROVE  LET o == call[d].state IN
               /\ Unseen(Of(d), state[o].thread)'
               /\ \E x \in OpenAttempt(state[o].thread, Of(d))' : x.turn = state'[o'].turn
    <3>1. PICK o : o = call[d].state /\ call'[d].state = o /\ state'[o] = state[o]
      BY <1>0, <2>3, <2>6
    <3>2. /\ Unseen(Of(d), state[o].thread)'
          /\ \E x \in OpenAttempt(state[o].thread, Of(d))' : x.turn = state[o].turn
      BY <2>4, <2>6, <3>1
    <3> QED
      BY <3>1, <3>2 DEF Unseen, OpenAttempt, Found
  <2> QED
    BY <2>1, <2>2, <2>5, <2>6 DEF EvidenceInv
<1>13. PromptNotRepeated'
  <2>1. ASSUME NEW u \in Turn \ {c}, NEW n \in Message, native'[u].thread = th,
               n \in native'[u].inputs, n \in native'[c].inputs
        PROVE  <<n, u>> \in doubtful
    BY <1>3, <1>7, <2>1 DEF Unseen, PartOf
  <2> QED
    BY <1>0, <1>3, <2>1 DEF PromptNotRepeated
<1> QED
    BY <1>8, <1>9, <1>10, <1>11, <1>12, <1>13 DEF RestInv
\* What is known of an attempt, with its thread and its message named.
LEMMA AttemptedNext ==
    ASSUME NEW d \in Call, NEW th, NEW m, th = state'[call'[d].state].thread, m = Of(d),
           Unseen(m, th)',
           \E x \in OpenAttempt(th, m)' : x.turn = state'[call'[d].state].turn
    PROVE  LET o == call[d].state IN
               /\ Unseen(Of(d), state[o].thread)'
               /\ \E x \in OpenAttempt(state[o].thread, Of(d))' : x.turn = state'[o'].turn
    BY DEF Unseen, OpenAttempt, Found

\* The message becomes part of the turn for which its attempt was written.
LEMMA ServerSteersRest ==
    ASSUME TypeOK, CoreInv, RestInv, NEW c \in Call, ServerSteers(c) PROVE RestInv'
<1>0. /\ SteerInv /\ ToldInv /\ LoadedInv /\ TurnsDoNotOverlap /\ EvidenceInv /\ PromptNotRepeated
      /\ UNCHANGED <<active, state, steerQueue, loaded, store, doubtful, newest, thread>>
      /\ At(c, SteerStages) /\ At(c, Attempting) /\ ~At(c, {"started"}) /\ Steers(c)
    BY DEF RestInv, ServerSteers, durable, At, SteerStages, Attempting, SteerInv, Steering
<1>1. PICK o \in State : o = call[c].state /\ Holds(o) /\ call[c].outcome = "none"
    BY <1>0, SteeredFacts
<1>2. PICK t \in Turn, th \in Thread : t = state[o].turn /\ th = state[o].thread /\ native[t].thread = th
    BY <1>1, HeldFacts
<1>3. PICK m : m = Of(c)
    OBVIOUS
<1>4. CASE native[t].status # "running"
  <2>1. Quiet /\ Goes(c, "steerRefused")
    BY <1>0, <1>1, <1>2, <1>4 DEF ServerSteers, Quiet
  <2>2. /\ call'[c].stage = "steerRefused" /\ call'[c].outcome = "none" /\ OneMoves(c)
        /\ call'[c].state = call[c].state
    BY <1>1, <2>1, GoesMoves, MovedOne DEF OneMoves, Stages
  <2> QED
    BY <1>0, <2>1, <2>2, QuietMoves, OrdinaryStep DEF Delivering, QueueMoves
<1>5. CASE native[t].status = "running"
  <2>0. Goes(c, "steerTaken")
    BY <1>1, <1>2, <1>5 DEF ServerSteers
  <2>1. /\ call'[c].stage = "steerTaken" /\ call'[c].outcome = "none" /\ OneMoves(c)
        /\ call'[c].state = call[c].state
    BY <1>1, <2>0, GoesMoves, MovedOne DEF OneMoves, Stages
  <2>2. /\ native'[t].status = "running" /\ native'[t].thread = th
        /\ native'[t].inputs = native[t].inputs \cup {m}
        /\ \A u \in Turn \ {t} : native'[u] = native[u]
    <3>1. PICK n : n = [native[t] EXCEPT !.inputs = @ \cup {Of(c)}]
      OBVIOUS
    <3>2. /\ n.status = native[t].status /\ n.thread = native[t].thread
          /\ n.inputs = native[t].inputs \cup {Of(c)}
      BY <3>1, Typed DEF NativeRecord
    <3>3. native' = [native EXCEPT ![t] = n]
      BY <1>1, <1>2, <1>5, <3>1, Typed DEF ServerSteers, NativeRecord
    <3> QED
      BY <1>2, <1>3, <1>5, <3>2, <3>3, Typed
  <2>3. /\ \A p \in State : StateKept(p)
        /\ \A u \in Turn : NativeGrows(u) /\ native'[u].status = native[u].status
                           /\ native'[u].thread = native[u].thread
    BY <1>0, <1>2, <1>5, <2>2 DEF StateKept, NativeGrows
  <2>4. \A d \in Call : call[d].stage = "started" => call'[d].stage = "started"
    BY <1>0, <2>1 DEF At, OneMoves
  <2>5. SteerInv'
    BY <1>0, <2>1, SteerFrame DEF QueueMoves
  <2>6. ToldInv'
    <3>1. Truly(c)'
      BY <2>1 DEF Truly
    <3> QED
      BY <1>0, <2>1, <2>3, <3>1, ToldFrame DEF OneMoves
  <2>7. LoadedInv'
    <3>1. \A u \in Turn : active # None /\ state[active].turn = u => Watched(u)'
      BY <1>0 DEF Watched
    <3>2. \A u \in Turn : call[u].stage = "started" => Watched(u)'
      BY <2>4 DEF Watched, Turn
    <3> QED
      BY <1>0, <2>3, <3>1, <3>2, LoadedFrame
  <2>8. TurnsDoNotOverlap'
    BY <1>0, <2>3, OverlapFrame
  <2>9. Unseen(m, th) /\ \E x \in OpenAttempt(th, m) : x.turn = t
    BY <1>0, <1>1, <1>2, <1>3 DEF EvidenceInv
  <2>10. EvidenceInv'
    <3>1. ASSUME NEW u \in Turn, NEW n \in Message, PartOf(n, u)'
          PROVE  Evident(n, u)' \/ <<n, u>> \in doubtful'
      <4>1. Evident(n, u) \/ <<n, u>> \in doubtful
        <5>1. CASE u = t /\ n = m
          BY <1>2, <2>9, <5>1 DEF Evident
        <5>2. CASE ~(u = t /\ n = m)
          BY <1>0, <2>2, <3>1, <5>2 DEF EvidenceInv, PartOf
        <5> QED
          BY <5>1, <5>2
      <4>2. PICK x : x = native[u].thread /\ x = native'[u].thread
        BY <2>3
      <4>3. Evident(n, u) => Evident(n, u)'
        BY <1>0, <2>4, <4>2
           DEF Evident, InHand, OpenAttempt, FinalReceipt, ErrorReceipt, Found, Turn, Of
      <4> QED
        BY <1>0, <4>1, <4>3
    <3>2. \A d \in Call : At(d, Delivering)' \/ At(d, Attempting)' => d # c /\ call'[d] = call[d]
      BY <2>1 DEF OneMoves, At, Delivering, Attempting
    <3>3. \A n, x : Unseen(n, x) /\ ~(n = m /\ x = th) => Unseen(n, x)'
      BY <1>0, <2>2, <2>3 DEF Unseen, PartOf
    <3>4. ASSUME NEW d \in Call, At(d, Delivering)'
          PROVE  Unseen(Of(d), call[d].thread)' /\ OpenAttempt(call[d].thread, Of(d))' = {}
      <4>1. PICK x, n : x = call[d].thread /\ n = Of(d) /\ call'[d].thread = x /\ At(d, Delivering)
        BY <3>2, <3>4 DEF At
      <4>2. Unseen(n, x) /\ OpenAttempt(x, n) = {}
        BY <1>0, <4>1 DEF EvidenceInv
      <4>3. Unseen(n, x)'
        BY <2>9, <3>3, <4>2
      <4> QED
        BY <1>0, <4>1, <4>2, <4>3 DEF Unseen, OpenAttempt, Found
    <3>5. ASSUME NEW d \in Call, At(d, Attempting)'
          PROVE  LET p == call[d].state IN
                 /\ Unseen(Of(d), state[p].thread)'
                 /\ \E x \in OpenAttempt(state[p].thread, Of(d))' : x.turn = state'[p'].turn
      <4>1. PICK p, x, n : /\ p = call[d].state /\ x = state[p].thread /\ n = Of(d)
                           /\ call'[d].state = p /\ state'[p] = state[p]
                           /\ d # c /\ At(d, Attempting)
        BY <1>0, <3>2, <3>5 DEF At
      <4>2. Unseen(n, x) /\ \E y \in OpenAttempt(x, n) : y.turn = state[p].turn
        BY <1>0, <4>1 DEF EvidenceInv
      <4>3. ~(n = m /\ x = th)
        BY <1>0, <1>1, <1>2, <1>3, <4>1 DEF EvidenceInv
      <4>4. Unseen(n, x)' /\ \E y \in OpenAttempt(x, n)' : y.turn = state'[p].turn
        BY <1>0, <3>3, <4>1, <4>2, <4>3 DEF OpenAttempt, Found
      <4> QED
        BY <4>1, <4>4, AttemptedNext
    <3>6. \A d, e \in Call : d # e /\ At(d, Attempting)' /\ At(e, Attempting)' /\ Of(d) = Of(e)
             => state'[call'[d].state].thread # state'[call'[e].state].thread
      BY <1>0, <3>2 DEF EvidenceInv, At
    <3> QED
      BY <3>1, <3>4, <3>5, <3>6 DEF EvidenceInv
  <2>11. PromptNotRepeated'
    <3>1. ASSUME NEW u \in Turn \ {t}, native'[u].thread = th, m \in native'[u].inputs
          PROVE  <<m, u>> \in doubtful
      BY <2>2, <2>9, <3>1 DEF Unseen, PartOf
    <3> QED
      BY <1>0, <1>2, <2>2, <3>1 DEF PromptNotRepeated
  <2> QED
    BY <2>5, <2>6, <2>7, <2>8, <2>10, <2>11 DEF RestInv
<1> QED
    BY <1>4, <1>5
\* The steps that write what becomes of an attempt: no other thread or message is concerned.
AttemptsElsewhere(th, m) ==
    \A x, n : ~(x = th /\ n = m) => OpenAttempt(x, n)' = OpenAttempt(x, n)

LEMMA AttemptFrame ==
    ASSUME TypeOK, CoreInv, EvidenceInv, NEW c \in Call, OneMoves(c), ~At(c, Delivering)',
           At(c, {"started"}) => At(c, {"started"})',
           NEW th \in Thread, NEW m \in Message, Unseen(m, th), AttemptsElsewhere(th, m),
           \A x \in Thread, n \in Message :
              (FinalReceipt(x, n) \cup ErrorReceipt(x, n))' = FinalReceipt(x, n) \cup ErrorReceipt(x, n),
           UNCHANGED <<active, native, doubtful>>,
           \A o \in State : /\ state'[o].turn = state[o].turn /\ state'[o].thread = state[o].thread
                            /\ state'[o].message = state[o].message,
           \A d \in Call : At(d, Delivering) => ~(call[d].thread = th /\ Of(d) = m),
           \A d \in Call \ {c} : At(d, Attempting) => ~(state[call[d].state].thread = th /\ Of(d) = m),
           At(c, Attempting)' => /\ th = state'[call'[c].state].thread /\ m = Of(c)
                                 /\ \E x \in OpenAttempt(th, m)' : x.turn = state'[call'[c].state].turn
    PROVE  EvidenceInv'
<1>1. \A n, x : Unseen(n, x) => Unseen(n, x)'
    BY DEF Unseen, PartOf
<1>2. \A d \in Call : call[d].stage = "started" => call'[d].stage = "started"
    BY DEF At, OneMoves
<1>3. ASSUME NEW t \in Turn, NEW n \in Message, PartOf(n, t)'
      PROVE  Evident(n, t)' \/ <<n, t>> \in doubtful'
  <2>1. Evident(n, t) \/ <<n, t>> \in doubtful
    BY <1>3 DEF EvidenceInv, PartOf
  <2>2. PICK x \in Thread : x = native[t].thread
    <3>1. native[t].status # "none" /\ newest \in 1..MaxThread /\ MaxThread \in Nat
      BY <1>3, Typed, BoundAssumption DEF CoreInv, Born, PartOf, Turn, Thread
    <3>2. native[t].thread \in 1..newest
      BY <3>1 DEF CoreInv, Born, Turn
    <3>3. native[t].thread \in Thread
      BY <3>1, <3>2 DEF Thread
    <3> QED
      BY <3>3
  <2>3. CASE FinalReceipt(x, n) \cup ErrorReceipt(x, n) # {}
    BY <2>2, <2>3 DEF Evident
  <2>4. CASE \E y \in OpenAttempt(x, n) : y.turn = t
    <3>1. CASE x = th /\ n = m
      BY <1>3, <2>2, <3>1 DEF Unseen, PartOf
    <3>2. CASE ~(x = th /\ n = m)
      <4>1. \E y \in OpenAttempt(x, n)' : y.turn = t
        BY <2>4, <3>2 DEF AttemptsElsewhere
      <4> QED
        BY <2>2, <4>1 DEF Evident, OpenAttempt, Found
    <3> QED
      BY <3>1, <3>2
  <2>5. InHand(n, t) => InHand(n, t)'
    <3>1. active \in State \cup {None}
      BY Typed
    <3> QED
      BY <1>2, <3>1 DEF InHand, Turn, Of
  <2> QED
    BY <2>1, <2>2, <2>3, <2>4, <2>5 DEF Evident
<1>4. ASSUME NEW d \in Call, At(d, Delivering)'
      PROVE  Unseen(Of(d), call[d].thread)' /\ OpenAttempt(call[d].thread, Of(d))' = {}
  <2>1. PICK x, n : x = call[d].thread /\ n = Of(d) /\ call'[d].thread = x /\ At(d, Delivering)
    BY <1>4 DEF At, OneMoves
  <2>2. Unseen(n, x) /\ OpenAttempt(x, n) = {} /\ ~(x = th /\ n = m)
    BY <2>1 DEF EvidenceInv
  <2>3. Unseen(n, x)' /\ OpenAttempt(x, n)' = {}
    BY <1>1, <2>2 DEF AttemptsElsewhere
  <2> QED
    BY <2>1, <2>3 DEF Unseen, OpenAttempt, Found
<1>5. ASSUME NEW d \in Call \ {c}, At(d, Attempting)'
      PROVE  \E p, x, n :
                 /\ p = call'[d].state /\ x = state'[p].thread /\ n = Of(d) /\ ~(x = th /\ n = m)
                 /\ Unseen(n, x)' /\ \E y \in OpenAttempt(x, n)' : y.turn = state'[p].turn
  <2>1. call'[d] = call[d] /\ At(d, Attempting) /\ At(d, SteerStages)
    BY <1>5 DEF At, OneMoves, Attempting, SteerStages
  <2>2. PICK p \in State : p = call[d].state
    BY <2>1, SteeredFacts
  <2>3. PICK x, n : x = state[p].thread /\ n = Of(d)
    OBVIOUS
  <2>4. Unseen(n, x) /\ (\E y \in OpenAttempt(x, n) : y.turn = state[p].turn) /\ ~(x = th /\ n = m)
    BY <2>1, <2>2, <2>3 DEF EvidenceInv
  <2>5. Unseen(n, x)' /\ \E y \in OpenAttempt(x, n)' : y.turn = state'[p].turn
    BY <1>1, <2>4 DEF AttemptsElsewhere
  <2> QED
    BY <2>1, <2>2, <2>3, <2>4, <2>5
<1>6. ASSUME NEW d \in Call, At(d, Attempting)'
      PROVE  LET o == call[d].state IN
             /\ Unseen(Of(d), state[o].thread)'
             /\ \E x \in OpenAttempt(state[o].thread, Of(d))' : x.turn = state'[o'].turn
  <2>1. PICK x, n : /\ x = state'[call'[d].state].thread /\ n = Of(d) /\ Unseen(n, x)'
                    /\ \E y \in OpenAttempt(x, n)' : y.turn = state'[call'[d].state].turn
    <3>1. CASE d = c
      BY <1>1, <1>6, <3>1
    <3>2. CASE d # c
      BY <1>5, <1>6, <3>2
    <3> QED
      BY <3>1, <3>2
  <2> QED
    BY <2>1, AttemptedNext
<1>7. ASSUME NEW d \in Call, NEW e \in Call, d # e, At(d, Attempting)', At(e, Attempting)', Of(d) = Of(e)
      PROVE  state'[call'[d].state].thread # state'[call'[e].state].thread
  <2>1. CASE d = c \/ e = c
    BY <1>5, <1>7, <2>1
  <2>2. CASE d # c /\ e # c
    <3>1. /\ call'[d] = call[d] /\ At(d, Attempting) /\ call[d].state \in State
          /\ call'[e] = call[e] /\ At(e, Attempting) /\ call[e].state \in State
      BY <1>7, <2>2, SteeredFacts DEF At, OneMoves, Attempting, SteerStages
    <3> QED
      BY <1>7, <3>1 DEF EvidenceInv
  <2> QED
    BY <2>1, <2>2
<1> QED
    BY <1>3, <1>4, <1>6, <1>7 DEF EvidenceInv
\* The state a steer is turned away from keeps its turn, and its settlement if it has one.
LEMMA RejectedState ==
    ASSUME TypeOK, CoreInv, NEW c \in Call, SteerRejected(c), NEW o \in State, o = call[c].state,
           NEW t \in Turn, t = state[o].turn, Known(t)
    PROVE  \A p \in State : /\ state'[p].turn = state[p].turn /\ state'[p].thread = state[p].thread
                            /\ state'[p].message = state[p].message
                            /\ state[p].settled # "no" => state'[p].settled = state[p].settled
<1>1. PICK g : g = Settlement(native[t].status)
    OBVIOUS
<1>2. PICK h : h = IF state[o].settled = "no" THEN g ELSE state[o].settled
    OBVIOUS
<1>3. PICK q : q = [state[o] EXCEPT !.pendingSteer = None, !.settled = h]
    OBVIOUS
<1>4. /\ q.turn = state[o].turn /\ q.thread = state[o].thread
      /\ q.message = state[o].message /\ q.settled = h
    BY <1>3, Typed DEF StateRecord
<1>5. state' = [state EXCEPT ![o] = q]
    BY <1>1, <1>2, <1>3, Typed DEF StateRecord, SteerRejected
<1> QED
    BY <1>2, <1>4, <1>5, Typed

\* An attempt is written by a call that found no trace of an earlier delivery.
LEMMA SteerBeginsRest ==
    ASSUME TypeOK, CoreInv, RestInv, NEW c \in Call, SteerBegins(c) PROVE RestInv'
<1>0. /\ EvidenceInv /\ PromptNotRepeated /\ At(c, SteerStages) /\ Steers(c) /\ ~At(c, {"started"})
      /\ UNCHANGED <<active, loaded, newest, native, doubtful>>
    BY DEF RestInv, SteerBegins, server, At, SteerStages
<1>1. PICK o \in State : /\ o = call[c].state /\ Holds(o) /\ call[c].outcome = "none"
                         /\ state[o].message # Of(c)
                         /\ state[o].settled = "no" => active = o
    BY <1>0, SteeredFacts
<1>2. PICK t \in Turn, th \in Thread : t = state[o].turn /\ th = state[o].thread
    BY <1>1, HeldFacts
<1>3. PICK m \in Message : m = Of(c)
    BY MessageType
<1>4. CASE ~At(c, {"steerReady"})'
    BY <1>4, SteerBeginsOrdinary, OrdinaryStep
<1>5. CASE At(c, {"steerReady"})'
  <2>1. /\ state[o].settled = "no" /\ Duplicate(th, m) \cup OpenAttempt(th, m) = {}
        /\ store' = Save(store \ Found(th, m, "rejected"), Event(th, m, "attempt", t, "steer"))
        /\ state' = [state EXCEPT ![o].pendingSteer = m]
        /\ Goes(c, "steerReady") /\ UNCHANGED steerQueue
    <3>1. Restarts(c) => ~At(c, {"steerReady"})'
      BY RestartsMoves, MovedOne DEF At
    <3>2. \A out \in Outcomes, u \in Turn \cup {None} : EndsWith(c, out, u) => ~At(c, {"steerReady"})'
      BY EndsRecord, Typed DEF EndsWith, At
    <3>3. \A x \in First(Duplicate(th, m)) : Told(x) \in Outcomes /\ x.turn \in Turn
      BY <1>3, DuplicateFacts DEF Outcomes, Known
    <3>4. \A x \in OpenAttempt(th, m) : ~Reads(c, "steerReading", x.turn)
      <4>1. ASSUME NEW x \in OpenAttempt(th, m), Reads(c, "steerReading", x.turn) PROVE FALSE
        <5>1. x.turn \in Turn
          BY <1>3, FoundFacts DEF OpenAttempt, Known
        <5>2. call'[c].stage = "steerReading"
          BY <4>1, <5>1, ReadsMoves, MovedOne DEF Stages
        <5> QED
          BY <1>5, <5>2 DEF At
      <4> QED
        BY <4>1
    <3>5. "unconfirmed" \in Outcomes
      BY DEF Outcomes
    <3> QED
      BY <1>1, <1>2, <1>3, <1>5, <3>1, <3>2, <3>3, <3>4, <3>5 DEF SteerBegins, Reads
  <2>2. /\ call'[c].stage = "steerReady" /\ call'[c].outcome = "none" /\ OneMoves(c)
        /\ call'[c].state = call[c].state
    BY <1>1, <2>1, GoesMoves, MovedOne DEF OneMoves, Stages
  <2>3. Still
    BY <1>0, <2>1, PendingStill DEF Still
  <2>4. SteerInv' /\ ToldInv' /\ LoadedInv' /\ TurnsDoNotOverlap'
    <3>1. Truly(c)'
      BY <2>2 DEF Truly
    <3>2. Plain(c)
      BY <1>0, <2>1, <2>2, <2>3, <3>1 DEF Plain, QueueMoves
    <3> QED
      BY <3>2, PlainStep
  <2>5. Unseen(m, th)
    <3>1. ASSUME NEW u \in Turn, native[u].thread = th, PartOf(m, u) PROVE ~Evident(m, u)
      <4>1. FinalReceipt(th, m) \cup ErrorReceipt(th, m) = {} /\ OpenAttempt(th, m) = {}
        BY <2>1 DEF Duplicate
      <4>2. active = o /\ active # None
        BY <1>1, <2>1, Zero
      <4>3. call[u].stage # "started"
        BY <4>2 DEF CoreInv, UnderLock, At, LockStages, Turn
      <4> QED
        BY <1>1, <1>3, <3>1, <4>1, <4>2, <4>3 DEF Evident, InHand
    <3> QED
      BY <1>0, <3>1 DEF EvidenceInv, Unseen
  <2>6. PICK e : e = Event(th, m, "attempt", t, "steer")
    OBVIOUS
  <2>7. /\ e.thread = th /\ e.message = m /\ e.key = "attempt" /\ e.turn = t
        /\ \A x : x \in store' <=>
              \/ x = e
              \/ /\ x \in store /\ x \notin Found(th, m, "rejected")
                 /\ <<x.thread, x.message, x.key>> # <<th, m, "attempt">>
    BY <2>1, <2>6 DEF Event, Save
  <2>8. AttemptsElsewhere(th, m)
    <3>1. \A x, n : ~(x = th /\ n = m) => Found(x, n, "attempt")' = Found(x, n, "attempt")
                                          /\ Found(x, n, "rejected")' = Found(x, n, "rejected")
      BY <2>7 DEF Found
    <3> QED
      BY <3>1 DEF AttemptsElsewhere, OpenAttempt
  <2>9. \A x, n : (FinalReceipt(x, n) \cup ErrorReceipt(x, n))' = FinalReceipt(x, n) \cup ErrorReceipt(x, n)
    <3>1. \A x, n : Found(x, n, "final")' = Found(x, n, "final")
                    /\ Found(x, n, "error")' = Found(x, n, "error")
      BY <2>7 DEF Found
    <3> QED
      BY <3>1 DEF FinalReceipt, ErrorReceipt
  <2>10. \E x \in OpenAttempt(th, m)' : x.turn = t
    <3>1. e \in Found(th, m, "attempt")' /\ Found(th, m, "rejected")' = {}
      BY <2>7 DEF Found
    <3> QED
      BY <2>7, <3>1 DEF OpenAttempt
  <2>11. \A d \in Call : ~At(d, Delivering)
    BY <1>1, <2>1, Zero DEF CoreInv, UnderLock, At, LockStages, Delivering
  <2>12. \A d \in Call : At(d, Attempting) => ~(state[call[d].state].thread = th /\ Of(d) = m)
    BY <1>0, <2>1 DEF EvidenceInv
  <2>13. EvidenceInv'
    <3>1. /\ th = state'[call'[c].state].thread /\ t = state'[call'[c].state].turn
          /\ ~At(c, Delivering)'
      BY <1>1, <1>2, <2>2, <2>3 DEF Still, At, Delivering
    <3> QED
      BY <1>0, <1>3, <2>2, <2>3, <2>5, <2>8, <2>9, <2>10, <2>11, <2>12, <3>1, AttemptFrame DEF Still
  <2>14. PromptNotRepeated'
    BY <1>0 DEF PromptNotRepeated
  <2> QED
    BY <2>4, <2>13, <2>14 DEF RestInv
<1> QED
    BY <1>4, <1>5

\* The attempt is withdrawn: its message is on no turn of the thread, unless a fault hid it.
LEMMA SteerRejectedRest ==
    ASSUME TypeOK, CoreInv, RestInv, NEW c \in Call, SteerRejected(c) PROVE RestInv'
<1>0. /\ SteerInv /\ ToldInv /\ LoadedInv /\ TurnsDoNotOverlap /\ EvidenceInv /\ PromptNotRepeated
      /\ UNCHANGED <<active, loaded, newest, native, doubtful>>
      /\ At(c, SteerStages) /\ At(c, Attempting) /\ ~At(c, {"started"}) /\ Steers(c)
    BY DEF RestInv, SteerRejected, server, At, SteerStages, Attempting, SteerInv, Steering
<1>1. PICK o \in State : o = call[c].state /\ Holds(o) /\ call[c].outcome = "none"
    BY <1>0, SteeredFacts
<1>2. PICK t \in Turn, th \in Thread : t = state[o].turn /\ th = state[o].thread /\ Known(t)
    BY <1>1, HeldFacts
<1>3. PICK m \in Message : m = Of(c)
    BY MessageType
<1>4. /\ store' = Save(store, Event(th, m, "rejected", t, "steer"))
      /\ \/ EndsWith(c, "unconfirmed", t) /\ LeaveSteering(c)
         \/ Goes(c, "steerEnding") /\ UNCHANGED steerQueue
    BY <1>1, <1>2, <1>3 DEF SteerRejected
<1>5. \A p \in State : /\ state'[p].turn = state[p].turn /\ state'[p].thread = state[p].thread
                       /\ state'[p].message = state[p].message
                       /\ state[p].settled # "no" => state'[p].settled = state[p].settled
    BY <1>0, <1>1, <1>2, RejectedState
<1>6. /\ OneMoves(c) /\ call'[c].stage \in {"done", "steerEnding"}
      /\ call'[c].outcome \in {"none", "unconfirmed"}
      /\ call'[c].stage = "steerEnding" => call'[c].state = call[c].state /\ UNCHANGED steerQueue
  <2>1. CASE EndsWith(c, "unconfirmed", t)
    <3>1. PICK r \in CallRecord : /\ r = Ends(c, "unconfirmed", t) /\ r.stage = "done"
                                  /\ r.outcome = "unconfirmed"
      BY EndsRecord DEF Outcomes
    <3>2. Moved(c, r)
      BY <2>1, <3>1 DEF EndsWith, Moved
    <3> QED
      BY <3>1, <3>2, MovedOne DEF OneMoves
  <2>2. CASE Goes(c, "steerEnding") /\ UNCHANGED steerQueue
    BY <1>1, <2>2, GoesMoves, MovedOne DEF OneMoves, Stages
  <2> QED
    BY <1>4, <2>1, <2>2
<1>7. /\ \A p \in State : StateKept(p)
      /\ \A u \in Turn : NativeGrows(u)
    BY <1>0, <1>5 DEF StateKept, NativeGrows
<1>8. SteerInv'
  <2>1. QueueMoves(c)
    BY <1>0, <1>1, <1>4 DEF QueueMoves
  <2> QED
    BY <1>0, <1>6, <2>1, SteerFrame DEF At, Steering, SteerStages
<1>9. ToldInv'
  <2>1. Truly(c)'
    BY <1>6 DEF Truly
  <2> QED
    BY <1>0, <1>6, <1>7, <2>1, ToldFrame DEF OneMoves
<1>10. LoadedInv'
  <2>1. \A u \in Turn : active # None /\ state[active].turn = u => Watched(u)'
    BY <1>0, <1>5, Typed DEF Watched
  <2>2. \A u \in Turn : call[u].stage = "started" => Watched(u)'
    BY <1>0, <1>6 DEF Watched, Turn, OneMoves, At
  <2> QED
    BY <1>0, <1>7, <2>1, <2>2, LoadedFrame
<1>11. TurnsDoNotOverlap'
    BY <1>0, <1>7, OverlapFrame
<1>12. EvidenceInv'
  <2>1. Unseen(m, th) /\ \E x \in OpenAttempt(th, m) : x.turn = t
    BY <1>0, <1>1, <1>2, <1>3 DEF EvidenceInv
  <2>2. PICK e : e = Event(th, m, "rejected", t, "steer")
    OBVIOUS
  <2>3. /\ e.thread = th /\ e.message = m /\ e.key = "rejected"
        /\ \A x : x \in store' <=>
              \/ x = e
              \/ x \in store /\ <<x.thread, x.message, x.key>> # <<th, m, "rejected">>
    BY <1>4, <2>2 DEF Event, Save
  <2>4. AttemptsElsewhere(th, m)
    <3>1. \A x, n : ~(x = th /\ n = m) => Found(x, n, "attempt")' = Found(x, n, "attempt")
                                          /\ Found(x, n, "rejected")' = Found(x, n, "rejected")
      BY <2>3 DEF Found
    <3> QED
      BY <3>1 DEF AttemptsElsewhere, OpenAttempt
  <2>5. \A x, n : (FinalReceipt(x, n) \cup ErrorReceipt(x, n))' = FinalReceipt(x, n) \cup ErrorReceipt(x, n)
    <3>1. \A x, n : Found(x, n, "final")' = Found(x, n, "final")
                    /\ Found(x, n, "error")' = Found(x, n, "error")
      BY <2>3 DEF Found
    <3> QED
      BY <3>1 DEF FinalReceipt, ErrorReceipt
  <2>6. \A d \in Call : At(d, Delivering) => ~(call[d].thread = th /\ Of(d) = m)
    BY <1>0, <2>1 DEF EvidenceInv
  <2>7. \A d \in Call \ {c} : At(d, Attempting) => ~(state[call[d].state].thread = th /\ Of(d) = m)
    BY <1>0, <1>1, <1>2, <1>3 DEF EvidenceInv
  <2>8. ~At(c, Delivering)' /\ ~At(c, Attempting)'
    BY <1>6 DEF At, Delivering, Attempting
  <2> QED
    BY <1>0, <1>5, <1>6, <2>1, <2>4, <2>5, <2>6, <2>7, <2>8, AttemptFrame
<1>13. PromptNotRepeated'
    BY <1>0 DEF PromptNotRepeated
<1> QED
    BY <1>8, <1>9, <1>10, <1>11, <1>12, <1>13 DEF RestInv
----------------------------------------------------------------------------
(* The invariant *)

LEMMA ExecutorStarts == Init => IInv
<1> SUFFICES ASSUME Init PROVE IInv
    OBVIOUS
<1>1. /\ \A c \in Call : call[c] = Free
      /\ \A o \in State : state[o] = NoState
      /\ \A t \in Turn : native[t] = NoTurn
      /\ lockQueue = <<>> /\ active = None /\ thread = 1 /\ newest = 1 /\ store = {} /\ loaded = {}
    BY DEF Init
<1>2. TypeOK
  <2>1. Free \in CallRecord /\ NoState \in StateRecord /\ NoTurn \in NativeRecord
    BY DEF Free, NoState, NoTurn, CallRecord, StateRecord, NativeRecord, Stages, Settlements, Outcomes
  <2>2. <<>> \in Seq(Call)
    OBVIOUS
  <2>3. 1 \in Thread /\ 0 \in 0..MaxFaults
    BY BoundAssumption DEF Thread
  <2> HIDE DEF Free, NoState, NoTurn, None
  <2> QED
    BY <2>1, <2>2, <2>3, Typed DEF Init
<1>3. CoreInv
  <2>1. ASSUME NEW c \in Call PROVE Refers(c) /\ UnderLock(c) /\ Born(c)
    <3>1. c \in Turn /\ c \in State
      BY DEF Turn, State
    <3> QED
      BY <1>1, <3>1 DEF Refers, UnderLock, Born, Free, NoState, NoTurn, At, SteerStages,
                        LockStages, Launched, Holds
  <2> QED
    BY <1>1, <2>1 DEF CoreInv, StateOK, Holds, NoState, ActiveOK, OneReceipt
<1>4. SteerInv /\ ToldInv /\ LoadedInv /\ TurnsDoNotOverlap
    BY <1>1 DEF SteerInv, At, Steering, SteerStages, Free, ToldInv, Truly, LoadedInv,
                TurnsDoNotOverlap, NoTurn
<1>5. EvidenceInv /\ PromptNotRepeated
  <2>1. \A c \in Call : ~At(c, Delivering) /\ ~At(c, Attempting)
    BY <1>1 DEF At, Delivering, Attempting, Free
  <2> QED
    BY <1>1, <2>1 DEF EvidenceInv, PartOf, PromptNotRepeated, NoTurn
<1> QED
    BY <1>2, <1>3, <1>4, <1>5 DEF IInv, RestInv

LEMMA AdmitsIInv ==
    ASSUME IInv, NEW c \in Call, Admits(c) PROVE IInv'
<1>0. TypeOK /\ CoreInv /\ RestInv /\ EvidenceInv
    BY DEF IInv, RestInv
<1>1. CASE Lookup(c)
    BY <1>0, <1>1, LookupCore, LookupOrdinary, OrdinaryStep DEF IInv
<1>2. CASE Reconcile(c)
    BY <1>0, <1>2, ReconcileCore, ReconcileOrdinary, OrdinaryStep DEF IInv
<1>3. CASE ResumeAnswered(c)
    BY <1>0, <1>3, ResumeAnsweredCore, ResumeAnsweredOrdinary, OrdinaryStep DEF IInv
<1>4. CASE Resumed(c)
    BY <1>0, <1>4, ResumedCore, ResumedRest DEF IInv
<1>5. CASE Prepare(c)
    BY <1>0, <1>5, PrepareCore, PrepareRest DEF IInv
<1>6. CASE RequestStart(c)
    BY <1>0, <1>6, RequestStartCore, RequestStartOrdinary, OrdinaryStep DEF IInv
<1>7. CASE ServerStarts(c)
    BY <1>0, <1>7, ServerStartsCore, ServerStartsRest DEF IInv
<1>8. CASE StartRefused(c)
    BY <1>0, <1>8, StartRefusedCore, StartRefusedRest DEF IInv
<1>9. CASE Started(c)
    BY <1>0, <1>9, StartedCore, StartedRest DEF IInv
<1> QED
    BY <1>1, <1>2, <1>3, <1>4, <1>5, <1>6, <1>7, <1>8, <1>9 DEF Admits

LEMMA SteersIntoIInv ==
    ASSUME IInv, NEW c \in Call, SteersInto(c) PROVE IInv'
<1>0. TypeOK /\ CoreInv /\ RestInv /\ SteerInv
    BY DEF IInv, RestInv
<1>1. CASE SteerBegins(c)
    BY <1>0, <1>1, SteerBeginsCore, SteerBeginsRest DEF IInv
<1>2. CASE SteerReconcile(c)
    BY <1>0, <1>2, SteerReconcileCore, SteerReconcileOrdinary, OrdinaryStep
       DEF IInv, SteerReconcile, SteerInv, At, Steering, SteerStages
<1>3. CASE SteerSends(c)
    BY <1>0, <1>3, SteerSendsCore, SteerSendsOrdinary, OrdinaryStep DEF IInv
<1>4. CASE ServerSteers(c)
    BY <1>0, <1>4, ServerSteersCore, ServerSteersRest DEF IInv
<1>5. CASE SteerConfirms(c)
    BY <1>0, <1>5, SteerConfirmsCore, SteerConfirmsOrdinary, OrdinaryStep
       DEF IInv, SteerConfirms, SteerInv, At, Steering, SteerStages
<1>6. CASE SteerRejected(c)
    BY <1>0, <1>6, SteerRejectedCore, SteerRejectedRest
       DEF IInv, SteerRejected, SteerInv, At, Steering, SteerStages
<1>7. CASE SteerRestarts(c)
    BY <1>0, <1>7, SteerRestartsCore, SteerRestartsOrdinary, OrdinaryStep
       DEF IInv, SteerRestarts, SteerInv, At, Steering, SteerStages
<1> QED
    BY <1>1, <1>2, <1>3, <1>4, <1>5, <1>6, <1>7 DEF SteersInto

LEMMA CallIInv ==
    ASSUME IInv, NEW c \in Call,
           \/ Enter(c) \/ Route(c) \/ RestartAfterFinal(c) \/ Note(c)
           \/ AbortCall(c) \/ StopWaiting(c) \/ StatementFails(c)
    PROVE  IInv'
<1>0. TypeOK /\ CoreInv /\ RestInv /\ SteerInv /\ ToldInv
    BY DEF IInv, RestInv
<1>1. CASE Enter(c)
    BY <1>0, <1>1, EnterCore, EnterOrdinary, OrdinaryStep DEF IInv
<1>2. CASE Route(c)
    BY <1>0, <1>2, RouteCore, RouteOrdinary, OrdinaryStep DEF IInv
<1>3. CASE RestartAfterFinal(c)
    BY <1>0, <1>3, RestartAfterFinalCore, RestartAfterFinalOrdinary, OrdinaryStep DEF IInv
<1>4. CASE Note(c)
    BY <1>0, <1>4, NoteCore, NoteOrdinary, OrdinaryStep DEF IInv
<1>5. CASE AbortCall(c)
    BY <1>0, <1>5, AbortCallCore, AbortCallOrdinary, OrdinaryStep DEF IInv
<1>6. CASE StopWaiting(c)
    BY <1>0, <1>6, StopWaitingCore, StopWaitingOrdinary, OrdinaryStep DEF IInv
<1>7. CASE StatementFails(c)
    BY <1>0, <1>7, StatementFailsCore, StatementFailsOrdinary, OrdinaryStep DEF IInv
<1> QED
    BY <1>1, <1>2, <1>3, <1>4, <1>5, <1>6, <1>7

LEMMA StutterIInv == ASSUME IInv, UNCHANGED vars PROVE IInv'
<1>0. /\ UNCHANGED <<call, lockQueue, active, state, steerQueue, loaded>>
      /\ UNCHANGED <<thread, newest, store, native, watch, faults, doubtful>>
      /\ TypeOK /\ CoreInv /\ RestInv
    BY DEF vars, local, durable, server, IInv
<1>1. TurnsChange
    BY <1>0, Typed DEF TurnsChange, TurnsStay
<1> QED
    BY <1>0, <1>1, TurnCore, TurnRest DEF IInv

LEMMA ExecutorSteps == IInv /\ [Next]_vars => IInv'
<1> SUFFICES ASSUME IInv, [Next]_vars PROVE IInv'
    OBVIOUS
<1>0. TypeOK /\ CoreInv /\ RestInv
    BY DEF IInv
<1>1. ASSUME NEW c \in Call,
             \/ Enter(c) \/ Route(c) \/ RestartAfterFinal(c)
             \/ Admits(c) \/ SteersInto(c) \/ Note(c)
             \/ AbortCall(c) \/ StopWaiting(c) \/ StatementFails(c)
      PROVE  IInv'
    BY <1>1, AdmitsIInv, SteersIntoIInv, CallIInv
<1>2. ASSUME NEW t \in Turn, NativeEnds(t) \/ Notify(t) \/ NotifyError(t) PROVE IInv'
  <2>1. TurnsChange
    BY <1>0, <1>2, NativeEndsChanges, NotifyChanges, NotifyErrorChanges
  <2> QED
    BY <1>0, <2>1, TurnCore, TurnRest DEF IInv
<1>3. CASE TurnTimeout
    BY <1>0, <1>3, TurnTimeoutChanges, TurnCore, TurnRest DEF IInv
<1>4. CASE Finalize
    BY <1>0, <1>4, FinalizeCore, FinalizeRest DEF IInv
<1>5. CASE Disconnect
    BY <1>0, <1>5, DisconnectCore, DisconnectRest DEF IInv
<1>6. CASE IdleClose
    BY <1>0, <1>6, IdleCloseCore, IdleCloseRest DEF IInv
<1>7. CASE Crash
    BY <1>0, <1>7, CrashCore, CrashRest DEF IInv
<1>8. CASE UNCHANGED vars
    BY <1>8, StutterIInv
<1> QED
    BY <1>1, <1>2, <1>3, <1>4, <1>5, <1>6, <1>7, <1>8 DEF Next

LEMMA ExecutorInvariant == Spec => []IInv
    BY ExecutorStarts, ExecutorSteps, PTL DEF Spec

\* The locals of every call, the lock, the queues of the steers, the registered states, the
\* receipts and the turns keep their types, whatever calls, faults and turns do.
THEOREM ExecutorTypes == Spec => []TypeOK
<1>1. IInv => TypeOK
    BY DEF IInv
<1> QED
    BY <1>1, ExecutorInvariant, PTL

\* A prompt is on two turns of one thread only if one of them left no receipt, because it
\* completed with an empty answer or a fault took it: looking for receipts under the lock, before turn/start and before turn/steer, is
\* enough for any number of retries, steers, restarts and moves to another thread.
THEOREM NoPromptRepeated == Spec => []PromptNotRepeated
<1>1. IInv => PromptNotRepeated
    BY DEF IInv, RestInv
<1> QED
    BY <1>1, ExecutorInvariant, PTL

\* A caller is told of an answer, or that its message was accepted, only if that is so:
\* through waiters that take over, notes, receipts that are read back and reconciled steers.
THEOREM WhatIsReportedIsTrue == Spec => []ReportedIsTrue
<1>1. IInv => ReportedIsTrue
  <2> SUFFICES ASSUME IInv PROVE ReportedIsTrue
    OBVIOUS
  <2>1. \A c \in Call : Truly(c)
    BY DEF IInv, RestInv, ToldInv
  <2> QED
    BY <2>1 DEF ReportedIsTrue, Truly, PartOf
<1> QED
    BY <1>1, ExecutorInvariant, PTL

\* Two turns run on one thread only if one of them was given up: a thread is resumed and
\* interrupted, or named by a new id, before a turn is asked for on it.
THEOREM NoTurnsOverlap == Spec => []TurnsDoNotOverlap
<1>1. IInv => TurnsDoNotOverlap
    BY DEF IInv, RestInv
<1> QED
    BY <1>1, ExecutorInvariant, PTL
=============================================================================

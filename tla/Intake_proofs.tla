----------------------------- MODULE Intake_proofs -----------------------------
(***************************************************************************)
(* For any number of messages, faults and windows: a denied message stays  *)
(* out, and the checkpoint of catch-up leaves no open message behind.      *)
(***************************************************************************)
EXTENDS Intake, FiniteSetTheorems, SequenceTheorems, TLAPS

----------------------------------------------------------------------------
(***************************************************************************)
(* What catch-up knows of the messages it has been through.                *)
(***************************************************************************)

\* Messages are posted in order, and none in the future.
PostsOK ==
    /\ posted \in [Posts -> 0..MaxTime \cup {Never}]
    /\ \A x, y \in Posts : x < y /\ posted[y] # Never => posted[x] # Never
    /\ \A m \in Posts : posted[m] <= now

\* What was posted before the end of window w, and before it or among its first n, is not open.
Due(m, w) == since <= posted[m] /\ posted[m] < w.end
Read(w, n) ==
    \A m \in Posts : Due(m, w) /\ (posted[m] < w.start \/ Position(m, w) <= n) => fate[m] # "open"

\* The messages that value v of the cursor leaves behind are not open.
Safe(v) ==
    IF v.window # NoWindow THEN Read(v.window, v.window.token)
    ELSE \A m \in Posts : since <= posted[m] /\ posted[m] < v.through - OverlapMs => fate[m] # "open"

Timely(v) == v # NoCursor /\ v.through <= now /\ v.window.end <= now
First(v) == v.window # NoWindow /\ v.window.token = 0 /\ v.window.start = v.through

\* The writes that may still be applied: all were made of the cursor as it is.
Offer(r) == IF r.stage = "save" /\ r.current THEN {r.value} ELSE {}
Offers == late \cup Offer(run)
OfferOK(v) ==
    /\ v \in Cursor /\ Timely(v)
    /\ IF cursor = NoCursor THEN First(v) ELSE Safe(v)

CursorOK ==
    /\ cursor \in Cursor
    /\ cursor # NoCursor => Timely(cursor) /\ Safe(cursor)
    /\ \A v \in Offers : OfferOK(v)

RunRecord == [stage : {"idle", "page", "emit", "wait", "save"}, through : 0..MaxTime, window : Window,
              opening : BOOLEAN, current : BOOLEAN, pages : 0..MaxPages, todo : Seq(Posts),
              more : BOOLEAN, value : Cursor, then : {"idle", "page", "emit"}]

\* A page was read, and run r is going through it: its messages are not open, but for those still
\* to be emitted.
Paging(r) == r.stage \in {"emit", "wait"} \/ (r.stage = "save" /\ r.then = "emit")
Emitted(r) ==
    \A m \in Posts :
        /\ Due(m, r.window)
        /\ \/ ~r.more \/ posted[m] < r.window.start
           \/ Position(m, r.window) <= r.window.token + PageSize
        => fate[m] # "open" \/ \E i \in 1..Len(r.todo) : r.todo[i] = m

RunOK(r) ==
    /\ r \in RunRecord /\ Len(r.todo) <= PageSize
    /\ r.stage = "wait" => r.todo # <<>>
    /\ r.stage # "idle" => r.window # NoWindow /\ r.window.end <= now /\ r.through <= now
    /\ cursor = NoCursor => r.stage = "idle" \/ (r.stage = "save" /\ r.current /\ r.then = "page")
    /\ r.stage = "page" => Read(r.window, r.window.token)
    /\ Paging(r) => Emitted(r) /\ (r.more => r.window.token + PageSize <= LastMessage)
    /\ r.stage = "save" /\ r.then = "page" => r.value.window = r.window

CatchupInv ==
    /\ now \in 0..MaxTime /\ since \in 0..MaxTime /\ faults \in 0..MaxFaults
    /\ PostsOK /\ CursorOK /\ RunOK(run)

\* A message the endpoint denied is not on its way.  History is searched for, and never aborted.
TaskOK(t) ==
    /\ t.source = "history" => ~t.aborted
    /\ t.stage = "search" => t.source = "history"

AdmitInv ==
    /\ AdmissionTypeOK
    /\ task \in [Posts -> Task] /\ fate \in [Posts -> Fate]
    /\ {receipts, handed, denied} \subseteq SUBSET Posts /\ arrived \in 0..MaxLive
    /\ \A m \in denied : task[m].stage = "none"
    /\ \A m \in Posts : TaskOK(task[m])

AwaitedOK == \A m \in Posts : Awaited(m) => task[m].source = "history" /\ task[m].stage # "none"

IntakeInv == AdmitInv /\ CatchupInv /\ AwaitedOK

----------------------------------------------------------------------------
(* The list of the messages of a window.                                   *)

\* A member of a finite set of numbers is known by how many are not above it.
LEMMA Ranking ==
    ASSUME NEW N \in Nat, NEW S \in SUBSET (1..N)
    PROVE  LET rank(m) == Cardinality({x \in S : x <= m}) IN
           /\ Cardinality(S) \in 0..N
           /\ \A m \in S : rank(m) \in 1..Cardinality(S)
           /\ \A m, p \in S : rank(m) = rank(p) => m = p
           /\ \A k \in 1..Cardinality(S) : \E m \in S : rank(m) = k
<1> DEFINE upTo(m) == {x \in S : x <= m}
           rank(m) == Cardinality(upTo(m))
<1>1. IsFiniteSet(S) /\ Cardinality(S) \in Nat /\ Cardinality(S) <= N
  <2>1. IsFiniteSet(1..N) /\ Cardinality(1..N) = N
    BY FS_Interval
  <2>2. IsFiniteSet(S) /\ Cardinality(S) <= N
    BY <2>1, FS_Subset
  <2> QED
    BY <2>2, FS_CardinalityType
<1>2. ASSUME NEW m \in S
      PROVE  IsFiniteSet(upTo(m)) /\ rank(m) \in 1..Cardinality(S)
  <2>1. upTo(m) \in SUBSET S /\ m \in upTo(m)
    OBVIOUS
  <2>3. IsFiniteSet(upTo(m)) /\ rank(m) <= Cardinality(S) /\ rank(m) \in Nat
    BY <1>1, <2>1, FS_Subset, FS_CardinalityType
  <2>2. rank(m) # 0
    BY <2>1, <2>3, FS_EmptySet
  <2> QED
    BY <1>1, <2>2, <2>3
<1>3. ASSUME NEW m \in S, NEW p \in S, m < p PROVE rank(m) # rank(p)
  <2>0. m \in Nat /\ p \in Nat /\ \A x \in S : x \in Nat
    OBVIOUS
  <2>3. \A x \in upTo(m) : x \in upTo(p)
    BY <1>3, <2>0
  <2>4. p \in upTo(p) /\ p \notin upTo(m)
    BY <1>3, <2>0
  <2> HIDE DEF upTo
  <2>1. upTo(m) \in SUBSET upTo(p) /\ p \in upTo(p) /\ p \notin upTo(m)
    BY <2>3, <2>4
  <2> QED
    BY <1>2, <2>1, FS_Subset
<1>4. \A m, p \in S : rank(m) = rank(p) => m = p
    BY <1>3
<1>5. ASSUME NEW k \in 1..Cardinality(S) PROVE \E m \in S : rank(m) = k
  <2> DEFINE T == 1..Cardinality(S)
             f == [m \in S |-> rank(m)]
  <2>1. IsFiniteSet(T) /\ Cardinality(T) = Cardinality(S)
    BY <1>1, FS_Interval
  <2>2. f \in Injection(S, T)
    BY <1>2, <1>4 DEF Injection, IsInjective
  <2>3. f \in Surjection(S, T)
    BY <2>1, <2>2, FS_Injection
  <2> QED
    BY <2>3 DEF Surjection
<1> QED
    BY <1>1, <1>2, <1>4, <1>5

LEMMA HistoryList ==
    ASSUME NEW w
    PROVE  /\ History(w) \in Seq(Posts) /\ Len(History(w)) \in 0..LastMessage
           /\ \A m \in Listed(w) : /\ Position(m, w) \in 1..Len(History(w))
                                   /\ History(w)[Position(m, w)] = m
<1> DEFINE S == Listed(w)
           n == Cardinality(S)
<1>1. LastMessage \in Nat /\ S \in SUBSET (1..LastMessage)
    BY CatchupAssumption DEF Listed, Posts
<1>2. /\ n \in 0..LastMessage
      /\ \A m \in S : Position(m, w) \in 1..n
      /\ \A m, p \in S : Position(m, w) = Position(p, w) => m = p
      /\ \A k \in 1..n : \E m \in S : Position(m, w) = k
    BY <1>1, Ranking DEF Position
<1>3. History(w) = [k \in 1..n |-> CHOOSE m \in S : Position(m, w) = k]
    BY DEF History
<1> HIDE DEF n, S
<1>4. \A k \in 1..n : History(w)[k] \in S /\ Position(History(w)[k], w) = k
    BY <1>2, <1>3
<1>7. n \in Nat /\ S \subseteq Posts
    BY <1>1, <1>2 DEF Posts
<1>5. History(w) \in [1..n -> Posts] /\ n \in Nat
  <2> DEFINE h == History(w)
  <2>1. h = [k \in 1..n |-> h[k]] /\ \A k \in 1..n : h[k] \in Posts
    BY <1>3, <1>4, <1>7
  <2> HIDE DEF h
  <2>2. h \in [1..n -> Posts]
    BY <2>1
  <2> QED
    BY <1>7, <2>2 DEF h
<1>6. History(w) \in Seq(Posts) /\ Len(History(w)) = n
    BY <1>5
<1> QED
    BY <1>2, <1>4, <1>6 DEF S

----------------------------------------------------------------------------
(* The steps of an ingest.                                                 *)

Entry == [outcome : Outcome \cup {"none"}, union : BOOLEAN, replied : BOOLEAN, left : Nat]

\* The ingests under way.
Waiting(tasks) ==
    /\ \A m \in denied : tasks[m].stage = "none"
    /\ \A m \in Posts : TaskOK(tasks[m])

\* From tasks, the ingests of who go on; what is settled stays so.
GoOn(tasks, who) ==
    /\ task' \in [Posts -> Task] /\ \A m \in Posts \ who : task'[m] = tasks[m]
    /\ \A m \in Posts : TaskOK(task'[m])
    /\ denied' \in SUBSET Posts /\ \A m \in denied' : task'[m].stage = "none"
    /\ fate' \in [Posts -> Fate] /\ \A m \in Posts : fate'[m] \in {fate[m], "settled"}

\* What becomes of the ingests that share an answer.
Decided(tasks, who, outcome) ==
    \A m \in who :
        IF outcome = "allow" /\ ~tasks[m].aborted
        THEN task'[m].stage = "accept" /\ task'[m].source = tasks[m].source
        ELSE task'[m] = NoTask /\ (outcome # "allow" => fate'[m] = "settled")

LEMMA DecideIs ==
    ASSUME AdmitInv,
           NEW tasks \in [Posts -> Task], NEW who \in SUBSET Posts,
           NEW outcome \in Outcome \cup {"none"}, NEW kept \in Entry,
           Waiting(tasks), who \cap denied = {},
           Decide(tasks, who, outcome, kept)
    PROVE  GoOn(tasks, who) /\ entry' \in Entry /\ Decided(tasks, who, outcome)
<1> USE DEF Waiting
<1> DEFINE goesOn(m) == outcome = "allow" /\ ~tasks[m].aborted
           next(m) == IF m \notin who THEN tasks[m]
                      ELSE IF ~goesOn(m) THEN NoTask
                      ELSE [tasks[m] EXCEPT !.stage = "accept"]
<1>1. task' = [m \in Posts |-> next(m)]
    BY DEF Decide
<1>2. ASSUME NEW m \in Posts
      PROVE  /\ next(m) \in Task /\ TaskOK(next(m))
             /\ m \in who /\ goesOn(m) => next(m).stage = "accept" /\ next(m).source = tasks[m].source
    BY DEF Task, TaskOK, NoTask
<1>3. task' \in [Posts -> Task] /\ \A m \in Posts : task'[m] = next(m)
    BY <1>1, <1>2
<1>9. \A m \in Posts : /\ m \notin who => next(m) = tasks[m]
                       /\ m \in who /\ ~goesOn(m) => next(m) = NoTask
    OBVIOUS
<1>4. denied' \in SUBSET Posts /\ \A m \in denied' : task'[m].stage = "none"
  <2>1. denied' = IF outcome = "deny" THEN denied \cup who ELSE denied
    BY DEF Decide, Denied
  <2> QED
    BY <1>3, <2>1 DEF AdmitInv, NoTask
<1>5. entry' \in Entry
    BY DEF Decide, Notified, Entry
<1>6. /\ fate' = [m \in Posts |->
                    IF m \in (IF outcome = "allow" THEN {} ELSE who) THEN "settled" ELSE fate[m]]
      /\ fate \in [Posts -> Fate]
    BY DEF Decide, Settled, AdmitInv
<1>7. /\ fate' \in [Posts -> Fate] /\ \A m \in Posts : fate'[m] \in {fate[m], "settled"}
      /\ outcome # "allow" => \A m \in who : fate'[m] = "settled"
    BY <1>6 DEF Fate
<1> HIDE DEF next
<1>8. /\ \A m \in Posts : TaskOK(task'[m])
      /\ \A m \in Posts \ who : task'[m] = tasks[m]
    BY <1>2, <1>3, <1>9
<1> QED
    BY <1>2, <1>3, <1>4, <1>5, <1>7, <1>8, <1>9 DEF GoOn, Decided

\* check: the ingest of m is decided, or asks.
LEMMA CheckIs ==
    ASSUME AdmitInv, NEW tasks \in [Posts -> Task], NEW m \in Posts, NEW known \in BOOLEAN,
           m \notin denied, Waiting(tasks), Check(tasks, m, known)
    PROVE  /\ GoOn(tasks, {m}) /\ entry' \in Entry
           /\ task'[m].stage = "none" /\ ~tasks[m].aborted => fate'[m] # "open"
           /\ task'[m].stage # "none" => task'[m].source = tasks[m].source
<1>1. entry \in Entry /\ entry.outcome \in Outcome \cup {"none"} /\ {m} \in SUBSET Posts
    BY DEF AdmitInv, AdmissionTypeOK, Entry
<1>2. ASSUME NEW outcome \in Outcome \cup {"none"}, Decide(tasks, {m}, outcome, entry)
      PROVE  /\ GoOn(tasks, {m}) /\ entry' \in Entry
             /\ task'[m].stage = "none" /\ ~tasks[m].aborted => fate'[m] # "open"
             /\ task'[m].stage # "none" => task'[m].source = tasks[m].source
  <2> PICK who \in SUBSET Posts, kept \in Entry : who = {m} /\ kept = entry
    BY <1>1
  <2>1. who \cap denied = {} /\ Decide(tasks, who, outcome, kept)
    BY <1>2
  <2>2. GoOn(tasks, who) /\ entry' \in Entry /\ Decided(tasks, who, outcome)
    BY <2>1, DecideIs
  <2> QED
    BY <2>2 DEF Decided, NoTask
<1>3. CASE /\ task' = [tasks EXCEPT ![m].stage = "ask", ![m].union = known]
           /\ UNCHANGED <<entry, denied, fate>>
  <2> DEFINE t == [tasks[m] EXCEPT !.stage = "ask", !.union = known]
  <2>1. t \in Task /\ TaskOK(t) /\ t.stage = "ask" /\ t.source = tasks[m].source
    BY DEF Task, TaskOK, Waiting
  <2>2. task' = [tasks EXCEPT ![m] = t]
    BY <1>3 DEF Task
  <2> HIDE DEF t
  <2>3. GoOn(tasks, {m})
    BY <1>3, <2>1, <2>2 DEF GoOn, AdmitInv, Fate, Waiting
  <2> QED
    BY <1>1, <1>3, <2>1, <2>2, <2>3
<1>4. CASE Decide(tasks, {m}, entry.outcome, entry)
  <2> PICK outcome \in Outcome \cup {"none"} : outcome = entry.outcome
    BY <1>1
  <2> QED
    BY <1>2, <1>4
<1>5. "refuse" \in Outcome \cup {"none"}
    BY DEF Outcome
<1> QED
    BY <1>2, <1>3, <1>4, <1>5 DEF Check

\* ingest: an ingest of m that ends at once leaves it settled.
LEMMA IngestIs ==
    ASSUME AdmitInv, NEW m \in Posts, NEW source \in {"live", "history"}, Ingest(m, source)
    PROVE  /\ AdmissionTypeOK' /\ GoOn(task, {m}) /\ task[m].stage = "none"
           /\ task'[m].stage = "none" => fate'[m] # "open"
           /\ task'[m].stage # "none" => task'[m].source = source
<1> DEFINE fresh == [NoTask EXCEPT !.source = source]
<1>1. fresh \in Task /\ fresh.stage = "none" /\ fresh.source = source /\ ~fresh.aborted
    BY DEF NoTask, Task
<1>2. /\ task[m].stage = "none" /\ unions' = (unions \/ source = "live")
      /\ unions' \in BOOLEAN
    BY DEF Ingest, AdmitInv, AdmissionTypeOK
<1> PICK tasks : tasks = [task EXCEPT ![m] = fresh]
    OBVIOUS
<1>3. /\ tasks \in [Posts -> Task] /\ tasks[m] = fresh /\ \A x \in Posts \ {m} : tasks[x] = task[x]
      /\ Waiting(tasks)
    BY <1>1, <1>2 DEF AdmitInv, Waiting, Task, TaskOK
<1>4. lookups' \in Nat
    BY AdmissionAssumption DEF Ingest, AdmitInv, AdmissionTypeOK
<1>5. CASE Refused(m) /\ Settled({m}) /\ UNCHANGED <<task, entry, denied, lookups>>
  <2>1. /\ fate' \in [Posts -> Fate] /\ \A x \in Posts : fate'[x] \in {fate[x], "settled"}
        /\ fate'[m] = "settled"
    BY <1>5 DEF Settled, AdmitInv, Fate
  <2> QED
    BY <1>2, <1>4, <1>5, <2>1 DEF GoOn, AdmitInv, AdmissionTypeOK
<1>6. CASE /\ ~Refused(m) /\ source = "history"
           /\ task' = [tasks EXCEPT ![m].stage = "search"]
           /\ UNCHANGED <<entry, denied, fate>>
  <2> DEFINE t == [fresh EXCEPT !.stage = "search"]
  <2>1. t \in Task /\ TaskOK(t) /\ t.stage = "search" /\ t.source = source
    BY <1>1, <1>6 DEF Task, TaskOK
  <2>2. task' = [tasks EXCEPT ![m] = t]
    BY <1>3, <1>6 DEF Task
  <2> HIDE DEF t, fresh
  <2>3. GoOn(task, {m})
    BY <1>3, <1>6, <2>1, <2>2 DEF GoOn, AdmitInv, Fate, Refused, Waiting
  <2>4. AdmissionTypeOK'
    BY <1>2, <1>4, <1>6 DEF AdmitInv, AdmissionTypeOK
  <2> QED
    BY <1>2, <1>3, <2>1, <2>2, <2>3, <2>4
<1>7. CASE ~Refused(m) /\ Check(tasks, m, unions')
  <2> PICK known \in BOOLEAN : known = unions'
    BY <1>2
  <2>1. /\ GoOn(tasks, {m}) /\ entry' \in Entry
        /\ task'[m].stage = "none" /\ ~tasks[m].aborted => fate'[m] # "open"
        /\ task'[m].stage # "none" => task'[m].source = tasks[m].source
    BY <1>3, <1>7, CheckIs DEF Refused
  <2>2. GoOn(task, {m})
    BY <1>3, <2>1 DEF GoOn
  <2>3. AdmissionTypeOK'
    BY <1>2, <1>4, <2>1 DEF AdmissionTypeOK, Entry
  <2> QED
    BY <1>1, <1>2, <1>3, <2>1, <2>2, <2>3
<1> QED
    BY <1>5, <1>6, <1>7 DEF Ingest

----------------------------------------------------------------------------
(* What the steps of the others leave of what catch-up knows.              *)

LEMMA Constants ==
    /\ LastMessage \in Nat /\ OverlapMs \in Nat /\ LookbackMs \in Nat
    /\ MaxTime \in Nat /\ MaxFaults \in Nat
    /\ PageSize \in Nat /\ PageSize > 0 /\ MaxPages \in Nat
    /\ Posts \subseteq Nat
    BY CatchupAssumption DEF Posts

\* What is settled stays settled.
Onward ==
    /\ fate \in [Posts -> Fate] /\ fate' \in [Posts -> Fate]
    /\ \A m \in Posts : fate[m] # "open" => fate'[m] # "open"

\* Time goes on, and nothing is posted in the past.
Later ==
    /\ Onward /\ now \in Int /\ now' \in Int /\ now <= now' /\ since' = since
    /\ posted \in [Posts -> Int] /\ posted' \in [Posts -> Int]
    /\ \A m \in Posts : since <= posted'[m] /\ posted'[m] < now =>
          /\ posted'[m] = posted[m]
          /\ \A w \in Window : Position(m, w)' = Position(m, w)

LEMMA Windows ==
    /\ \A w \in Window : w.start \in Int /\ w.end \in Int /\ w.token \in Int
    /\ \A v \in Cursor : v.through \in Int /\ v.window \in Window
    BY Constants DEF Window, Cursor, NoWindow, NoCursor

LEMMA ReadKept ==
    ASSUME Later, NEW w \in Window, NEW n \in Int, w.end <= now, Read(w, n), since \in Int
    PROVE  Read(w, n)'
<1> SUFFICES ASSUME NEW m \in Posts, Due(m, w)', posted'[m] < w.start \/ Position(m, w)' <= n
             PROVE  fate'[m] # "open"
    BY DEF Read
<1>1. since <= posted'[m] /\ posted'[m] < now
    BY Windows DEF Due, Later
<1>2. posted'[m] = posted[m] /\ Position(m, w)' = Position(m, w)
    BY <1>1 DEF Later
<1>3. Due(m, w) /\ (posted[m] < w.start \/ Position(m, w) <= n)
    BY <1>2 DEF Due, Later
<1> QED
    BY <1>3 DEF Read, Later, Onward

LEMMA SafeKept ==
    ASSUME Later, NEW v \in Cursor, Timely(v), Safe(v), since \in Int
    PROVE  Timely(v)' /\ Safe(v)'
<1>1. Timely(v)'
    BY Windows DEF Timely, Later
<1>2. ASSUME v.window # NoWindow PROVE Safe(v)'
    BY <1>2, ReadKept, Windows DEF Safe, Timely
<1>3. ASSUME v.window = NoWindow PROVE Safe(v)'
  <2> SUFFICES ASSUME NEW m \in Posts, since <= posted'[m], posted'[m] < v.through - OverlapMs
               PROVE  fate'[m] # "open"
    BY <1>3 DEF Safe, Later
  <2>1. posted'[m] < now
    BY Windows, Constants DEF Timely, Later
  <2> QED
    BY <1>3, <2>1 DEF Safe, Later, Onward
<1> QED
    BY <1>1, <1>2, <1>3

LEMMA OfferKept ==
    ASSUME Later, UNCHANGED cursor, NEW v, OfferOK(v), since \in Int
    PROVE  OfferOK(v)'
<1>1. v \in Cursor /\ Timely(v)
    BY DEF OfferOK
<1>2. Timely(v)'
    BY <1>1, Windows DEF Timely, Later
<1>3. cursor # NoCursor => Safe(v)'
    BY <1>1, SafeKept DEF OfferOK
<1> QED
    BY <1>1, <1>2, <1>3 DEF OfferOK, First

LEMMA EmittedKept ==
    ASSUME Later, NEW r \in RunRecord, r.window.end <= now, Emitted(r), since \in Int
    PROVE  Emitted(r)'
<1> SUFFICES ASSUME NEW m \in Posts, Due(m, r.window)',
                    \/ ~r.more \/ posted'[m] < r.window.start
                    \/ Position(m, r.window)' <= r.window.token + PageSize
             PROVE  fate'[m] # "open" \/ \E i \in 1..Len(r.todo) : r.todo[i] = m
    BY DEF Emitted
<1>1. r.window \in Window
    BY DEF RunRecord
<1>2. since <= posted'[m] /\ posted'[m] < now
    BY <1>1, Windows DEF Due, Later
<1>3. posted'[m] = posted[m] /\ Position(m, r.window)' = Position(m, r.window)
    BY <1>1, <1>2 DEF Later
<1>4. /\ Due(m, r.window)
      /\ \/ ~r.more \/ posted[m] < r.window.start
         \/ Position(m, r.window) <= r.window.token + PageSize
    BY <1>3 DEF Due, Later
<1> QED
    BY <1>4 DEF Emitted, Later, Onward

LEMMA RunKept ==
    ASSUME Later, UNCHANGED cursor, NEW r, RunOK(r), since \in Int
    PROVE  RunOK(r)'
<1>1. r \in RunRecord /\ r.window \in Window /\ r.window.token \in Int /\ r.through \in Int
    BY Windows, Constants DEF RunOK, RunRecord
<1>2. r.stage # "idle" => r.window.end <= now /\ r.window.end <= now' /\ r.through <= now'
    BY <1>1, Windows DEF RunOK, Later
<1>3. r.stage = "page" => Read(r.window, r.window.token)'
    BY <1>1, <1>2, ReadKept DEF RunOK
<1>4. Paging(r) => Emitted(r)'
    BY <1>1, <1>2, EmittedKept DEF RunOK, Paging
<1> QED
    BY <1>1, <1>2, <1>3, <1>4 DEF RunOK, Paging

\* Such a step keeps the invariant if the run does, and what it wants to write is in order.
LEMMA StepKeeps ==
    ASSUME CatchupInv, Later, PostsOK', UNCHANGED cursor, now' \in 0..MaxTime,
           faults' \in 0..MaxFaults, late' \subseteq Offers, RunOK(run)',
           \A v \in Offer(run)' : v \in Offers \/ OfferOK(v)'
    PROVE  CatchupInv'
<1>1. since \in Int /\ since' \in 0..MaxTime
    BY Constants DEF CatchupInv, Later
<1>2. cursor # NoCursor => Timely(cursor)' /\ Safe(cursor)'
  <2> PICK v : v = cursor
    OBVIOUS
  <2>1. v # NoCursor => v \in Cursor /\ Timely(v) /\ Safe(v)
    BY DEF CatchupInv, CursorOK
  <2>2. v # NoCursor => Timely(v)' /\ Safe(v)'
    BY <1>1, <2>1, SafeKept
  <2> QED
    BY <2>2 DEF Timely, Safe, Read, Due, Position, Listed
<1>3. \A v \in Offers : OfferOK(v)'
    BY <1>1, OfferKept DEF CatchupInv, CursorOK
<1>4. CursorOK'
    BY <1>2, <1>3 DEF CursorOK, CatchupInv, Offers
<1> QED
    BY <1>1, <1>4 DEF CatchupInv

----------------------------------------------------------------------------
(* The steps of catch-up.                                                  *)

LEMMA NoRun ==
    /\ NoWindow \in Window /\ NoCursor \in Cursor /\ NoCursor.window = NoWindow
    /\ Idle \in RunRecord /\ Idle.stage = "idle" /\ Idle.todo = <<>> /\ Idle.current
    /\ Idle.window = NoWindow /\ Idle.value = NoCursor
<1>1. NoWindow \in Window /\ NoCursor \in Cursor /\ NoCursor.window = NoWindow
    BY DEF Window, Cursor, NoCursor
<1>2. <<>> \in Seq(Posts)
    OBVIOUS
<1> QED
    BY <1>1, <1>2, Constants DEF Idle, RunRecord

\* A run goes on to its next message once the one at the head is not open, or ends.
LEMMA RunGoesOn ==
    ASSUME CatchupInv, Onward, UNCHANGED <<now, posted, cursor, since>>, faults' \in 0..MaxFaults,
           late' \subseteq Offers, late' = late \/ run' = Idle,
           \/ run' = run
           \/ run' = Idle
           \/ /\ run.stage = "emit" /\ run.todo # <<>>
              /\ run' = [run EXCEPT !.stage = "wait"]
           \/ /\ run.stage \in {"emit", "wait"} /\ run.todo # <<>>
              /\ fate'[Head(run.todo)] # "open" /\ run' = Passed
    PROVE  CatchupInv'
<1>1. Later /\ PostsOK' /\ since \in Int
  <2>1. \A m \in Posts, w \in Window : Position(m, w)' = Position(m, w)
    BY DEF Position, Listed
  <2> QED
    BY <2>1, Constants DEF Later, PostsOK, CatchupInv, Never
<1>2. RunOK(run)' /\ \A v \in Offer(run)' : v \in Offers
  <2> PICK r : r = run
    OBVIOUS
  <2>1. RunOK(r) /\ r \in RunRecord
    BY DEF CatchupInv, RunOK
  <2>2. RunOK(r)'
    BY <1>1, <2>1, RunKept
  <2>3. CASE run' = run
    BY <2>2, <2>3 DEF Offers, Offer
  <2>4. CASE run' = Idle
    <3>1. RunOK(Idle)'
      BY NoRun, Constants DEF RunOK, Paging
    <3> QED
      BY <2>4, <3>1, NoRun DEF Offer
  <2>5. CASE run.stage = "emit" /\ run.todo # <<>> /\ run' = [run EXCEPT !.stage = "wait"]
    <3> PICK q : q = [r EXCEPT !.stage = "wait"]
      OBVIOUS
    <3>1. /\ q \in RunRecord /\ q.stage = "wait" /\ q.todo = r.todo /\ q.window = r.window
          /\ q.more = r.more /\ q.through = r.through
      BY <2>1 DEF RunRecord
    <3>2. RunOK(q)'
      BY <2>2, <2>5, <3>1 DEF RunOK, Paging, Emitted
    <3> QED
      BY <2>5, <3>1, <3>2 DEF Offer
  <2>6. CASE /\ run.stage \in {"emit", "wait"} /\ run.todo # <<>>
             /\ fate'[Head(run.todo)] # "open" /\ run' = Passed
    <3> PICK q : q = [r EXCEPT !.stage = "emit", !.todo = Tail(@)]
      OBVIOUS
    <3>1. /\ r.todo \in Seq(Posts) /\ Tail(r.todo) \in Seq(Posts) /\ r.todo # <<>>
          /\ Len(Tail(r.todo)) = Len(r.todo) - 1 /\ Len(r.todo) \in Nat
          /\ \A i \in 1..Len(Tail(r.todo)) : Tail(r.todo)[i] = r.todo[i + 1]
      BY <2>1, <2>6 DEF RunRecord
    <3>2. /\ q \in RunRecord /\ q.stage = "emit" /\ q.todo = Tail(r.todo) /\ q.window = r.window
          /\ q.more = r.more /\ q.through = r.through
      BY <2>1, <3>1 DEF RunRecord
    <3>3. Emitted(q)'
      <4> SUFFICES ASSUME NEW m \in Posts, Due(m, r.window)',
                          \/ ~r.more \/ posted'[m] < r.window.start
                          \/ Position(m, r.window)' <= r.window.token + PageSize,
                          fate'[m] = "open"
                   PROVE  \E i \in 1..Len(q.todo) : q.todo[i] = m
        BY <3>2 DEF Emitted
      <4>1. PICK i \in 1..Len(r.todo) : r.todo[i] = m
        BY <2>2, <2>6 DEF RunOK, Paging, Emitted
      <4>2. i # 1
        BY <2>6, <3>1, <4>1
      <4>3. i - 1 \in 1..Len(q.todo) /\ q.todo[i - 1] = m
        BY <3>1, <3>2, <4>1, <4>2
      <4> QED
        BY <4>3
    <3>4. RunOK(q)'
      BY <2>2, <2>6, <3>1, <3>2, <3>3, Constants DEF RunOK, Paging
    <3> QED
      BY <2>6, <3>2, <3>4 DEF Offer, Passed
  <2> QED
    BY <2>3, <2>4, <2>5, <2>6
<1> QED
    BY <1>1, <1>2, StepKeeps DEF CatchupInv

LEMMA PostKeeps ==
    ASSUME CatchupInv, fate \in [Posts -> Fate], UNCHANGED fate, NEW p \in Posts, Post(p)
    PROVE  CatchupInv'
<1>1. /\ posted \in [Posts -> 0..MaxTime \cup {Never}] /\ now \in 0..MaxTime /\ since \in 0..MaxTime
      /\ posted[p] = Never /\ \A x \in Posts : x < p => posted[x] # Never
      /\ posted' = [posted EXCEPT ![p] = now]
      /\ UNCHANGED <<now, cursor, late, run, since, faults>>
    BY DEF Post, CatchupInv, PostsOK
<1>2. /\ posted' \in [Posts -> 0..MaxTime \cup {Never}] /\ posted'[p] = now
      /\ \A m \in Posts \ {p} : posted'[m] = posted[m]
    BY <1>1
<1>3. PostsOK'
    BY <1>1, <1>2, Constants DEF PostsOK, CatchupInv, Never
<1>4. ASSUME NEW m \in Posts, since <= posted'[m], posted'[m] < now, NEW w \in Window
      PROVE  posted'[m] = posted[m] /\ Position(m, w)' = Position(m, w)
  <2>1. m # p /\ posted[m] # Never
    BY <1>1, <1>2, <1>4, Constants DEF Never
  <2>2. ~(p <= m)
    BY <1>1, <2>1, Constants DEF CatchupInv, PostsOK
  <2>3. {x \in Listed(w) : x <= m}' = {x \in Listed(w) : x <= m}
    BY <1>2, <2>2 DEF Listed
  <2> QED
    BY <1>2, <2>1, <2>3 DEF Position
<1>5. ASSUME NEW m \in Posts, since <= posted'[m], posted'[m] < now
      PROVE  posted'[m] = posted[m]
    BY <1>1, <1>2, <1>5, Constants
<1>6. Later /\ since \in Int
    BY <1>1, <1>2, <1>4, <1>5, Constants DEF Later, Onward, Never
<1>7. RunOK(run)'
  <2> PICK r : r = run
    OBVIOUS
  <2>1. RunOK(r)'
    BY <1>1, <1>6, RunKept DEF CatchupInv
  <2> QED
    BY <1>1, <2>1
<1> QED
    BY <1>1, <1>3, <1>6, <1>7, StepKeeps DEF CatchupInv, Offers, Offer

LEMMA ElapseKeeps ==
    ASSUME CatchupInv, fate \in [Posts -> Fate], UNCHANGED fate, Elapse
    PROVE  CatchupInv'
<1>1. /\ UNCHANGED <<posted, cursor, late, run, since, faults>> /\ now' = now + 1 /\ now < MaxTime
      /\ now \in 0..MaxTime
    BY DEF Elapse, CatchupInv
<1>2. \A m \in Posts, w \in Window : Position(m, w)' = Position(m, w)
    BY <1>1 DEF Position, Listed
<1>3. Later /\ PostsOK' /\ since \in Int
    BY <1>1, <1>2, Constants DEF Later, Onward, PostsOK, CatchupInv, Never
<1>4. RunOK(run)'
  <2> PICK r : r = run
    OBVIOUS
  <2>1. RunOK(r)'
    BY <1>1, <1>3, RunKept DEF CatchupInv
  <2> QED
    BY <1>1, <2>1
<1> QED
    BY <1>1, <1>3, <1>4, Constants, StepKeeps DEF CatchupInv, Offers, Offer

\* The steps of a run alone.
LEMMA Meanwhile ==
    ASSUME CatchupInv, fate \in [Posts -> Fate], UNCHANGED fate,
           UNCHANGED <<now, posted, cursor, since, faults, late>>,
           NEW r, RunOK(r), \A v \in Offer(r) : OfferOK(v), run' = r
    PROVE  CatchupInv'
<1>1. Later /\ PostsOK' /\ since \in Int
  <2>1. \A m \in Posts, w \in Window : Position(m, w)' = Position(m, w)
    BY DEF Position, Listed
  <2> QED
    BY <2>1, Constants DEF Later, Onward, PostsOK, CatchupInv, Never
<1>2. RunOK(r)' /\ \A v \in Offer(r) : OfferOK(v)'
    BY <1>1, RunKept, OfferKept
<1> QED
    BY <1>1, <1>2, StepKeeps DEF CatchupInv, Offers, Offer

LEMMA BeginRunKeeps ==
    ASSUME CatchupInv, fate \in [Posts -> Fate], UNCHANGED fate, BeginRun
    PROVE  CatchupInv'
<1>1. now \in 0..MaxTime /\ since \in 0..MaxTime /\ CursorOK
    BY DEF CatchupInv
<1>2. Start \in 0..MaxTime /\ Start <= now
  <2>1. Earliest \in Int /\ Earliest <= now
    BY <1>1, Constants, Windows DEF Earliest, CursorOK, Timely
  <2> QED
    BY <1>1, <2>1, Constants DEF Start
<1>3. PICK window : window = IF cursor.window # NoWindow THEN cursor.window
                             ELSE [start |-> Start, end |-> now, token |-> 0]
    OBVIOUS
<1>4. /\ window \in Window /\ window # NoWindow /\ window.end <= now
      /\ cursor = NoCursor => window.start = Start /\ window.token = 0
  <2>1. CASE cursor.window # NoWindow
    BY <1>1, <1>3, <2>1, Windows, NoRun DEF CursorOK, Timely
  <2>2. CASE cursor.window = NoWindow
    BY <1>1, <1>2, <1>3, <2>2, Constants DEF Window, NoWindow
  <2> QED
    BY <2>1, <2>2
<1>5. cursor # NoCursor => Read(window, window.token)
  <2>1. CASE cursor # NoCursor /\ cursor.window # NoWindow
    BY <1>1, <1>3, <2>1 DEF CursorOK, Safe
  <2>2. CASE cursor # NoCursor /\ cursor.window = NoWindow
    <3>1. window.start = Start /\ window.token = 0 /\ window.end = now
      BY <1>3, <2>2
    <3> SUFFICES ASSUME NEW m \in Posts, Due(m, window),
                        posted[m] < window.start \/ Position(m, window) <= 0
                 PROVE  fate[m] # "open"
      BY <3>1 DEF Read
    <3>2. posted[m] \in Int /\ since <= posted[m] /\ posted[m] < now
      BY <1>1, <3>1, Constants DEF Due, CatchupInv, PostsOK, Never
    <3>3. posted[m] < Start
      <4>1. CASE m \in Listed(window)
        BY <4>1, <1>2, <3>1, <3>2, HistoryList DEF CatchupInv, PostsOK
      <4>2. CASE m \notin Listed(window)
        BY <4>2, <1>1, <1>2, <3>1, <3>2, Constants DEF Listed
      <4> QED
        BY <4>1, <4>2
    <3>4. posted[m] < cursor.through - OverlapMs
      BY <1>1, <2>2, <3>2, <3>3, Constants, Windows DEF Start, Earliest, CursorOK
    <3> QED
      BY <1>1, <2>2, <3>2, <3>4 DEF CursorOK, Safe
  <2> QED
    BY <2>1, <2>2
<1>6. PICK through : through = IF cursor = NoCursor THEN Start ELSE cursor.through
    OBVIOUS
<1>7. through \in 0..MaxTime /\ through <= now
    BY <1>1, <1>2, <1>6, Constants, Windows DEF CursorOK, Timely, Cursor
<1>8. PICK r : r = [Idle EXCEPT !.stage = "page", !.window = window, !.through = through,
                                !.opening = cursor # NoCursor /\ cursor.window = NoWindow]
    OBVIOUS
<1>9. /\ r \in RunRecord /\ r.stage = "page" /\ r.window = window /\ r.through = through
      /\ r.todo = <<>> /\ r.current
    BY <1>4, <1>7, <1>8, NoRun DEF RunRecord
<1>10. CASE cursor = NoCursor
  <2> PICK v : v = [through |-> Start, window |-> window]
    OBVIOUS
  <2>1. v \in Cursor /\ Timely(v) /\ First(v) /\ v.window = window
    BY <1>2, <1>4, <1>10 DEF Cursor, Timely, First, NoCursor
  <2> PICK q : q = [r EXCEPT !.stage = "save", !.value = v, !.then = "page"]
    OBVIOUS
  <2>2. /\ q \in RunRecord /\ q.stage = "save" /\ q.window = window /\ q.through = through
        /\ q.todo = <<>> /\ q.current /\ q.value = v /\ q.then = "page"
    BY <1>9, <2>1 DEF RunRecord
  <2>3. RunOK(q)
    BY <1>4, <1>7, <2>1, <2>2, Constants DEF RunOK, Paging
  <2>4. \A x \in Offer(q) : OfferOK(x)
    BY <1>10, <2>1, <2>2 DEF Offer, OfferOK
  <2>5. run' = q
    BY <1>3, <1>6, <1>8, <1>10 DEF BeginRun, Saving
  <2> QED
    BY <2>3, <2>4, <2>5, Meanwhile DEF BeginRun
<1>11. CASE cursor # NoCursor
  <2>1. RunOK(r)
    BY <1>4, <1>5, <1>7, <1>9, <1>11, Constants DEF RunOK, Paging
  <2>2. run' = r
    BY <1>3, <1>6, <1>8, <1>11 DEF BeginRun
  <2> QED
    BY <1>9, <2>1, <2>2, Meanwhile DEF BeginRun, Offer
<1> QED
    BY <1>10, <1>11

\* A window that was read to its end leaves nothing open behind.
LEMMA ClosedIsSafe ==
    ASSUME CatchupInv, NEW r \in RunRecord, Emitted(r), ~r.more, r.todo = <<>>,
           r.window # NoWindow, r.window.end <= now,
           NEW v, v = [through |-> r.window.end, window |-> NoWindow]
    PROVE  v \in Cursor /\ Timely(v) /\ Safe(v)
<1>1. /\ r.window.end \in 0..MaxTime /\ since \in 0..MaxTime /\ now \in 0..MaxTime
      /\ posted \in [Posts -> 0..MaxTime \cup {Never}]
    BY DEF RunRecord, Window, CatchupInv, PostsOK
<1>2. v \in Cursor /\ Timely(v)
    BY <1>1, NoRun, Constants DEF Cursor, Timely, NoCursor, NoWindow
<1>3. ASSUME NEW m \in Posts, since <= posted[m], posted[m] < v.through - OverlapMs
      PROVE  fate[m] # "open"
  <2>1. Due(m, r.window)
    BY <1>1, <1>3, Constants DEF Due, Never
  <2> QED
    BY <2>1 DEF Emitted
<1> QED
    BY <1>2, <1>3 DEF Safe

\* What is left of a list, and the page at its head.
LEMMA Heads ==
    ASSUME NEW rest \in Seq(Posts), Len(rest) > PageSize
    PROVE  /\ SubSeq(rest, 1, PageSize) \in Seq(Posts)
           /\ Len(SubSeq(rest, 1, PageSize)) = PageSize
           /\ \A i \in 1..PageSize : SubSeq(rest, 1, PageSize)[i] = rest[i]
<1>1. PageSize \in Int /\ PageSize > 0 /\ 1 \in Int /\ Len(rest) \in Int
    BY Constants
<1>2. \A i \in 1..PageSize : rest[i] \in Posts
    BY <1>1
<1> PICK head : head = SubSeq(rest, 1, PageSize)
    OBVIOUS
<1>3. /\ head \in Seq(Posts)
      /\ Len(head) = IF 1 <= PageSize THEN PageSize - 1 + 1 ELSE 0
      /\ \A i \in 1..(PageSize - 1 + 1) : head[i] = rest[1 + i - 1]
    BY <1>1, <1>2, SubSeqProperties
<1>4. Len(head) = PageSize /\ \A i \in 1..PageSize : head[i] = rest[i]
    BY <1>1, <1>3
<1> QED
    BY <1>3, <1>4

LEMMA Rests ==
    ASSUME NEW list \in Seq(Posts), NEW n \in Nat,
           NEW rest, rest = SubSeq(list, n + 1, Len(list))
    PROVE  /\ rest \in Seq(Posts) /\ Len(rest) \in Nat
           /\ Len(rest) > 0 => Len(rest) + n = Len(list)
           /\ \A i \in 1..Len(list) : i > n => i - n \in 1..Len(rest) /\ rest[i - n] = list[i]
<1>1. Len(list) \in Nat /\ n + 1 \in Int /\ \A i \in (n + 1)..Len(list) : list[i] \in Posts
    OBVIOUS
<1>2. /\ rest \in Seq(Posts)
      /\ Len(rest) = IF n + 1 <= Len(list) THEN Len(list) - (n + 1) + 1 ELSE 0
      /\ \A i \in 1..(Len(list) - (n + 1) + 1) : rest[i] = list[n + 1 + i - 1]
    BY <1>1, SubSeqProperties
<1>3. Len(rest) \in Nat /\ (Len(rest) > 0 => Len(rest) + n = Len(list))
    BY <1>1, <1>2
<1>4. ASSUME NEW i \in 1..Len(list), i > n
      PROVE  i - n \in 1..Len(rest) /\ rest[i - n] = list[i]
  <2>1. i - n \in 1..(Len(list) - (n + 1) + 1) /\ n + 1 + (i - n) - 1 = i
    BY <1>1, <1>4
  <2>2. Len(rest) = Len(list) - n
    BY <1>1, <1>2, <1>4
  <2>3. rest[i - n] = list[n + 1 + (i - n) - 1]
    BY <1>2, <2>1
  <2> QED
    BY <1>1, <1>4, <2>1, <2>2, <2>3
<1> QED
    BY <1>2, <1>3, <1>4

LEMMA PageSizeIs == PageSize \in Nat /\ PageSize > 0
    BY CatchupAssumption

IsPage(list, n, rest, items) ==
    /\ rest = SubSeq(list, n + 1, Len(list))
    /\ items = IF Len(rest) > PageSize THEN SubSeq(rest, 1, PageSize) ELSE rest

LEMMA Pages ==
    ASSUME NEW list \in Seq(Posts), NEW n \in Nat, NEW rest, NEW items,
           IsPage(list, n, rest, items)
    PROVE  /\ items \in Seq(Posts) /\ Len(items) <= PageSize
           /\ Len(rest) > PageSize => items # <<>> /\ n + PageSize <= Len(list)
           /\ \A i \in 1..Len(list) :
                 i > n /\ (Len(rest) > PageSize => i <= n + PageSize) =>
                     i - n \in 1..Len(items) /\ items[i - n] = list[i]
<1>1. /\ rest \in Seq(Posts) /\ Len(rest) \in Nat
      /\ Len(rest) > 0 => Len(rest) + n = Len(list)
      /\ \A i \in 1..Len(list) : i > n => i - n \in 1..Len(rest) /\ rest[i - n] = list[i]
    BY Rests DEF IsPage
<1>2. CASE Len(rest) > PageSize
  <2>1. /\ items \in Seq(Posts) /\ Len(items) = PageSize
        /\ \A i \in 1..PageSize : items[i] = rest[i]
    BY <1>1, <1>2, Heads DEF IsPage
  <2>4. items # <<>>
    BY <2>1, PageSizeIs, EmptySeq
  <2>5. Len(list) \in Nat
    OBVIOUS
  <2>2. n + PageSize <= Len(list)
    BY <1>1, <1>2, <2>5, PageSizeIs
  <2>3. ASSUME NEW i \in 1..Len(list), i > n, i <= n + PageSize
        PROVE  i - n \in 1..Len(items) /\ items[i - n] = list[i]
    <3>1. i - n \in 1..PageSize
      BY <2>3, PageSizeIs
    <3> QED
      BY <1>1, <2>1, <2>3, <3>1
  <2> QED
    <3>1. Len(items) <= PageSize
      BY <2>1, PageSizeIs
    <3> QED
      BY <1>2, <2>1, <2>2, <2>3, <2>4, <3>1
<1>3. CASE ~(Len(rest) > PageSize)
    BY <1>1, <1>3, PageSizeIs DEF IsPage
<1> QED
    BY <1>2, <1>3

\* An open message that is due is in the window, and not yet read.
LEMMA Unread ==
    ASSUME CatchupInv, NEW w \in Window, NEW n, Read(w, n),
           NEW m \in Posts, Due(m, w), fate[m] = "open"
    PROVE  m \in Listed(w) /\ ~(Position(m, w) <= n) /\ ~(posted[m] < w.start)
<1>1. ~(posted[m] < w.start) /\ ~(Position(m, w) <= n)
    BY DEF Read
<1>2. posted[m] \in Int /\ w.start \in Int /\ w.end \in Int
    BY Constants, Windows DEF CatchupInv, PostsOK, Never
<1>3. posted[m] \in w.start..w.end
    BY <1>1, <1>2 DEF Due
<1> QED
    BY <1>1, <1>3 DEF Listed

\* What is read of a page is emitted, or was read before.
LEMMA PageIsRead ==
    ASSUME CatchupInv, NEW w \in Window, w # NoWindow, Read(w, w.token),
           NEW rest, NEW r \in RunRecord, r.window = w, r.more = (Len(rest) > PageSize),
           IsPage(History(w), w.token, rest, r.todo)
    PROVE  Emitted(r) /\ Len(r.todo) <= PageSize /\ (r.more => w.token + PageSize <= LastMessage)
<1>1. PICK list, n, items : list = History(w) /\ n = w.token /\ items = r.todo
    OBVIOUS
<1>2. n \in Nat
    BY <1>1, Constants DEF Window, NoWindow
<1>3. /\ list \in Seq(Posts) /\ Len(list) \in 0..LastMessage
      /\ \A m \in Listed(w) : Position(m, w) \in 1..Len(list) /\ list[Position(m, w)] = m
    BY <1>1, HistoryList
<1>4. /\ items \in Seq(Posts) /\ Len(items) <= PageSize
      /\ r.more => n + PageSize <= Len(list)
      /\ \A i \in 1..Len(list) :
            i > n /\ (r.more => i <= n + PageSize) =>
                i - n \in 1..Len(items) /\ items[i - n] = list[i]
  <2>1. IsPage(list, n, rest, items)
    BY <1>1
  <2>2. /\ items \in Seq(Posts) /\ Len(items) <= PageSize
        /\ Len(rest) > PageSize => items # <<>> /\ n + PageSize <= Len(list)
        /\ \A i \in 1..Len(list) :
              i > n /\ (Len(rest) > PageSize => i <= n + PageSize) =>
                  i - n \in 1..Len(items) /\ items[i - n] = list[i]
    BY <1>2, <1>3, <2>1, Pages
  <2>3. CASE Len(rest) > PageSize
    <3>1. r.more
      BY <2>3
    <3> QED
      BY <2>2, <2>3, <3>1
  <2>4. CASE ~(Len(rest) > PageSize)
    <3>1. ~r.more
      BY <2>4
    <3> QED
      BY <2>2, <2>4, <3>1
  <2> QED
    BY <2>3, <2>4
<1>5. ASSUME NEW m \in Posts, Due(m, w), fate[m] = "open",
             \/ ~r.more \/ posted[m] < w.start \/ Position(m, w) <= n + PageSize
      PROVE  \E i \in 1..Len(items) : items[i] = m
  <2>1. m \in Listed(w) /\ ~(Position(m, w) <= n) /\ ~(posted[m] < w.start)
    BY <1>1, <1>5, Unread
  <2>2. PICK i \in 1..Len(list) : i = Position(m, w) /\ list[i] = m
    BY <1>3, <2>1
  <2>3. i > n /\ (r.more => i <= n + PageSize)
    BY <1>2, <1>3, <1>5, <2>1, <2>2
  <2> QED
    BY <1>4, <2>2, <2>3
<1>6. Emitted(r)
    BY <1>1, <1>5 DEF Emitted
<1>7. r.more => w.token + PageSize <= LastMessage
    BY <1>1, <1>2, <1>3, <1>4, PageSizeIs, Constants
<1> QED
    BY <1>1, <1>4, <1>6, <1>7

LEMMA FetchKeeps ==
    ASSUME CatchupInv, fate \in [Posts -> Fate], UNCHANGED fate, Fetch
    PROVE  CatchupInv'
<1> PICK p, w : p = run /\ w = run.window
    OBVIOUS
<1>1. /\ p \in RunRecord /\ p.stage = "page" /\ p.pages < MaxPages /\ cursor # NoCursor
      /\ w \in Window /\ w # NoWindow /\ w.end <= now /\ p.through <= now /\ Read(w, w.token)
      /\ p.window = w /\ p.through \in 0..MaxTime
    BY DEF Fetch, CatchupInv, RunOK, RunRecord
<1>2. PICK rest : rest = SubSeq(History(w), w.token + 1, Len(History(w)))
    OBVIOUS
<1>3. PICK items : items = IF Len(rest) > PageSize THEN SubSeq(rest, 1, PageSize) ELSE rest
    OBVIOUS
<1>14. PICK more \in BOOLEAN : more = (Len(rest) > PageSize)
  <2>1. CASE Len(rest) > PageSize
    BY <2>1, Zenon
  <2>2. CASE ~(Len(rest) > PageSize)
    <3>1. FALSE = (Len(rest) > PageSize)
      BY <2>2
    <3> QED
      BY <3>1, Zenon
  <2> QED
    BY <2>1, <2>2
<1>12. PICK r : r = [p EXCEPT !.stage = "emit", !.opening = FALSE, !.pages = @ + 1,
                             !.todo = items, !.more = more]
    OBVIOUS
<1>13. rest \in Seq(Posts) /\ items \in Seq(Posts)
  <2>1. w.token \in Nat
    BY <1>1, Constants DEF Window, NoWindow
  <2>2. \A i \in (w.token + 1)..Len(History(w)) : History(w)[i] \in Posts
    BY <2>1, HistoryList
  <2>3. Len(History(w)) \in Int
    BY HistoryList, Constants
  <2>4. rest \in Seq(Posts)
    BY <1>2, <2>1, <2>2, <2>3, SubSeqProperties
  <2> QED
    BY <1>3, <2>4, Heads
<1>15. Len(rest) > PageSize => items # <<>>
  <2> SUFFICES ASSUME Len(rest) > PageSize PROVE items # <<>>
    OBVIOUS
  <2>1. Len(SubSeq(rest, 1, PageSize)) = PageSize
    BY <1>13, Heads
  <2>2. Len(items) # 0
    BY <1>3, <2>1, PageSizeIs
  <2> QED
    BY <2>2, EmptySeq
<1>4. /\ r \in RunRecord /\ r.stage = "emit" /\ r.window = w /\ r.through = p.through
      /\ r.todo = items /\ r.more = more
  <2>1. p.pages + 1 \in 0..MaxPages
    BY <1>1, Constants DEF RunRecord
  <2> QED
    BY <1>1, <1>12, <1>13, <2>1 DEF RunRecord
<1>5. Emitted(r) /\ Len(items) <= PageSize /\ (r.more => w.token + PageSize <= LastMessage)
  <2>1. IsPage(History(w), w.token, rest, r.todo)
    BY <1>2, <1>3, <1>4 DEF IsPage
  <2> QED
    BY <1>1, <1>4, <1>14, <2>1, PageIsRead
<1>6. RunOK(r)
    BY <1>1, <1>4, <1>5 DEF RunOK, Paging
<1>7. /\ UNCHANGED <<now, posted, cursor, late, since, faults>>
      /\ run' = IF ~p.opening THEN r
                ELSE IF items = <<>>
                THEN Saving(r, [through |-> w.end, window |-> NoWindow], "idle")
                ELSE Saving(r, [through |-> p.through, window |-> w], "emit")
    BY <1>2, <1>3, <1>12, <1>14 DEF Fetch, Closed
<1>8. ASSUME NEW v \in Cursor, Timely(v), Safe(v), NEW then \in {"idle", "emit"},
             run' = Saving(r, v, then)
      PROVE  CatchupInv'
  <2> PICK q : q = [r EXCEPT !.stage = "save", !.value = v, !.then = then]
    OBVIOUS
  <2>1. /\ q \in RunRecord /\ q.stage = "save" /\ q.window = w /\ q.through = p.through
        /\ q.todo = items /\ q.more = r.more /\ q.value = v /\ q.then = then
    BY <1>4, <1>8 DEF RunRecord
  <2>2. Emitted(q)
    BY <1>4, <1>5, <2>1 DEF Emitted
  <2>3. RunOK(q)
    BY <1>1, <1>5, <2>1, <2>2 DEF RunOK, Paging
  <2>4. \A x \in Offer(q) : OfferOK(x)
    BY <1>1, <1>8, <2>1 DEF Offer, OfferOK
  <2> QED
    BY <1>7, <1>8, <2>3, <2>4, Meanwhile DEF Saving
<1>9. CASE ~p.opening
    BY <1>4, <1>6, <1>7, <1>9, Meanwhile DEF Offer
<1>10. CASE p.opening /\ items = <<>>
  <2> PICK v : v = [through |-> w.end, window |-> NoWindow]
    OBVIOUS
  <2>1. v \in Cursor /\ Timely(v) /\ Safe(v)
    <3>1. ~r.more
      BY <1>4, <1>10, <1>14, <1>15
    <3> QED
      BY <1>1, <1>4, <1>5, <1>10, <3>1, ClosedIsSafe
  <2> QED
    BY <1>7, <1>8, <1>10, <2>1
<1>11. CASE p.opening /\ items # <<>>
  <2> PICK v : v = [through |-> p.through, window |-> w]
    OBVIOUS
  <2>1. v \in Cursor /\ Timely(v) /\ Safe(v)
    BY <1>1, Constants DEF Cursor, Timely, Safe, NoCursor
  <2> QED
    BY <1>7, <1>8, <1>11, <2>1
<1> QED
    BY <1>9, <1>10, <1>11

LEMMA PageDoneKeeps ==
    ASSUME CatchupInv, fate \in [Posts -> Fate], UNCHANGED fate, PageDone
    PROVE  CatchupInv'
<1> PICK p, w : p = run /\ w = run.window
    OBVIOUS
<1>1. /\ p \in RunRecord /\ p.stage = "emit" /\ p.todo = <<>> /\ cursor # NoCursor
      /\ w \in Window /\ w # NoWindow /\ w.end <= now /\ p.through <= now /\ p.window = w
      /\ p.through \in 0..MaxTime /\ Emitted(p) /\ (p.more => w.token + PageSize <= LastMessage)
      /\ p.more \in BOOLEAN /\ Len(p.todo) <= PageSize
      /\ UNCHANGED <<now, posted, cursor, late, since, faults>>
    BY DEF PageDone, CatchupInv, RunOK, RunRecord, Paging
<1>2. CASE p.more
  <2> PICK n : n = [w EXCEPT !.token = @ + PageSize]
    OBVIOUS
  <2>1. /\ n \in Window /\ n # NoWindow /\ n.start = w.start /\ n.end = w.end
        /\ n.token = w.token + PageSize
    <3>1. /\ w \in [start : 0..MaxTime, end : 0..MaxTime, token : 0..LastMessage]
          /\ w.token + PageSize \in 0..LastMessage
      BY <1>1, <1>2, PageSizeIs, Constants DEF Window, NoWindow
    <3>2. /\ n \in [start : 0..MaxTime, end : 0..MaxTime, token : 0..LastMessage]
          /\ n.start = w.start /\ n.end = w.end /\ n.token = w.token + PageSize
      BY <3>1
    <3>3. n # NoWindow
      BY <3>2, Constants DEF NoWindow
    <3> QED
      BY <3>2, <3>3 DEF Window
  <2>2. Read(n, n.token)
    <3> SUFFICES ASSUME NEW m \in Posts, Due(m, n), posted[m] < n.start \/ Position(m, n) <= n.token
                 PROVE  fate[m] # "open"
      BY DEF Read
    <3>1. Due(m, w) /\ Position(m, n) = Position(m, w)
      BY <2>1 DEF Due, Position, Listed
    <3>2. fate[m] # "open" \/ \E i \in 1..Len(p.todo) : p.todo[i] = m
      BY <1>1, <2>1, <3>1 DEF Emitted
    <3> QED
      BY <1>1, <3>2
  <2> PICK v : v = [through |-> p.through, window |-> n]
    OBVIOUS
  <2>3. v \in Cursor /\ Timely(v) /\ Safe(v) /\ v.window = n
    BY <1>1, <2>1, <2>2, Constants DEF Cursor, Timely, Safe, NoCursor
  <2> PICK q : q = [p EXCEPT !.window = n, !.stage = "save", !.value = v, !.then = "page"]
    OBVIOUS
  <2>4. /\ q \in RunRecord /\ q.stage = "save" /\ q.window = n /\ q.through = p.through
        /\ q.todo = p.todo /\ q.value = v /\ q.then = "page"
    BY <1>1, <2>1, <2>3 DEF RunRecord
  <2>5. RunOK(q)
    BY <1>1, <2>1, <2>3, <2>4 DEF RunOK, Paging
  <2>6. \A x \in Offer(q) : OfferOK(x)
    BY <1>1, <2>3, <2>4 DEF Offer, OfferOK
  <2>7. run' = q
    BY <1>2 DEF PageDone, Saving, NextPage
  <2> QED
    BY <1>1, <2>5, <2>6, <2>7, Meanwhile
<1>3. CASE ~p.more
  <2> PICK v : v = [through |-> w.end, window |-> NoWindow]
    OBVIOUS
  <2>1. v \in Cursor /\ Timely(v) /\ Safe(v)
    BY <1>1, <1>3, ClosedIsSafe
  <2> PICK q : q = [p EXCEPT !.stage = "save", !.value = v, !.then = "idle"]
    OBVIOUS
  <2>2. /\ q \in RunRecord /\ q.stage = "save" /\ q.window = w /\ q.through = p.through
        /\ q.todo = <<>> /\ q.value = v /\ q.then = "idle"
    BY <1>1, <2>1 DEF RunRecord
  <2>3. RunOK(q)
    BY <1>1, <2>2, Constants DEF RunOK, Paging
  <2>4. \A x \in Offer(q) : OfferOK(x)
    BY <1>1, <2>1, <2>2 DEF Offer, OfferOK
  <2>5. run' = q
    BY <1>3 DEF PageDone, Saving, Closed
  <2> QED
    BY <1>1, <2>3, <2>4, <2>5, Meanwhile
<1> QED
    BY <1>2, <1>3

\* A write that is applied: the first one begins what catch-up answers for.
LEMMA WrittenIs ==
    ASSUME CatchupInv, fate \in [Posts -> Fate], UNCHANGED <<fate, now, posted, faults>>,
           NEW v \in Offers, Written(v)
    PROVE  /\ cursor' = v /\ v \in Cursor /\ Timely(v)' /\ Safe(v)' /\ PostsOK' /\ late' = {}
           /\ since \in 0..MaxTime /\ since' \in 0..MaxTime /\ now' \in 0..MaxTime /\ faults' \in 0..MaxFaults
           /\ cursor # NoCursor => Later
<1>1. /\ v \in Cursor /\ Timely(v) /\ since \in 0..MaxTime /\ now \in 0..MaxTime
      /\ IF cursor = NoCursor THEN First(v) ELSE Safe(v)
    BY DEF CatchupInv, CursorOK, OfferOK
<1>2. PostsOK'
    BY DEF CatchupInv, PostsOK
<1>3. ASSUME cursor # NoCursor PROVE Later /\ Safe(v)'
  <2>1. \A m \in Posts, w \in Window : Position(m, w)' = Position(m, w)
    BY DEF Position, Listed
  <2>2. Later
    BY <1>3, <2>1, Constants DEF Later, Onward, PostsOK, CatchupInv, Never, Written
  <2> QED
    BY <1>1, <1>3, <2>2, SafeKept, Constants
<1>4. ASSUME cursor = NoCursor PROVE since' \in 0..MaxTime /\ Safe(v)'
  <2> PICK w : w = v.window
    OBVIOUS
  <2>1. /\ since' = w.start /\ w # NoWindow /\ w.token = 0 /\ w \in Window
        /\ w.start \in 0..MaxTime /\ w.end \in 0..MaxTime
    BY <1>1, <1>4, Windows DEF Written, First, Window
  <2> SUFFICES ASSUME NEW m \in Posts, Due(m, w)',
                      posted[m] < w.start \/ Position(m, w) <= 0
               PROVE  FALSE
    BY <2>1 DEF Safe, Read, Position, Listed
  <2>2. posted[m] \in Int /\ w.start <= posted[m] /\ posted[m] < w.end
    BY <2>1, Constants DEF Due, CatchupInv, PostsOK, Never
  <2>3. m \in Listed(w) /\ Position(m, w) <= 0
    BY <2>1, <2>2, Constants DEF Listed
  <2> QED
    BY <2>3, HistoryList
<1>5. Timely(v)'
    BY <1>1 DEF Timely
<1> QED
    BY <1>1, <1>2, <1>3, <1>4, <1>5 DEF Written, CatchupInv, Later

LEMMA SaveKeeps ==
    ASSUME CatchupInv, fate \in [Posts -> Fate], UNCHANGED fate, Save
    PROVE  CatchupInv'
<1> PICK p, v : p = run /\ v = run.value
    OBVIOUS
<1>1. /\ RunOK(p) /\ p \in RunRecord /\ p.stage = "save" /\ p.current /\ v = p.value
      /\ p.window \in Window
      /\ v \in Offers /\ Written(v) /\ UNCHANGED <<now, posted, faults>>
    BY DEF Save, CatchupInv, RunOK, RunRecord, Offers, Offer
<1>2. /\ cursor' = v /\ v \in Cursor /\ Timely(v)' /\ Safe(v)' /\ PostsOK' /\ late' = {}
      /\ since \in 0..MaxTime /\ since' \in 0..MaxTime /\ now' \in 0..MaxTime /\ faults' \in 0..MaxFaults
      /\ cursor # NoCursor => Later
    BY <1>1, WrittenIs
<1>3. cursor' # NoCursor
    BY <1>2 DEF Timely
<1>4. CASE p.then = "idle"
  <2>1. RunOK(Idle)'
    BY NoRun, Constants DEF RunOK, Paging
  <2>2. run' = Idle
    BY <1>4 DEF Save
  <2> QED
    BY <1>2, <2>1, <2>2, NoRun DEF CatchupInv, CursorOK, Offers, Offer
<1>5. CASE p.then # "idle"
  <2> PICK q : q = [p EXCEPT !.stage = p.then, !.value = NoCursor, !.then = "idle"]
    OBVIOUS
  <2>1. /\ q \in RunRecord /\ q.stage = p.then /\ q.stage \in {"page", "emit"} /\ q.window = p.window
        /\ q.through = p.through /\ q.todo = p.todo /\ q.more = p.more /\ q.then = "idle"
    BY <1>1, <1>5, NoRun DEF RunRecord
  <2>2. ASSUME q.stage = "page" PROVE Read(q.window, q.window.token)'
    BY <1>1, <1>2, <2>1, <2>2 DEF RunOK, Safe
  <2>3. ASSUME q.stage = "emit"
        PROVE  Emitted(q)' /\ (q.more => q.window.token + PageSize <= LastMessage)
    <3>1. /\ Paging(p) /\ Emitted(p) /\ p.window.end <= now /\ cursor # NoCursor
          /\ (p.more => p.window.token + PageSize <= LastMessage)
      BY <1>1, <2>1, <2>3 DEF RunOK, Paging
    <3>2. Emitted(p)'
      BY <1>1, <1>2, <3>1, EmittedKept, Constants
    <3> QED
      BY <2>1, <3>1, <3>2 DEF Emitted
  <2>4. /\ Len(q.todo) <= PageSize /\ q.window # NoWindow /\ q.window.end <= now'
        /\ q.through <= now'
    BY <1>1, <2>1 DEF RunOK
  <2>5. RunOK(q)'
    BY <1>3, <2>1, <2>2, <2>3, <2>4 DEF RunOK, Paging
  <2>6. run' = q
    BY <1>5 DEF Save
  <2> QED
    BY <1>2, <2>1, <2>5, <2>6 DEF CatchupInv, CursorOK, Offers, Offer
<1> QED
    BY <1>4, <1>5

LEMMA LateWriteKeeps ==
    ASSUME CatchupInv, fate \in [Posts -> Fate], UNCHANGED fate, NEW v, LateWrite(v)
    PROVE  CatchupInv'
<1> PICK p : p = run
    OBVIOUS
<1>1. /\ RunOK(p) /\ p \in RunRecord /\ p.window \in Window
      /\ v \in Offers /\ Written(v) /\ UNCHANGED <<now, posted, faults>>
    BY DEF LateWrite, CatchupInv, RunOK, RunRecord, Offers
<1>2. /\ cursor' = v /\ v \in Cursor /\ Timely(v)' /\ Safe(v)' /\ PostsOK' /\ late' = {}
      /\ since \in 0..MaxTime /\ since' \in 0..MaxTime /\ now' \in 0..MaxTime /\ faults' \in 0..MaxFaults
      /\ cursor # NoCursor => Later
    BY <1>1, WrittenIs
<1>3. cursor' # NoCursor
    BY <1>2 DEF Timely
<1>4. PICK q : q = IF p.stage = "idle" THEN p ELSE [p EXCEPT !.current = FALSE]
    OBVIOUS
<1>5. /\ q \in RunRecord /\ q.stage = p.stage /\ q.window = p.window /\ q.value = p.value
      /\ q.through = p.through /\ q.todo = p.todo /\ q.more = p.more /\ q.then = p.then
      /\ q.stage = "idle" \/ ~q.current
    BY <1>1, <1>4 DEF RunRecord
<1>6. ASSUME q.stage = "page" PROVE Read(q.window, q.window.token)'
  <2>1. /\ Read(p.window, p.window.token) /\ p.window.end <= now /\ cursor # NoCursor
        /\ p.window.token \in Int
    BY <1>1, <1>5, <1>6, Windows DEF RunOK
  <2> QED
    BY <1>1, <1>2, <1>5, <2>1, ReadKept, Constants
<1>7. ASSUME Paging(q)
      PROVE  Emitted(q)' /\ (q.more => q.window.token + PageSize <= LastMessage)
  <2>1. /\ Paging(p) /\ Emitted(p) /\ p.window.end <= now /\ cursor # NoCursor
        /\ (p.more => p.window.token + PageSize <= LastMessage)
    BY <1>1, <1>5, <1>7 DEF RunOK, Paging
  <2>2. Emitted(p)'
    BY <1>1, <1>2, <2>1, EmittedKept, Constants
  <2> QED
    BY <1>5, <2>1, <2>2 DEF Emitted
<1>8. /\ Len(q.todo) <= PageSize /\ (q.stage = "wait" => q.todo # <<>>)
      /\ q.stage # "idle" => q.window # NoWindow /\ q.window.end <= now' /\ q.through <= now'
      /\ q.stage = "save" /\ q.then = "page" => q.value.window = q.window
    BY <1>1, <1>5 DEF RunOK
<1>9. RunOK(q)'
    BY <1>3, <1>5, <1>6, <1>7, <1>8 DEF RunOK, Paging
<1>10. run' = q
    BY <1>4 DEF LateWrite
<1>11. Offers' = {}
    BY <1>2, <1>5, <1>10 DEF Offers, Offer
<1> QED
    BY <1>2, <1>9, <1>10, <1>11 DEF CatchupInv, CursorOK

\* A run that ends early leaves the cursor as it is; what it wanted to write may be applied later.
LEMMA EndKeeps ==
    ASSUME CatchupInv, fate \in [Posts -> Fate], UNCHANGED fate,
           Incomplete \/ SaveRefused \/ SaveFails \/ RunFails
    PROVE  CatchupInv'
<1>1. Onward
    BY DEF Onward
<1>2. /\ run' = Idle /\ UNCHANGED <<now, posted, cursor, since>>
      /\ late' = late \/ late' = late \cup Offer(run)
    BY DEF Incomplete, SaveRefused, SaveFails, RunFails, Offer
<1>3. faults' \in 0..MaxFaults
    BY Constants DEF Incomplete, SaveRefused, SaveFails, RunFails, CatchupFault, CatchupInv
<1> QED
    BY <1>1, <1>2, <1>3, RunGoesOn DEF Offers

\* Whatever catch-up does of itself, it awaits no other message than before.
LEMMA StepsOfCatchup ==
    ASSUME IntakeInv, CatchupStep \/ CatchupEnvironment, UNCHANGED <<admissionVars, intakeVars>>
    PROVE  IntakeInv'
<1>1. AdmitInv' /\ fate \in [Posts -> Fate] /\ UNCHANGED <<fate, task>> /\ CatchupInv
    BY DEF IntakeInv, AdmitInv, AdmissionTypeOK, admissionVars, intakeVars
<1>2. CatchupInv'
    BY <1>1, BeginRunKeeps, FetchKeeps, PageDoneKeeps, SaveKeeps, EndKeeps, PostKeeps,
       LateWriteKeeps
    DEF CatchupStep, CatchupEnvironment
<1>3. run'.stage # "wait" \/ (run'.stage = run.stage /\ run'.todo = run.todo)
  <2> PICK p : p = run
    OBVIOUS
  <2>1. /\ p \in RunRecord
        /\ \A v, then : /\ Saving(p, v, then).stage = "save"
    BY <1>1 DEF CatchupInv, RunOK, RunRecord, Saving
  <2>2. CASE BeginRun
    BY <2>2 DEF BeginRun, Idle, Saving
  <2>3. CASE Fetch
    BY <2>1, <2>3 DEF Fetch, RunRecord, Saving
  <2>4. CASE PageDone
    BY <2>1, <2>4 DEF PageDone, RunRecord, Saving
  <2>5. CASE Save
    BY <2>1, <2>5, NoRun DEF Save, RunRecord
  <2>6. CASE Incomplete \/ SaveRefused \/ SaveFails \/ RunFails
    BY <2>6, NoRun DEF Incomplete, SaveRefused, SaveFails, RunFails
  <2>7. CASE \E m \in Posts : Post(m)
    BY <2>7 DEF Post
  <2>8. CASE \E v \in late : LateWrite(v)
    BY <2>1, <2>8 DEF LateWrite, RunRecord
  <2> QED
    BY <2>2, <2>3, <2>4, <2>5, <2>6, <2>7, <2>8 DEF CatchupStep, CatchupEnvironment
<1>4. AwaitedOK'
    BY <1>1, <1>3 DEF AwaitedOK, Awaited, IntakeInv
<1> QED
    BY <1>1, <1>2, <1>4 DEF IntakeInv

----------------------------------------------------------------------------
(* The steps of the ingests.                                               *)

LEMMA OnwardIs ==
    ASSUME IntakeInv, NEW who, GoOn(task, who) PROVE Onward
    BY DEF GoOn, Onward, IntakeInv, AdmitInv

\* Head(run.todo) is meant only while a page is being gone through.
LEMMA PassedIs ==
    ASSUME CatchupInv PROVE Passed.stage = "emit" /\ Idle.stage = "idle"
    BY NoRun DEF CatchupInv, RunOK, RunRecord, Passed

LEMMA ReceiveKeeps ==
    ASSUME IntakeInv, NEW m \in Posts, Receive(m)
    PROVE  IntakeInv'
<1>1. /\ arrived' \in 0..MaxLive /\ UNCHANGED <<receipts, handed, catchupVars>>
      /\ AdmitInv /\ CatchupInv /\ AwaitedOK
    BY IntakeAssumption DEF Receive, IntakeInv, AdmitInv
<1>2. CASE task[m].stage = "none"
  <2>1. Ingest(m, "live")
    BY <1>2 DEF Receive
  <2>2. AdmissionTypeOK' /\ GoOn(task, {m})
    BY <1>1, <2>1, IngestIs
  <2>3. AdmitInv'
    BY <1>1, <2>2 DEF AdmitInv, GoOn
  <2>4. Onward
    BY <2>2, OnwardIs
  <2>5. CatchupInv'
    BY <1>1, <2>4, RunGoesOn DEF catchupVars, CatchupInv, Offers
  <2>6. AwaitedOK'
    BY <1>1, <1>2, <2>2 DEF AwaitedOK, Awaited, GoOn, catchupVars
  <2> QED
    BY <2>3, <2>5, <2>6 DEF IntakeInv
<1>3. CASE task[m].stage # "none"
  <2>1. UNCHANGED <<task, fate, admissionVars>>
    BY <1>3 DEF Receive
  <2>2. AdmitInv'
    BY <1>1, <2>1 DEF AdmitInv, AdmissionTypeOK, admissionVars
  <2>3. Onward
    BY <1>1, <2>1 DEF Onward, AdmitInv
  <2>4. CatchupInv'
    BY <1>1, <2>3, RunGoesOn DEF catchupVars, CatchupInv, Offers
  <2>5. AwaitedOK'
    BY <1>1, <2>1 DEF AwaitedOK, Awaited, catchupVars
  <2> QED
    BY <2>2, <2>4, <2>5 DEF IntakeInv
<1> QED
    BY <1>2, <1>3

LEMMA ObserveKeeps ==
    ASSUME IntakeInv, NEW m \in Posts, Observe(m)
    PROVE  IntakeInv'
<1>1. /\ UNCHANGED <<arrived, receipts, handed>> /\ UNCHANGED <<now, posted, cursor, late, since, faults>>
      /\ AdmitInv /\ CatchupInv /\ AwaitedOK /\ Ingest(m, "history")
      /\ run.stage = "emit" /\ run.todo # <<>> /\ Head(run.todo) = m
      /\ run' = IF task'[m].stage = "none" THEN Passed ELSE [run EXCEPT !.stage = "wait"]
    BY DEF Observe, IntakeInv, Offered
<1>2. /\ AdmissionTypeOK' /\ GoOn(task, {m}) /\ task[m].stage = "none"
      /\ task'[m].stage = "none" => fate'[m] # "open"
      /\ task'[m].stage # "none" => task'[m].source = "history"
    BY <1>1, IngestIs
<1>3. AdmitInv'
    BY <1>1, <1>2 DEF AdmitInv, GoOn
<1>4. Onward
    BY <1>2, OnwardIs
<1>5. CatchupInv'
    BY <1>1, <1>2, <1>4, RunGoesOn DEF CatchupInv, Offers
<1>6. AwaitedOK'
  <2>1. CASE task'[m].stage = "none"
    BY <1>1, <2>1, PassedIs DEF AwaitedOK, Awaited
  <2>2. CASE task'[m].stage # "none"
    <3>1. run'.todo = run.todo
      BY <1>1, <2>2 DEF CatchupInv, RunOK, RunRecord
    <3> QED
      BY <1>1, <1>2, <2>2, <3>1 DEF AwaitedOK, Awaited
  <2> QED
    BY <2>1, <2>2
<1> QED
    BY <1>3, <1>5, <1>6 DEF IntakeInv

LEMMA PassKeeps ==
    ASSUME IntakeInv, NEW m \in Posts, Pass(m)
    PROVE  IntakeInv'
<1>1. /\ UNCHANGED <<task, receipts, handed, arrived, admissionVars>>
      /\ UNCHANGED <<now, posted, cursor, late, since, faults>>
      /\ AdmitInv /\ CatchupInv /\ AwaitedOK /\ fate \in [Posts -> Fate]
      /\ run.stage = "emit" /\ run.todo # <<>> /\ Head(run.todo) = m /\ run' = Passed
      /\ fate' = [fate EXCEPT ![m] = IF @ = "open" THEN "passed" ELSE @]
    BY DEF Pass, IntakeInv, Offered, AdmitInv
<1>2. Onward /\ fate'[m] # "open"
    BY <1>1 DEF Onward, Fate
<1>3. AdmitInv'
    BY <1>1, <1>2 DEF AdmitInv, AdmissionTypeOK, admissionVars, Onward
<1>4. CatchupInv'
    BY <1>1, <1>2, RunGoesOn DEF CatchupInv, Offers
<1>5. AwaitedOK'
    BY <1>1, PassedIs DEF AwaitedOK, Awaited
<1> QED
    BY <1>3, <1>4, <1>5 DEF IntakeInv

LEMMA DeadlineKeeps ==
    ASSUME IntakeInv, NEW m \in Posts, Deadline(m)
    PROVE  IntakeInv'
<1>1. /\ UNCHANGED <<receipts, handed, arrived, fate>> /\ UNCHANGED <<admissionVars, catchupVars>>
      /\ AdmitInv /\ CatchupInv /\ AwaitedOK /\ task \in [Posts -> Task]
      /\ task[m].source = "live" /\ task' = [task EXCEPT ![m].aborted = TRUE]
    BY DEF Deadline, IntakeInv, AdmitInv
<1>2. /\ task' \in [Posts -> Task] /\ task'[m].source = "live"
      /\ \A x \in Posts : task'[x].stage = task[x].stage /\ task'[x].source = task[x].source
      /\ \A x \in Posts \ {m} : task'[x] = task[x]
    BY <1>1 DEF Task
<1>3. \A x \in Posts : TaskOK(task'[x])
    BY <1>1, <1>2 DEF AdmitInv, TaskOK
<1>4. AdmitInv'
    BY <1>1, <1>2, <1>3 DEF AdmitInv, AdmissionTypeOK, admissionVars
<1>5. Onward
    BY <1>1 DEF Onward, AdmitInv
<1>6. CatchupInv'
    BY <1>1, <1>5, RunGoesOn DEF catchupVars, CatchupInv, Offers
<1>7. AwaitedOK'
    BY <1>1, <1>2 DEF AwaitedOK, Awaited, catchupVars
<1> QED
    BY <1>4, <1>6, <1>7 DEF IntakeInv

LEMMA AnswerKeeps ==
    ASSUME IntakeInv, NEW known \in BOOLEAN, NEW outcome \in Outcome, Answer(known, outcome)
    PROVE  IntakeInv'
<1> PICK who \in SUBSET Posts : who = Asking(known)
    BY DEF Asking
<1> PICK kept : kept = Remembered(outcome, known)
    OBVIOUS
<1>1. /\ UNCHANGED <<unions, lookups, arrived, receipts, handed>>
      /\ UNCHANGED <<now, posted, cursor, late, since, faults>>
      /\ AdmitInv /\ CatchupInv /\ AwaitedOK /\ Decide(task, who, outcome, kept)
      /\ run' = IF outcome # "allow" /\ \E m \in who : Awaited(m) THEN Passed ELSE run
      /\ task \in [Posts -> Task]
    BY DEF Answer, IntakeInv, AdmitInv
<1>2. kept \in Entry
    BY AdmissionAssumption DEF Remembered, Entry
<1>3. Waiting(task) /\ who \cap denied = {}
    BY <1>1 DEF AdmitInv, Waiting, Asking
<1>4. GoOn(task, who) /\ entry' \in Entry /\ Decided(task, who, outcome)
    BY <1>1, <1>2, <1>3, DecideIs
<1>5. AdmitInv'
    BY <1>1, <1>4 DEF AdmitInv, GoOn, AdmissionTypeOK, Entry
<1>6. Onward
    BY <1>4, OnwardIs
<1>7. ASSUME outcome # "allow", NEW m \in who, Awaited(m)
      PROVE  /\ run.stage = "wait" /\ run.todo # <<>> /\ fate'[Head(run.todo)] # "open"
             /\ run' = Passed
    BY <1>1, <1>4, <1>7 DEF Decided, Awaited, CatchupInv, RunOK
<1>8. CatchupInv'
    BY <1>1, <1>6, <1>7, RunGoesOn DEF CatchupInv, Offers
<1>9. AwaitedOK'
  <2>1. CASE outcome # "allow" /\ \E m \in who : Awaited(m)
    BY <1>1, <2>1, PassedIs DEF AwaitedOK, Awaited
  <2>2. CASE ~(outcome # "allow" /\ \E m \in who : Awaited(m))
    <3> SUFFICES ASSUME NEW x \in Posts, Awaited(x)
                 PROVE  task'[x].source = "history" /\ task'[x].stage # "none"
      BY <1>1, <2>2 DEF AwaitedOK, Awaited
    <3>1. task[x].source = "history" /\ task[x].stage # "none" /\ ~task[x].aborted
      BY <1>1 DEF AwaitedOK, AdmitInv, TaskOK
    <3> QED
      BY <1>4, <2>2, <3>1 DEF GoOn, Decided
  <2> QED
    BY <2>1, <2>2
<1> QED
    BY <1>5, <1>8, <1>9 DEF IntakeInv

\* How the ingest of m ends for a catch-up that awaits it.
LEMMA HearsKeeps ==
    ASSUME IntakeInv, NEW m \in Posts, NEW ok \in BOOLEAN, HistoryHears(m, ok), Onward,
           UNCHANGED <<now, posted, cursor, late, since>>, faults' \in 0..MaxFaults,
           ok => fate'[m] # "open", \A x \in Posts \ {m} : task'[x] = task[x]
    PROVE  CatchupInv' /\ AwaitedOK'
<1>1. CatchupInv /\ AwaitedOK
    BY DEF IntakeInv
<1>2. CASE Awaited(m)
  <2>1. /\ run.stage = "wait" /\ run.todo # <<>> /\ Head(run.todo) = m
        /\ run' = IF ok THEN Passed ELSE Idle
    BY <1>1, <1>2 DEF Awaited, HistoryHears, CatchupInv, RunOK
  <2>2. CatchupInv'
    BY <1>1, <2>1, RunGoesOn DEF Offers
  <2>3. AwaitedOK'
    BY <1>1, <2>1, PassedIs DEF AwaitedOK, Awaited
  <2> QED
    BY <2>2, <2>3
<1>3. CASE ~Awaited(m)
  <2>1. run' = run
    BY <1>3 DEF HistoryHears
  <2>2. CatchupInv'
    BY <1>1, <2>1, RunGoesOn DEF Offers
  <2>3. AwaitedOK'
    BY <1>1, <1>3, <2>1 DEF AwaitedOK, Awaited
  <2> QED
    BY <2>2, <2>3
<1> QED
    BY <1>2, <1>3

LEMMA SearchKeeps ==
    ASSUME IntakeInv, NEW m \in Posts, Search(m)
    PROVE  IntakeInv'
<1>1. /\ UNCHANGED <<lookups, arrived, receipts, handed>>
      /\ UNCHANGED <<now, posted, cursor, late, since, faults>>
      /\ AdmitInv /\ CatchupInv /\ AwaitedOK /\ task \in [Posts -> Task]
      /\ task[m].stage = "search" /\ Check(task, m, unions') /\ unions' \in BOOLEAN
    BY DEF Search, IntakeInv, AdmitInv, AdmissionTypeOK
<1> PICK known \in BOOLEAN : known = unions'
    BY <1>1
<1>2. Waiting(task) /\ m \notin denied /\ task[m].source = "history" /\ ~task[m].aborted
    BY <1>1 DEF AdmitInv, Waiting, TaskOK
<1>3. /\ GoOn(task, {m}) /\ entry' \in Entry
      /\ task'[m].stage = "none" => fate'[m] # "open"
      /\ task'[m].stage # "none" => task'[m].source = "history"
    BY <1>1, <1>2, CheckIs
<1>4. AdmitInv'
    BY <1>1, <1>3 DEF AdmitInv, GoOn, AdmissionTypeOK, Entry
<1>5. Onward
    BY <1>3, OnwardIs
<1>6. CASE task'[m].stage = "none"
  <2>1. HistoryHears(m, TRUE) /\ fate'[m] # "open" /\ \A x \in Posts \ {m} : task'[x] = task[x]
    BY <1>3, <1>6 DEF Search, GoOn
  <2>2. faults' \in 0..MaxFaults
    BY <1>1 DEF CatchupInv
  <2> QED
    BY <1>1, <1>4, <1>5, <2>1, <2>2, HearsKeeps DEF IntakeInv
<1>7. CASE task'[m].stage # "none"
  <2>1. run' = run
    BY <1>7 DEF Search
  <2>2. CatchupInv'
    BY <1>1, <1>5, <2>1, RunGoesOn DEF CatchupInv, Offers
  <2>3. AwaitedOK'
    BY <1>1, <1>3, <1>7, <2>1 DEF AwaitedOK, Awaited, GoOn
  <2> QED
    BY <1>4, <2>2, <2>3 DEF IntakeInv
<1> QED
    BY <1>6, <1>7

\* Both ends of acceptInbound.
LEMMA EndedIs ==
    ASSUME IntakeInv, NEW m \in Posts, NEW who \in SUBSET Posts, Ended(m), Settled(who),
           UNCHANGED <<arrived, admissionVars>>, receipts' \in SUBSET Posts, handed' \in SUBSET Posts
    PROVE  /\ AdmitInv' /\ Onward /\ \A x \in Posts \ {m} : task'[x] = task[x]
           /\ \A x \in who : fate'[x] # "open"
<1>1. AdmitInv /\ task \in [Posts -> Task] /\ fate \in [Posts -> Fate]
    BY DEF IntakeInv, AdmitInv
<1>2. NoTask \in Task /\ TaskOK(NoTask) /\ NoTask.stage = "none"
    BY DEF NoTask, Task, TaskOK
<1>3. /\ task' \in [Posts -> Task] /\ task'[m] = NoTask
      /\ \A x \in Posts \ {m} : task'[x] = task[x]
    BY <1>1, <1>2 DEF Ended
<1>4. fate' \in [Posts -> Fate] /\ \A x \in Posts : fate'[x] = IF x \in who THEN "settled" ELSE fate[x]
    BY <1>1 DEF Settled, Fate
<1>5. AdmitInv'
    BY <1>1, <1>2, <1>3, <1>4 DEF AdmitInv, AdmissionTypeOK, admissionVars
<1> QED
    BY <1>1, <1>3, <1>4, <1>5 DEF Onward

LEMMA AcceptKeeps ==
    ASSUME IntakeInv, NEW m \in Posts, Accept(m)
    PROVE  IntakeInv'
<1>1. /\ receipts' \in SUBSET Posts /\ handed' \in SUBSET Posts /\ faults' \in 0..MaxFaults
      /\ {m} \in SUBSET Posts
    BY DEF Accept, IntakeInv, AdmitInv, CatchupInv
<1>2. /\ AdmitInv' /\ Onward /\ \A x \in Posts \ {m} : task'[x] = task[x]
      /\ \A x \in {m} : fate'[x] # "open"
    BY <1>1, EndedIs DEF Accept
<1>3. HistoryHears(m, TRUE) /\ UNCHANGED <<now, posted, cursor, late, since>>
    BY DEF Accept
<1> QED
    BY <1>1, <1>2, <1>3, HearsKeeps DEF IntakeInv

LEMMA AcceptFailsKeeps ==
    ASSUME IntakeInv, NEW m \in Posts, AcceptFails(m)
    PROVE  IntakeInv'
<1>1. /\ receipts' \in SUBSET Posts /\ handed' \in SUBSET Posts /\ faults' \in 0..MaxFaults
      /\ (receipts' \ receipts) \in SUBSET Posts
    BY Constants DEF AcceptFails, IntakeInv, AdmitInv, CatchupInv, CatchupFault
<1>2. AdmitInv' /\ Onward /\ \A x \in Posts \ {m} : task'[x] = task[x]
    BY <1>1, EndedIs DEF AcceptFails
<1>3. HistoryHears(m, FALSE) /\ UNCHANGED <<now, posted, cursor, late, since>>
    BY DEF AcceptFails
<1> QED
    BY <1>1, <1>2, <1>3, HearsKeeps DEF IntakeInv

LEMMA CrashKeeps ==
    ASSUME IntakeInv, Crash
    PROVE  IntakeInv'
<1>1. /\ run' = Idle /\ UNCHANGED <<now, posted, cursor, since>>
      /\ task' = [m \in Posts |-> NoTask] /\ denied' = {}
      /\ AdmitInv /\ CatchupInv /\ fate \in [Posts -> Fate]
    BY DEF Crash, AdmissionForgotten, IntakeInv, AdmitInv
<1>2. receipts' \in SUBSET Posts
    BY <1>1 DEF Crash, AdmitInv
<1>3. fate' \in [Posts -> Fate] /\ \A x \in Posts : fate'[x] \in {fate[x], "settled"}
    BY <1>1 DEF Crash, Settled, Fate
<1>4. faults' \in 0..MaxFaults /\ late' \subseteq Offers
    BY <1>1, Constants DEF Crash, CatchupFault, CatchupInv, Offers, Offer
<1>5. NoTask \in Task /\ TaskOK(NoTask)
    BY DEF NoTask, Task, TaskOK
<1>6. AdmissionTypeOK'
    BY DEF Crash, AdmissionForgotten, AdmissionTypeOK, NoEntry
<1>7. AdmitInv'
    BY <1>1, <1>2, <1>3, <1>5, <1>6 DEF AdmitInv, Crash
<1>8. Onward
    BY <1>1, <1>3 DEF Onward
<1>9. CatchupInv'
    BY <1>1, <1>4, <1>8, RunGoesOn
<1>10. AwaitedOK'
    BY <1>1, NoRun DEF AwaitedOK, Awaited
<1> QED
    BY <1>7, <1>9, <1>10 DEF IntakeInv

LEMMA TickKeeps ==
    ASSUME IntakeInv, Tick
    PROVE  IntakeInv'
<1>1. /\ AdmitInv /\ CatchupInv /\ AwaitedOK /\ Elapse /\ AdmissionAges /\ UNCHANGED intakeVars
      /\ UNCHANGED run
    BY DEF Tick, IntakeInv, Elapse
<1>2. AdmissionTypeOK'
  <2>1. lookups' \in Nat
    BY <1>1 DEF AdmissionAges, AdmitInv, AdmissionTypeOK
  <2>2. entry' \in Entry
    <3>1. entry \in Entry /\ NoEntry \in Entry
      BY <1>1 DEF AdmitInv, AdmissionTypeOK, Entry, NoEntry
    <3>2. CASE entry.left <= 1
      BY <1>1, <3>1, <3>2 DEF AdmissionAges
    <3>3. CASE ~(entry.left <= 1)
      <4>1. entry.left - 1 \in Nat
        BY <3>1, <3>3 DEF Entry
      <4>2. entry' = [entry EXCEPT !.left = @ - 1]
        BY <1>1, <3>3 DEF AdmissionAges
      <4> QED
        BY <3>1, <4>1, <4>2 DEF Entry
    <3> QED
      BY <3>2, <3>3
  <2> QED
    BY <1>1, <2>1, <2>2 DEF AdmissionAges, AdmitInv, AdmissionTypeOK, Entry
<1>3. AdmitInv'
    BY <1>1, <1>2 DEF AdmitInv, AdmissionAges, intakeVars
<1>4. CatchupInv'
    BY <1>1, ElapseKeeps DEF AdmitInv, intakeVars
<1>5. AwaitedOK'
    BY <1>1 DEF AwaitedOK, Awaited, intakeVars
<1> QED
    BY <1>3, <1>4, <1>5 DEF IntakeInv

----------------------------------------------------------------------------
LEMMA IntakeStarts == Init => IntakeInv
<1> SUFFICES ASSUME Init PROVE IntakeInv
    OBVIOUS
<1> USE DEF Init, AdmissionInit, CatchupInit
<1>1. NoTask \in Task /\ TaskOK(NoTask) /\ NoTask.stage = "none"
    BY DEF NoTask, Task, TaskOK
<1>2. AdmitInv
  <2>1. AdmissionTypeOK /\ task \in [Posts -> Task] /\ fate \in [Posts -> Fate]
    BY <1>1 DEF AdmissionTypeOK, NoEntry, Fate
  <2>2. arrived \in 0..MaxLive
    BY IntakeAssumption
  <2>3. \A m \in Posts : TaskOK(task[m])
    BY <1>1
  <2> QED
    BY <2>1, <2>2, <2>3 DEF AdmitInv
<1>3. PostsOK /\ now \in 0..MaxTime /\ since \in 0..MaxTime /\ faults \in 0..MaxFaults
    BY Constants DEF PostsOK, Never
<1>4. RunOK(run)
    BY NoRun, Constants DEF RunOK, Paging
<1>5. Offers = {}
    BY NoRun DEF Offers, Offer
<1>6. CursorOK
  <2>1. \A m \in Posts : ~(since <= posted[m])
    BY Constants DEF Never
  <2>2. CASE cursor = NoCursor
    BY <1>5, <2>2, NoRun DEF CursorOK
  <2>3. CASE cursor = [through |-> 0, window |-> NoWindow]
    <3>1. cursor \in Cursor /\ cursor.window = NoWindow /\ cursor.through = 0
      BY <2>3, NoRun, Constants DEF Cursor
    <3>2. Timely(cursor)
      BY <3>1, Constants DEF Timely, NoCursor, NoWindow
    <3>3. Safe(cursor)
      BY <2>1, <3>1 DEF Safe
    <3> QED
      BY <1>5, <3>1, <3>2, <3>3 DEF CursorOK
  <2> QED
    BY <2>2, <2>3
<1>7. AwaitedOK
    BY NoRun DEF AwaitedOK, Awaited
<1> QED
    BY <1>2, <1>3, <1>4, <1>6, <1>7 DEF IntakeInv, CatchupInv

LEMMA IntakeSteps == IntakeInv /\ [Next]_vars => IntakeInv'
<1> SUFFICES ASSUME IntakeInv, [Next]_vars PROVE IntakeInv'
    OBVIOUS
<1>1. CASE (CatchupStep \/ CatchupEnvironment) /\ UNCHANGED <<admissionVars, intakeVars>>
    BY <1>1, StepsOfCatchup
<1>2. CASE IngestStep
    BY <1>2, AnswerKeeps, ObserveKeeps, PassKeeps, SearchKeeps, AcceptKeeps DEF IngestStep
<1>3. CASE Crash
    BY <1>3, CrashKeeps
<1>4. CASE Tick
    BY <1>4, TickKeeps
<1>5. ASSUME NEW m \in Posts, Receive(m) \/ Deadline(m) \/ AcceptFails(m) PROVE IntakeInv'
    BY <1>5, ReceiveKeeps, DeadlineKeeps, AcceptFailsKeeps
<1>6. CASE UNCHANGED vars
  <2>1. AdmitInv' /\ AwaitedOK'
    BY <1>6 DEF IntakeInv, AdmitInv, AdmissionTypeOK, AwaitedOK, Awaited, vars, admissionVars,
                catchupVars, intakeVars
  <2>2. Onward
    BY <1>6 DEF IntakeInv, AdmitInv, Onward, vars, intakeVars
  <2>3. CatchupInv'
    BY <1>6, <2>2, RunGoesOn DEF IntakeInv, CatchupInv, Offers, vars, catchupVars
  <2> QED
    BY <2>1, <2>3 DEF IntakeInv
<1> QED
    BY <1>1, <1>2, <1>3, <1>4, <1>5, <1>6 DEF Next

LEMMA IntakeHolds == Spec => []IntakeInv
    BY IntakeStarts, IntakeSteps, PTL DEF Spec

\* The types of the state of the intake, of the admission and of catch-up; and what catch-up
\* awaits is an ingest under way, that it began itself.
THEOREM IntakeTypeCorrect == Spec => []IntakeTypeOK
<1>1. IntakeInv => IntakeTypeOK
  <2> SUFFICES ASSUME IntakeInv PROVE IntakeTypeOK
    OBVIOUS
  <2>1. /\ run.stage \in {"idle", "page", "emit", "wait", "save"}
        /\ run.through \in 0..MaxTime /\ run.window \in Window /\ run.value \in Cursor
        /\ run.pages \in 0..MaxPages
        /\ run.todo \in Seq(Posts) /\ Len(run.todo) <= PageSize
        /\ run.then \in {"idle", "page", "emit"}
        /\ {run.opening, run.current, run.more} \subseteq BOOLEAN
        /\ run.stage = "wait" => run.todo # <<>>
    BY DEF IntakeInv, CatchupInv, RunOK, RunRecord
  <2>2. CatchupTypeOK
    BY <2>1 DEF CatchupTypeOK, IntakeInv, CatchupInv, PostsOK, CursorOK, OfferOK, Offers
  <2> QED
    BY <2>2 DEF IntakeTypeOK, IntakeInv, AdmitInv, AwaitedOK
<1> QED
    BY <1>1, IntakeHolds, PTL

\* A message the checkpoint of catch-up has left behind was stored or refused, or met in flight:
\* for any number of messages, pages, crashes, failed and late writes of the cursor.
THEOREM NothingIsSkipped == Spec => []NothingSkipped
<1>1. IntakeInv => NothingSkipped
  <2> SUFFICES ASSUME IntakeInv, NEW m \in Posts, Behind(m) PROVE fate[m] # "open"
    BY DEF NothingSkipped
  <2>1. /\ cursor # NoCursor /\ since <= posted[m] /\ cursor \in Cursor /\ Timely(cursor) /\ Safe(cursor)
        /\ posted[m] \in Int /\ since \in Int
    BY Constants DEF Behind, IntakeInv, CatchupInv, PostsOK, CursorOK, Never
  <2>2. CASE cursor.window = NoWindow
    BY <2>1, <2>2 DEF Behind, Safe
  <2>3. CASE cursor.window # NoWindow
    <3>1. posted[m] < cursor.window.end
      BY <2>1, <2>3, Constants, Windows DEF Behind
    <3> QED
      BY <2>1, <2>3, <3>1 DEF Behind, Safe, Read, Due
  <2> QED
    BY <2>2, <2>3
<1> QED
    BY <1>1, IntakeHolds, PTL

\* A message the endpoint denied is neither stored nor handed on by any step after that.
THEOREM DeniedIsKeptOut == Spec => DeniedStaysOut
<1>1. ASSUME IntakeInv, [Next]_vars, NEW m \in denied
      PROVE  (m \in receipts' => m \in receipts) /\ (m \in handed' => m \in handed)
  <2>1. task[m].stage = "none"
    BY <1>1 DEF IntakeInv, AdmitInv
  <2>2. CASE (CatchupStep \/ CatchupEnvironment) /\ UNCHANGED <<admissionVars, intakeVars>>
    BY <2>2 DEF intakeVars
  <2>3. CASE IngestStep
    BY <2>1, <2>3 DEF IngestStep, Answer, Observe, Pass, Search, Accept
  <2>4. CASE Crash
    BY <2>1, <2>4 DEF Crash
  <2>5. CASE Tick
    BY <2>5 DEF Tick, intakeVars
  <2>6. ASSUME NEW x \in Posts, Receive(x) \/ Deadline(x) \/ AcceptFails(x)
        PROVE  (m \in receipts' => m \in receipts) /\ (m \in handed' => m \in handed)
    BY <2>1, <2>6 DEF Receive, Deadline, AcceptFails
  <2>7. CASE UNCHANGED vars
    BY <2>7 DEF vars, intakeVars
  <2> QED
    BY <1>1, <2>2, <2>3, <2>4, <2>5, <2>6, <2>7 DEF Next
<1>2. IntakeInv /\ [Next]_vars
      => [\A m \in denied : /\ m \in receipts' => m \in receipts
                            /\ m \in handed' => m \in handed]_vars
    BY <1>1
<1> QED
    BY <1>2, IntakeHolds, PTL DEF Spec, DeniedStaysOut
=============================================================================

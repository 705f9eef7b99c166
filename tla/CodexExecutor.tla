---------------------------- MODULE CodexExecutor ----------------------------
(***************************************************************************)
(* agents/codex/executor.mjs, for the calls execute() of one conversation. *)
(* A call holds the lock of the conversation while it looks for receipts,  *)
(* prepares the thread and starts a turn; it then waits for the turn, or   *)
(* steers its message into the turn of another.  The app server, its       *)
(* connection and MySQL are external: a step that awaits one of them is    *)
(* one action, and anything may happen between two steps.                  *)
(***************************************************************************)
EXTENDS Integers, Sequences, FiniteSets

CONSTANTS
    Call,       \* execute() calls, numbered in the order the worker makes them
    Message,
    MessageOf,  \* the message of each call; two calls of one message: a retry
    WhenBusy,   \* what a message may do when another one's turn is active
    MaxThread,  \* bound on the threads the conversation moves through
    MaxFaults   \* bound on crashes, moves to another thread and failed statements

Policies == {"steer", "reject", "wait"}

ASSUME CallAssumption == Call \subseteq Nat \ {0}
ASSUME MessageAssumption ==
    /\ MessageOf \in [Call -> Message]
    /\ WhenBusy \in [Message -> (SUBSET Policies) \ {{}}]
ASSUME BoundAssumption == MaxThread \in Nat \ {0} /\ MaxFaults \in Nat

\* A turn bears the number of the call that started it, and a state object the number of
\* the call that registered it: a call does each once at most.
None == 0
Turn == Call
State == Call
Thread == 1..MaxThread

VARIABLES
    call,       \* locals of each call and the outcome it is told
    lockQueue,  \* locks: the calls in withKeyLock, the first one holds the lock
    active,     \* activeByBinding: the state object that is registered
    state,      \* the state objects of createTurnState
    steerQueue, \* steerQueue of each state object
    loaded,     \* loadedThreads
    thread,     \* assistant_codex_sessions: the thread the conversation is bound to
    newest,     \* the last thread created; a new one is always another
    store,      \* assistant_codex_events: the receipts and steering attempts
    native,     \* the turns as the app server has them
    watch,      \* turns whose end this child of the app server has still to report
    faults,
    doubtful    \* history: <<message, turn>>, where the turn left its message no receipt

local == <<call, lockQueue, active, state, steerQueue, loaded>>
durable == <<thread, newest, store>>
server == <<native, watch>>
vars == <<local, durable, server, faults, doubtful>>

Stages == {"idle", "entering", "queued", "admitting", "reconciling", "resuming", "resumed",
           "preparing", "starting", "sent", "started", "waiting", "afterFinal", "noting",
           "steerQueued", "steerReading", "steerReady", "steerSent", "steerTaken",
           "steerRefused", "steerEnding", "done"}
\* Stages in which a request to the app server is pending.
Requesting == {"reconciling", "resuming", "resumed", "preparing", "sent", "started",
               "steerReading", "steerSent", "steerTaken", "steerRefused"}
Outcomes == {"none", "answered", "failed", "accepted", "lost", "unknown",
             "unconfirmed", "busy", "aborted", "error", "crashed"}
Settlements == {"no", "answered", "failed", "lost"}
Ended == {"completed", "failed"}
Keys == {"final", "error", "attempt", "confirmed", "rejected"}

Free == [stage |-> "idle", thread |-> None, turn |-> None, state |-> None, note |-> None,
         aborted |-> FALSE, observes |-> FALSE, moved |-> FALSE, seen |-> "no", outcome |-> "none"]
NoState == [message |-> None, thread |-> None, turn |-> None, settled |-> "no",
            silent |-> FALSE, pendingSteer |-> None]
NoTurn == [status |-> "none", thread |-> None, inputs |-> {}]

Init ==
    /\ call = [c \in Call |-> Free]
    /\ lockQueue = <<>> /\ active = None
    /\ state = [o \in State |-> NoState]
    /\ steerQueue = [o \in State |-> <<>>]
    /\ loaded = {}
    /\ thread = 1 /\ newest = 1 /\ store = {}
    /\ native = [t \in Turn |-> NoTurn]
    /\ watch = {} /\ faults = 0 /\ doubtful = {}
----------------------------------------------------------------------------
(* Receipts *)

Event(th, m, key, t, how) == [thread |-> th, message |-> m, key |-> key, turn |-> t, how |-> how]

\* saveCodexRealtimeEvent: an upsert by thread and event key.
Save(events, e) ==
    {x \in events : <<x.thread, x.message, x.key>> # <<e.thread, e.message, e.key>>} \cup {e}

Found(th, m, key) == {x \in store : x.thread = th /\ x.message = m /\ x.key = key}
FinalReceipt(th, m) == Found(th, m, "final")
ErrorReceipt(th, m) == Found(th, m, "error")

\* The receipt of a turn that was lost sight of: it says nothing of how the turn ended.
LostReceipt(th, m) == {x \in ErrorReceipt(th, m) : x.how = "lost"}

\* Slip: an attempt counts only with its confirmation.
ConfirmedAttempt(th, m) ==
    {x \in Found(th, m, "attempt") : \E y \in Found(th, m, "confirmed") : y.turn = x.turn}

\* reconcileSteer: the attempt whose outcome is open or confirmed.
OpenAttempt(th, m) ==
    {x \in Found(th, m, "attempt") :
        \A y \in Found(th, m, "rejected") : y.turn # x.turn}

SteerConfirmed(th, m) ==
    \E x \in OpenAttempt(th, m), y \in Found(th, m, "confirmed") : x.turn = y.turn

\* finalizeTurn: the receipt a settled turn leaves for its message.
TurnReceipt(o, m) ==
    Event(state[o].thread, m, IF state[o].settled = "answered" THEN "final" ELSE "error",
          state[o].turn, state[o].settled)
----------------------------------------------------------------------------
(* Helpers *)

At(c, stages) == call[c].stage \in stages
Of(c) == MessageOf[c]
Goes(c, stage) == call' = [call EXCEPT ![c].stage = stage]
Restarts(c) == call' = [call EXCEPT ![c].stage = "entering", ![c].state = None]
Ends(c, outcome, t) ==
    [Free EXCEPT !.stage = "done", !.outcome = outcome, !.turn = t, !.note = call[c].note]
EndsWith(c, outcome, t) == call' = [call EXCEPT ![c] = Ends(c, outcome, t)]

HasLock(c) == lockQueue # <<>> /\ Head(lockQueue) = c
Unlock == lockQueue' = Tail(lockQueue)
Steers(c) == steerQueue[call[c].state] # <<>> /\ Head(steerQueue[call[c].state]) = c
\* Slip: a steer that ended lets nobody pass.
StayInSteering(c) == UNCHANGED steerQueue
LeaveSteering(c) == steerQueue' = [steerQueue EXCEPT ![call[c].state] = Tail(@)]

HasOpenWaiter(o) == \E c \in Call : At(c, {"waiting"}) /\ call[c].state = o

Fault == faults < MaxFaults /\ faults' = faults + 1

\* waitForTurn.
Waits(c, o) == [call[c] EXCEPT !.stage = "waiting", !.state = o, !.turn = None, !.thread = None]

\* ... with takeover: the message of another turn notes the result under its own key.
TakesOver(c, o) ==
    IF Of(c) = state[o].message THEN Waits(c, o)
    ELSE [Waits(c, o) EXCEPT !.note = o, !.stage = IF active = o THEN @ ELSE "noting"]

\* createTurnState and registerState.
Register(c, t, settlement) ==
    /\ active' = c
    /\ state' = [state EXCEPT ![c] = [message |-> Of(c), thread |-> call[c].thread, turn |-> t,
                                      settled |-> settlement, silent |-> FALSE,
                                      pendingSteer |-> None]]

\* Slip: the status is taken as it comes.
RawStatus(status) == status

Settlement(status) ==
    CASE status = "completed" -> "answered"
      [] status = "running"   -> "no"
      [] OTHER                -> status
----------------------------------------------------------------------------
(* Entering: the look at the signal, the lock, the active turn *)

\* A later call of a message is a retry: the worker makes it after the earlier one.
\* A cancelled caller may only observe a turn that was lost sight of.
Enter(c) ==
    /\ \/ At(c, {"entering"})
       \/ At(c, {"idle"}) /\ \A d \in Call : d < c /\ Of(d) = Of(c) => ~At(d, {"idle"})
    /\ \/ /\ ~call[c].aborted \/ LostReceipt(thread, Of(c)) # {}
          /\ call' = [call EXCEPT ![c].stage = "queued", ![c].observes = call[c].aborted]
          /\ lockQueue' = Append(lockQueue, c)
       \/ /\ call[c].aborted /\ LostReceipt(thread, Of(c)) = {}
          /\ EndsWith(c, "aborted", None)
          /\ UNCHANGED lockQueue
    /\ UNCHANGED <<active, state, steerQueue, loaded, durable, server, faults, doubtful>>

\* What the call does when a turn is active.
RouteToActive(c) ==
    LET o == active
        own == Of(c) = state[o].message
        policies == WhenBusy[Of(c)]
    IN  \/ /\ own
           /\ IF HasOpenWaiter(o) THEN EndsWith(c, "accepted", state[o].turn)
              ELSE call' = [call EXCEPT ![c] = TakesOver(c, o)]
           /\ UNCHANGED steerQueue
        \/ ~own /\ "reject" \in policies /\ EndsWith(c, "busy", None) /\ UNCHANGED steerQueue
        \/ /\ ~own
           /\ \/ "wait" \in policies
              \/ "steer" \in policies /\ state[o].settled # "no"
           /\ call' = [call EXCEPT ![c].stage = "afterFinal", ![c].state = o]
           /\ UNCHANGED steerQueue
        \/ /\ ~own /\ "steer" \in policies /\ state[o].settled = "no"
           /\ call' = [call EXCEPT ![c].stage = "steerQueued", ![c].state = o]
           /\ steerQueue' = [steerQueue EXCEPT ![o] = Append(@, c)]

Route(c) ==
    /\ At(c, {"queued"}) /\ HasLock(c)
    /\ \/ /\ call[c].aborted /\ ~call[c].observes
          /\ EndsWith(c, "aborted", None) /\ Unlock /\ UNCHANGED steerQueue
       \/ /\ ~call[c].aborted \/ call[c].observes
          /\ active # None
          /\ RouteToActive(c) /\ Unlock
       \/ /\ ~call[c].aborted \/ call[c].observes
          /\ active = None
          /\ call' = [call EXCEPT ![c].stage = "admitting", ![c].thread = thread]
          /\ UNCHANGED <<lockQueue, steerQueue>>
    /\ UNCHANGED <<active, state, loaded, durable, server, faults, doubtful>>

\* The wait for the active turn of another group or of an internal prompt.
RestartAfterFinal(c) ==
    /\ At(c, {"afterFinal"})
    /\ \/ call[c].aborted /\ EndsWith(c, "aborted", None)
       \/ ~call[c].aborted /\ active # call[c].state /\ Restarts(c)
    /\ UNCHANGED <<lockQueue, active, state, steerQueue, loaded, durable, server,
                   faults, doubtful>>
----------------------------------------------------------------------------
(* Admission, under the lock *)

\* findAcceptedMessageEvent, then the events of an earlier attempt to steer.
Lookup(c) ==
    LET th == call[c].thread
        m == Of(c)
    IN  /\ At(c, {"admitting"}) /\ HasLock(c)
        /\ \/ /\ FinalReceipt(th, m) # {}
              /\ \E x \in FinalReceipt(th, m) : EndsWith(c, "answered", x.turn)
              /\ Unlock
           \/ /\ FinalReceipt(th, m) = {} /\ LostReceipt(th, m) # {}
              /\ \E x \in LostReceipt(th, m) :
                    call' = [call EXCEPT ![c].stage = "resuming", ![c].turn = x.turn]
              /\ UNCHANGED lockQueue
           \/ /\ FinalReceipt(th, m) = {} /\ LostReceipt(th, m) = {}
              /\ \E x \in ErrorReceipt(th, m) : EndsWith(c, x.how, x.turn)
              /\ Unlock
           \/ /\ FinalReceipt(th, m) \cup ErrorReceipt(th, m) = {}
              /\ \E x \in OpenAttempt(th, m) :
                    IF SteerConfirmed(th, m)
                    THEN EndsWith(c, "accepted", x.turn) /\ Unlock
                    ELSE /\ call' = [call EXCEPT ![c].stage = "reconciling", ![c].turn = x.turn]
                         /\ UNCHANGED lockQueue
           \/ /\ FinalReceipt(th, m) \cup ErrorReceipt(th, m) \cup OpenAttempt(th, m) = {}
              /\ Goes(c, "preparing")
              /\ UNCHANGED lockQueue
        /\ UNCHANGED <<active, state, steerQueue, loaded, durable, server, faults, doubtful>>

\* Slip: finding the turn counts as finding the message in it.
TurnFound(c) == native[call[c].turn].status # "none"

\* reconcileSteer: thread/read shows the message in the turn, or the delivery stays unconfirmed.
Delivered(c) == Of(c) \in native[call[c].turn].inputs

Reconciled(c, th) ==
    /\ EndsWith(c, IF Delivered(c) THEN "accepted" ELSE "unconfirmed", call[c].turn)
    /\ store' = IF Delivered(c)
                THEN Save(store, Event(th, Of(c), "confirmed", call[c].turn, "steer")) ELSE store

Reconcile(c) ==
    /\ At(c, {"reconciling"}) /\ HasLock(c)
    /\ Reconciled(c, call[c].thread)
    /\ Unlock
    /\ UNCHANGED <<active, state, steerQueue, loaded, thread, newest, server, faults, doubtful>>

\* prepareKnownResume: the server answers thread/resume with a snapshot of the turn, ...
ResumeAnswered(c) ==
    /\ At(c, {"resuming"})
    /\ call' = [call EXCEPT ![c].stage = "resumed",
                            ![c].seen = Settlement(native[call[c].turn].status)]
    /\ watch' = watch \cup ({call[c].turn} \cap {t \in Turn : native[t].status = "running"})
    /\ UNCHANGED <<lockQueue, active, state, steerQueue, loaded, durable, native,
                   faults, doubtful>>

\* ... and the turn is registered again, settled if the snapshot shows its end.
Resumed(c) ==
    LET t == call[c].turn IN
    /\ At(c, {"resumed"}) /\ HasLock(c)
    /\ Register(c, t, call[c].seen)
    /\ loaded' = IF \E u \in Turn \ {t} : native[u].status = "running"
                                           /\ native[u].thread = call[c].thread
                 THEN loaded \ {call[c].thread} ELSE loaded \cup {call[c].thread}
    /\ call' = [call EXCEPT ![c] = Waits(c, c)]
    /\ Unlock
    /\ UNCHANGED <<steerQueue, durable, server, faults, doubtful>>

\* rollover: a new thread, which the binding names from here on.
Rollover(c) ==
    /\ newest < MaxThread
    /\ newest' = newest + 1 /\ thread' = newest'
    /\ loaded' = loaded \cup {newest'}
    /\ call' = [call EXCEPT ![c].stage = "starting", ![c].thread = newest']

\* Slip: the turns left running are not interrupted.
NotInterrupted(th) == native

\* ensureThreadReady: thread/resume, and an end to every turn left running on the thread.
Interrupted(th) ==
    [t \in Turn |-> IF native[t].thread = th /\ native[t].status = "running"
                    THEN [native[t] EXCEPT !.status = "failed"] ELSE native[t]]

\* maybeRollover and ensureBindingThreadReadyWithArchiveRecovery.
Prepare(c) ==
    /\ At(c, {"preparing"}) /\ HasLock(c)
    /\ \/ /\ Goes(c, "starting")
          /\ loaded' = loaded \cup {call[c].thread}
          /\ native' = IF call[c].thread \in loaded THEN native
                       ELSE Interrupted(call[c].thread)
          /\ UNCHANGED <<thread, newest, faults>>
       \/ Fault /\ Rollover(c) /\ UNCHANGED native
    /\ UNCHANGED <<lockQueue, active, state, steerQueue, store, watch, doubtful>>

\* persistUser and the signal, then onStartIntent and turn/start.
RequestStart(c) ==
    /\ At(c, {"starting"}) /\ HasLock(c)
    /\ \/ ~call[c].aborted /\ Goes(c, "sent") /\ UNCHANGED lockQueue
       \/ call[c].aborted /\ EndsWith(c, "aborted", None) /\ Unlock
    /\ UNCHANGED <<active, state, steerQueue, loaded, durable, server, faults, doubtful>>

\* The app server takes the prompt, ...
ServerStarts(c) ==
    /\ At(c, {"sent"}) /\ call[c].thread \in loaded
    /\ native' = [native EXCEPT ![c] = [status |-> "running", thread |-> call[c].thread,
                                        inputs |-> {Of(c)}]]
    /\ watch' = watch \cup {c}
    /\ Goes(c, "started")
    /\ UNCHANGED <<lockQueue, active, state, steerQueue, loaded, durable, faults, doubtful>>

\* rolloverArchivedBinding: once in a call, and without another onStartIntent.
RolloverArchived(c) ==
    /\ ~call[c].moved /\ newest < MaxThread
    /\ newest' = newest + 1 /\ thread' = newest'
    /\ loaded' = (loaded \ {call[c].thread}) \cup {newest'}
    /\ call' = [call EXCEPT ![c].stage = "starting", ![c].thread = newest', ![c].moved = TRUE]

\* ... or refuses it; a thread that was archived is replaced, once.
StartRefused(c) ==
    /\ At(c, {"sent"}) /\ HasLock(c)
    /\ \/ /\ EndsWith(c, "error", None) /\ Unlock
          /\ UNCHANGED <<thread, newest, loaded, faults>>
       \/ Fault /\ RolloverArchived(c) /\ UNCHANGED lockQueue
    /\ UNCHANGED <<active, state, steerQueue, store, server, doubtful>>

\* The turn id arrives: the turn is registered, and its caller waits for it.
Started(c) ==
    /\ At(c, {"started"}) /\ HasLock(c)
    /\ Register(c, c, "no")
    /\ call' = [call EXCEPT ![c] = Waits(c, c)]
    /\ Unlock
    /\ UNCHANGED <<steerQueue, loaded, durable, server, faults, doubtful>>
----------------------------------------------------------------------------
(* Steering: one message after the other, into the state it was routed to *)

\* Receipts with includeInFlight: a receipt of a lost turn reads as a failure here.
Duplicate(th, m) ==
    FinalReceipt(th, m) \cup ErrorReceipt(th, m) \cup Found(th, m, "confirmed")

Told(x) ==
    CASE x.key = "confirmed" -> "accepted"
      [] x.how = "lost"      -> "failed"
      [] OTHER               -> x.how

\* The receipts that findAcceptedMessageEvent prefers.
First(events) ==
    IF \E x \in events : x.key = "final" THEN {x \in events : x.key = "final"}
    ELSE IF \E x \in events : x.key = "error" THEN {x \in events : x.key = "error"}
    ELSE events

\* steerLocked up to the attempt; a new attempt has a new id, so an old rejection ends with it.
SteerBegins(c) ==
    LET o == call[c].state
        th == state[o].thread
        m == Of(c)
    IN  /\ At(c, {"steerQueued"}) /\ Steers(c)
        /\ \/ /\ state[o].settled # "no"
              /\ Restarts(c) /\ LeaveSteering(c) /\ UNCHANGED <<state, store>>
           \/ /\ state[o].settled = "no" /\ state[o].pendingSteer \notin {None, m}
              /\ EndsWith(c, "unconfirmed", None) /\ LeaveSteering(c) /\ UNCHANGED <<state, store>>
           \/ /\ state[o].settled = "no" /\ state[o].pendingSteer \in {None, m}
              /\ \E x \in First(Duplicate(th, m)) : EndsWith(c, Told(x), x.turn)
              /\ LeaveSteering(c) /\ UNCHANGED <<state, store>>
           \/ /\ state[o].settled = "no" /\ state[o].pendingSteer \in {None, m}
              /\ Duplicate(th, m) = {}
              /\ \E x \in OpenAttempt(th, m) :
                    call' = [call EXCEPT ![c].stage = "steerReading", ![c].turn = x.turn]
              /\ UNCHANGED <<steerQueue, state, store>>
           \/ /\ state[o].settled = "no" /\ state[o].pendingSteer \in {None, m}
              /\ Duplicate(th, m) \cup OpenAttempt(th, m) = {}
              /\ store' = Save(store \ Found(th, m, "rejected"),
                               Event(th, m, "attempt", state[o].turn, "steer"))
              /\ state' = [state EXCEPT ![o].pendingSteer = m]
              /\ Goes(c, "steerReady") /\ UNCHANGED steerQueue
        /\ UNCHANGED <<lockQueue, active, loaded, thread, newest, server, faults, doubtful>>

SteerReconcile(c) ==
    LET o == call[c].state IN
    /\ At(c, {"steerReading"})
    /\ Reconciled(c, state[o].thread) /\ LeaveSteering(c)
    /\ state' = IF Delivered(c) THEN [state EXCEPT ![o].pendingSteer = None] ELSE state
    /\ UNCHANGED <<lockQueue, active, loaded, thread, newest, server, faults, doubtful>>

\* steerTurnWithMismatchRecovery: turn/steer, unless the turn settled meanwhile.
SteerSends(c) ==
    /\ At(c, {"steerReady"}) /\ state[call[c].state].settled = "no"
    /\ Goes(c, "steerSent")
    /\ UNCHANGED <<lockQueue, active, state, steerQueue, loaded, durable, server,
                   faults, doubtful>>

\* The app server adds the message to the turn in progress, or knows of none.
ServerSteers(c) ==
    LET t == state[call[c].state].turn IN
    /\ At(c, {"steerSent"})
    /\ IF native[t].status = "running"
       THEN /\ native' = [native EXCEPT ![t].inputs = @ \cup {Of(c)}]
            /\ Goes(c, "steerTaken")
       ELSE Goes(c, "steerRefused") /\ UNCHANGED native
    /\ UNCHANGED <<lockQueue, active, state, steerQueue, loaded, durable, watch,
                   faults, doubtful>>

\* The steered message is confirmed; with nobody left waiting its call waits for the turn.
SteerConfirms(c) ==
    LET o == call[c].state
        t == state[o].turn
    IN  /\ At(c, {"steerTaken"})
        /\ \/ /\ store' = Save(store, Event(state[o].thread, Of(c), "confirmed", t, "steer"))
              /\ state' = [state EXCEPT ![o].pendingSteer = None]
              /\ IF HasOpenWaiter(o) THEN EndsWith(c, "accepted", t)
                 ELSE call' = [call EXCEPT ![c] = TakesOver(c, o)]
              /\ UNCHANGED faults
           \/ Fault /\ EndsWith(c, "unconfirmed", t) /\ UNCHANGED <<store, state>>
        /\ LeaveSteering(c)
        /\ UNCHANGED <<lockQueue, active, loaded, thread, newest, server, doubtful>>

\* The turn ended first: thread/read must show how, and then settles it.
SteerRejected(c) ==
    LET o == call[c].state
        t == state[o].turn
        seen == Settlement(native[t].status)
    IN  /\ \/ At(c, {"steerRefused"})
           \/ At(c, {"steerReady"}) /\ state[o].settled # "no"
        /\ store' = Save(store, Event(state[o].thread, Of(c), "rejected", t, "steer"))
        /\ state' = [state EXCEPT ![o].pendingSteer = None,
                                  ![o].settled = IF @ = "no" THEN seen ELSE @]
        /\ IF seen = "no" THEN EndsWith(c, "unconfirmed", t) /\ LeaveSteering(c)
           ELSE Goes(c, "steerEnding") /\ UNCHANGED steerQueue
        /\ UNCHANGED <<lockQueue, active, loaded, thread, newest, server, faults, doubtful>>

\* ... and the message is executed afresh once that turn is put away.
SteerRestarts(c) ==
    /\ At(c, {"steerEnding"}) /\ active # call[c].state
    /\ Restarts(c) /\ LeaveSteering(c)
    /\ UNCHANGED <<lockQueue, active, state, loaded, durable, server, faults, doubtful>>
----------------------------------------------------------------------------
(* The end of a turn *)

\* finalAnswer: what a completed turn said last may be nothing.
MaySilent(o) == IF state[o].settled = "answered" THEN BOOLEAN ELSE {FALSE}

Settle(o, settlement) == state' = [state EXCEPT ![o].settled = settlement]
Unsettled(o) == o # None /\ state[o].settled = "no"

\* A turn that was interrupted ends like one that failed.
NativeEnds(t) ==
    /\ native[t].status = "running"
    /\ \E status \in Ended : native' = [native EXCEPT ![t].status = status]
    /\ UNCHANGED <<local, durable, watch, faults, doubtful>>

\* turn/completed, dispatched once: a turn that is not registered yet never hears of it.
Notify(t) ==
    /\ t \in watch /\ native[t].status \in Ended
    /\ watch' = watch \ {t}
    /\ IF Unsettled(active) /\ state[active].turn = t
       THEN Settle(active, Settlement(native[t].status)) ELSE UNCHANGED state
    /\ UNCHANGED <<call, lockQueue, active, steerQueue, loaded, durable, native,
                   faults, doubtful>>

\* The error notification that will not be retried comes before the end of the turn.
NotifyError(t) ==
    /\ t \in watch /\ native[t].status = "running"
    /\ Unsettled(active) /\ state[active].turn = t
    /\ Settle(active, "failed")
    /\ UNCHANGED <<call, lockQueue, active, steerQueue, loaded, durable, server,
                   faults, doubtful>>

\* The timer of createTurnState; its turn/interrupt may fail.
TurnTimeout ==
    LET t == state[active].turn IN
    /\ Unsettled(active)
    /\ Settle(active, "failed")
    /\ \/ UNCHANGED native
       \/ /\ native[t].status = "running"
          /\ native' = [native EXCEPT ![t].status = "failed"]
    /\ UNCHANGED <<call, lockQueue, active, steerQueue, loaded, durable, watch,
                   faults, doubtful>>

\* finalizeTurn: the outcome becomes a receipt, unless the turn completed with an empty answer
\* or the statement fails, and the binding is written again.  Everyone who waits hears the
\* outcome; a message that took over notes it first.
Finalize ==
    LET o == active
        told(c) == IF call[c].note = o THEN [call[c] EXCEPT !.stage = "noting"]
                   ELSE Ends(c, state[o].settled, state[o].turn)
    IN  /\ o # None /\ ~Unsettled(o)
        /\ \E silent \in MaySilent(o) :
              /\ state' = [state EXCEPT ![o].silent = silent]
              /\ \/ /\ ~silent /\ store' = Save(store, TurnReceipt(o, state[o].message))
                    /\ UNCHANGED <<faults, doubtful>>
                 \/ /\ (silent /\ UNCHANGED faults) \/ (~silent /\ Fault)
                    /\ doubtful' = doubtful \cup {<<state[o].message, state[o].turn>>}
                    /\ UNCHANGED store
        /\ thread' = state[o].thread
        /\ active' = None
        /\ watch' = watch \ {state[o].turn}
        /\ call' = [c \in Call |-> IF At(c, {"waiting"}) /\ call[c].state = o
                                   THEN told(c) ELSE call[c]]
        /\ UNCHANGED <<lockQueue, steerQueue, loaded, newest, native>>

\* waitForTurn with takeover, whether or not its caller still waits.
Note(c) ==
    LET o == call[c].note
        done(outcome) == IF At(c, {"noting"}) THEN Ends(c, outcome, state[o].turn) ELSE call[c]
    IN  /\ o # None /\ active # o /\ ~Unsettled(o)
        /\ \/ /\ store' = IF state[o].silent THEN store ELSE Save(store, TurnReceipt(o, Of(c)))
              /\ thread' = state[o].thread
              /\ call' = [call EXCEPT ![c] = [done(state[o].settled) EXCEPT !.note = None]]
              /\ UNCHANGED faults
           \/ /\ Fault
              /\ call' = [call EXCEPT ![c] =
                    [done(IF state[o].settled = "answered" THEN "error" ELSE state[o].settled)
                        EXCEPT !.note = None]]
              /\ UNCHANGED <<store, thread>>
        /\ UNCHANGED <<lockQueue, active, state, steerQueue, loaded, newest, server,
                       doubtful>>
----------------------------------------------------------------------------
(* Interruptions *)

\* The lease of the caller is lost, or its time is up.
AbortCall(c) ==
    /\ Fault
    /\ ~call[c].aborted /\ ~At(c, {"idle", "done"})
    /\ call' = [call EXCEPT ![c].aborted = TRUE]
    /\ UNCHANGED <<lockQueue, active, state, steerQueue, loaded, durable, server, doubtful>>

\* waitForTurn: the caller leaves, the turn goes on.
StopWaiting(c) ==
    /\ At(c, {"waiting", "noting"}) /\ call[c].aborted
    /\ EndsWith(c, "aborted", None)
    /\ UNCHANGED <<lockQueue, active, state, steerQueue, loaded, durable, server,
                   faults, doubtful>>

\* What a call is told when the request it awaits is rejected by a failure of the connection.
Rejected(stage) ==
    CASE stage \in {"resuming", "resumed"}                  -> "lost"
      [] stage \in {"sent", "started"}                      -> "unknown"
      [] stage = "preparing"                                -> "error"
      [] OTHER                                              -> "unconfirmed"

\* handleDisconnect.
LoseTurns ==
    /\ state' = IF Unsettled(active) THEN [state EXCEPT ![active].settled = "lost"] ELSE state
    /\ loaded' = {}

\* app-server-client.mjs fail and handleExit, and handleDisconnect: a request that times out
\* fails all others with it, and every turn is lost sight of.
Disconnect ==
    LET hit == {c \in Call : At(c, Requesting)} IN
    /\ Fault
    /\ hit # {} \/ active # None
    /\ call' = [c \in Call |-> IF c \in hit THEN Ends(c, Rejected(call[c].stage), call[c].turn)
                               ELSE call[c]]
    /\ lockQueue' = IF lockQueue # <<>> /\ Head(lockQueue) \in hit THEN Tail(lockQueue)
                    ELSE lockQueue
    /\ steerQueue' = [o \in State |-> IF steerQueue[o] # <<>> /\ Head(steerQueue[o]) \in hit
                                      THEN Tail(steerQueue[o]) ELSE steerQueue[o]]
    /\ LoseTurns
    /\ watch' = {}
    /\ doubtful' = doubtful \cup {<<Of(c), c>> : c \in {d \in hit : At(d, {"started"})}}
    /\ UNCHANGED <<active, durable, native>>

\* IdleLifecycle closes the child when no call and no turn needs it.
IdleClose ==
    /\ active = None /\ loaded # {}
    /\ \A c \in Call : At(c, {"idle", "done"})
    /\ loaded' = {} /\ watch' = {}
    /\ UNCHANGED <<call, lockQueue, active, state, steerQueue, durable, native,
                   faults, doubtful>>

\* A statement of the session store fails before the call has asked for a turn.
StatementFails(c) ==
    /\ At(c, {"admitting", "starting"}) /\ HasLock(c)
    /\ Fault
    /\ EndsWith(c, "error", None) /\ Unlock
    /\ UNCHANGED <<active, state, steerQueue, loaded, durable, server, doubtful>>

\* The process dies, and another serves the calls that were not made yet.
Crash ==
    /\ Fault
    /\ call' = [c \in Call |-> IF At(c, {"idle", "done"}) THEN [call[c] EXCEPT !.note = None]
                               ELSE [Ends(c, "crashed", None) EXCEPT !.note = None]]
    /\ lockQueue' = <<>> /\ active' = None
    /\ steerQueue' = [o \in State |-> <<>>]
    /\ loaded' = {} /\ watch' = {}
    /\ doubtful' = doubtful \cup {<<Of(c), c>> : c \in {d \in Call : At(d, {"started"})}}
                            \cup {<<state[o].message, state[o].turn>> : o \in {active} \ {None}}
    /\ UNCHANGED <<state, durable, native>>
----------------------------------------------------------------------------
Admits(c) ==
    \/ Lookup(c) \/ Reconcile(c) \/ ResumeAnswered(c) \/ Resumed(c) \/ Prepare(c)
    \/ RequestStart(c) \/ ServerStarts(c) \/ StartRefused(c) \/ Started(c)

SteersInto(c) ==
    \/ SteerBegins(c) \/ SteerReconcile(c) \/ SteerSends(c) \/ ServerSteers(c)
    \/ SteerConfirms(c) \/ SteerRejected(c) \/ SteerRestarts(c)

Next ==
    \/ \E c \in Call :
          \/ Enter(c) \/ Route(c) \/ RestartAfterFinal(c)
          \/ Admits(c) \/ SteersInto(c) \/ Note(c)
          \/ AbortCall(c) \/ StopWaiting(c) \/ StatementFails(c)
    \/ \E t \in Turn : NativeEnds(t) \/ Notify(t) \/ NotifyError(t)
    \/ TurnTimeout \/ Finalize \/ Disconnect \/ IdleClose \/ Crash

\* A request is answered or its timer fails the connection; a turn ends or times out.
Fairness ==
    /\ \A c \in Call :
          /\ WF_vars(At(c, {"entering"}) /\ Enter(c))
          /\ WF_vars(Route(c) \/ RestartAfterFinal(c))
          /\ WF_vars(Lookup(c) \/ RequestStart(c) \/ Started(c) \/ Resumed(c))
          /\ WF_vars(SteerBegins(c) \/ SteerSends(c) \/ SteerConfirms(c) \/ SteerRejected(c)
                     \/ SteerRestarts(c))
          /\ WF_vars(At(c, Requesting) /\ (Admits(c) \/ SteersInto(c) \/ Disconnect))
          /\ WF_vars(Note(c))
    /\ WF_vars(TurnTimeout) /\ WF_vars(Finalize)

Spec == Init /\ [][Next]_vars
FairSpec == Spec /\ Fairness
----------------------------------------------------------------------------
TypeOK ==
    /\ call \in [Call -> [stage : Stages, thread : Thread \cup {None}, turn : Turn \cup {None},
                          state : State \cup {None}, note : State \cup {None},
                          aborted : BOOLEAN, observes : BOOLEAN, moved : BOOLEAN, seen : Settlements,
                          outcome : Outcomes]]
    /\ lockQueue \in Seq(Call) /\ steerQueue \in [State -> Seq(Call)]
    /\ active \in State \cup {None}
    /\ state \in [State -> [message : Message \cup {None}, thread : Thread \cup {None},
                            turn : Turn \cup {None}, settled : Settlements,
                            silent : BOOLEAN, pendingSteer : Message \cup {None}]]
    /\ loaded \subseteq Thread
    /\ thread \in Thread /\ newest \in Thread
    /\ store \subseteq [thread : Thread, message : Message, key : Keys, turn : Turn,
                        how : Settlements \cup {"steer"}]
    /\ native \in [Turn -> [status : Ended \cup {"none", "running"}, thread : Thread \cup {None},
                            inputs : SUBSET Message]]
    /\ watch \subseteq Turn /\ faults \in 0..MaxFaults /\ doubtful \subseteq Message \X Turn

\* A message is part of two turns of one thread only if one of them left it no receipt: that
\* turn completed with an empty answer (forward-runtime.mjs:16: "the executor's receipt check
\* only sees a non-empty final answer"), the answer to its turn/start was lost, its receipt
\* could not be stored, or the process died first.
PromptNotRepeated ==
    \A t, u \in Turn, m \in Message :
        t # u /\ native[t].thread = native[u].thread
              /\ m \in native[t].inputs /\ m \in native[u].inputs
        => <<m, t>> \in doubtful \/ <<m, u>> \in doubtful

\* A caller that is told of an answer gets the one of a completed turn its message was part of;
\* one that is told its message was accepted finds it in a turn.
ReportedIsTrue ==
    \A c \in Call :
        /\ call[c].outcome = "answered" =>
              native[call[c].turn].status = "completed" /\ Of(c) \in native[call[c].turn].inputs
        /\ call[c].outcome = "accepted" => \E t \in Turn : Of(c) \in native[t].inputs

\* Two turns run on one thread only if the bridge gave up on one of them: it timed out or
\* reported an error before its end.
TurnsDoNotOverlap ==
    \A t, u \in Turn :
        t # u /\ native[t].thread = native[u].thread
              /\ native[t].status = "running" /\ native[u].status = "running"
        => \E o \in State : state[o].turn \in {t, u} /\ state[o].settled = "failed"

\* Every call is answered, whatever requests, turns and connections do: again and again there
\* is a moment without a pending call.
EveryCallEnds == []<>(\A c \in Call : At(c, {"idle", "done"}))

\* A call is told of a failure only if the turn it asks about was seen to fail or was given
\* up; losing sight of a turn is no failure of it.  The run shows that it does not hold.
FailureWasSeen ==
    \A c \in Call : call[c].outcome = "failed" =>
        \E o \in State : state[o].turn = call[c].turn /\ state[o].settled = "failed"
=============================================================================

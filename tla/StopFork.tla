------------------------------ MODULE StopFork ------------------------------
(***************************************************************************)
(* The two buttons of an execution card: stop, while the job runs, and     *)
(* fork, when it failed because its conversation was busy                  *)
(* (channels/feishu/execution-feedback.mjs handleCardAction; interrupt,    *)
(* inspect and forkBinding of agents/codex/executor.mjs; beginStop,        *)
(* finishStop, beginFork and finishFork of storage/forward-jobs.mjs).      *)
(*                                                                         *)
(* One job; each of its turns is of the thread its conversation was bound  *)
(* to.  A step ends where the code awaits MySQL, the app server or the     *)
(* chat.                                                                   *)
(***************************************************************************)
EXTENDS Integers

CONSTANTS
    Press,                  \* presses of a button
    MaxTurn,                \* bound on the turns of the job, at least 1
    Source, Target, Other,  \* three threads: the first, its fork, and the one bound later
    NoPress,
    MaxFailures             \* bound on failed calls, timeouts and crashes

ASSUME ButtonAssumption ==
    /\ Source # Target /\ Other \notin {Source, Target}
    /\ NoPress \notin Press
    /\ MaxTurn \in Nat \ {0} /\ MaxFailures \in Nat

Turn == 1..MaxTurn

VARIABLES
    status,     \* of the row: running, ended, or busy (failed with CODEX_THREAD_BUSY)
    execution,  \* the turn the card in the row's result names
    home,       \* the thread of each turn
    server,     \* the turns at the app server; expiring is timed out by the bridge
    local,      \* activeByTurn
    binding,    \* the thread the conversation is bound to
    stop,       \* the row's result.stop
    fork,       \* the row's result.fork
    press,      \* handleCardAction of each press
    forkCard,   \* what the card says of the fork
    interrupts, \* number of turn/interrupt sent for each turn
    forks,      \* number of thread/fork sent
    failures

turnVars == <<status, execution, home, server, local>>
stopVars == <<stop, interrupts>>
forkVars == <<fork, forkCard, forks>>
buttonVars == <<turnVars, binding, stopVars, forkVars, press, failures>>

Definitive == {"requested", "already_finished"}
OpenStops == {"pending", "unconfirmed"}
ForkResults == {"succeeded", "failed", "unknown", "superseded"}
Stages == {"idle", "loading", "stopping", "inspecting", "interrupting", "sending", "finishing",
           "beginning", "forking", "requesting", "committing", "failed", "unknown", "publishing", "done"}
Idle == [stage |-> "idle", turn |-> 1, seen |-> Source, outcome |-> "none"]

ButtonsInit ==
    /\ status \in {"running", "busy"} /\ execution = 1
    /\ home = [t \in Turn |-> Source]
    /\ server = [t \in Turn |-> IF t = 1 /\ status = "running" THEN "running" ELSE "none"]
    /\ local = [t \in Turn |-> IF t = 1 /\ status = "running" THEN "active" ELSE "absent"]
    /\ binding = Source
    /\ stop = [turn |-> 1, thread |-> Source, outcome |-> "none"]
    /\ fork = [by |-> NoPress, status |-> "none"]
    /\ press = [k \in Press |-> Idle]
    /\ forkCard = "none"
    /\ interrupts = [t \in Turn |-> 0] /\ forks = 0 /\ failures = 0

Failure == failures < MaxFailures /\ failures' = failures + 1
Goes(k, stage) == press' = [press EXCEPT ![k].stage = stage]
Answers(k, stage, outcome) == press' = [press EXCEPT ![k].stage = stage, ![k].outcome = outcome]
----------------------------------------------------------------------------
(* The turns of the job *)

NativeEnds(t) ==
    /\ server[t] \in {"running", "expiring"}
    /\ server' = [server EXCEPT ![t] = "ended"]
    /\ UNCHANGED <<status, execution, home, local, binding, stopVars, forkVars, press, failures>>

\* The waiters hear of the end, or the turn times out.
Settles(t) ==
    /\ local[t] = "active" /\ local' = [local EXCEPT ![t] = "settled"]
    /\ \/ server[t] # "running" /\ UNCHANGED <<server, failures>>
       \/ server[t] = "running" /\ Failure /\ server' = [server EXCEPT ![t] = "expiring"]
    /\ UNCHANGED <<status, execution, home, binding, stopVars, forkVars, press>>

Finalized(t) ==
    /\ local[t] = "settled" /\ local' = [local EXCEPT ![t] = "absent"]
    /\ UNCHANGED <<status, execution, home, server, binding, stopVars, forkVars, press, failures>>

\* The job ends, starts its next turn on the thread bound by then, or observes the turn it
\* left, of which it knows as long as that is still the thread.
JobGoesOn ==
    /\ status = "running" /\ local[execution] = "absent"
    /\ \/ status' = "ended" /\ UNCHANGED <<execution, home, server, local>>
       \/ /\ binding = home[execution] => server[execution] \notin {"running", "expiring"}
          /\ execution + 1 \in Turn
          /\ execution' = execution + 1
          /\ home' = [home EXCEPT ![execution + 1] = binding]
          /\ server' = [server EXCEPT ![execution + 1] = "running"]
          /\ local' = [local EXCEPT ![execution + 1] = "active"]
          /\ UNCHANGED status
       \/ /\ server[execution] = "running" /\ binding = home[execution]
          /\ local' = [local EXCEPT ![execution] = "active"]
          /\ UNCHANGED <<status, execution, home, server>>
    /\ UNCHANGED <<binding, stopVars, forkVars, press, failures>>

\* Another message moves the conversation to another thread.
Rebind ==
    /\ binding # Other /\ binding' = Other
    /\ UNCHANGED <<turnVars, stopVars, forkVars, press, failures>>

ButtonsCrash ==
    /\ Failure
    /\ local' = [t \in Turn |-> "absent"]
    /\ press' = [k \in Press |-> IF press[k].stage = "idle" THEN Idle ELSE [press[k] EXCEPT !.stage = "done"]]
    /\ UNCHANGED <<status, execution, home, server, binding, stopVars, forkVars>>
----------------------------------------------------------------------------
(* Stop *)

\* getRun; the button carries the turn, which must be that of the row.
PressStop(k) ==
    /\ press[k].stage = "idle" /\ status = "running"
    /\ press' = [press EXCEPT ![k] = [Idle EXCEPT !.stage = "loading", !.turn = execution]]
    /\ UNCHANGED <<turnVars, binding, stopVars, forkVars, failures>>

LoadBinding(k) ==
    /\ press[k].stage = "loading"
    /\ \/ press' = [press EXCEPT ![k].stage = "stopping", ![k].seen = binding] /\ UNCHANGED failures
       \/ Failure /\ Goes(k, "done")
    /\ UNCHANGED <<turnVars, binding, stopVars, forkVars>>

Recorded(t, thread) == stop.turn = t /\ stop.thread = thread /\ stop.outcome # "none"

\* The row names no turn but on its card (see PatchExecution of UserInput), so a press counts
\* for the thread it found bound, and is a new one unless the row holds it for that thread.
Admits(t, thread) == execution = t /\ status = "running" /\ ~Recorded(t, thread)

\* What beginStop tells the handler: interrupt, look only, or leave it.
AfterBegin(t, thread) ==
    IF Admits(t, thread) THEN "interrupting"
    ELSE IF execution = t /\ status = "running" /\ stop.outcome \in OpenStops THEN "inspecting"
    ELSE "done"

BeginStop(k) ==
    LET t == press[k].turn
        thread == press[k].seen
        after == IF Admits(t, thread) THEN [turn |-> t, thread |-> thread, outcome |-> "pending"] ELSE stop
    IN  /\ press[k].stage = "stopping"
        /\ \/ /\ stop' = after /\ UNCHANGED failures
              /\ Goes(k, AfterBegin(t, thread))
           \/ Failure /\ stop' \in {stop, after} /\ Goes(k, "done")
        /\ UNCHANGED <<turnVars, binding, interrupts, forkVars>>

Runs(t) == server[t] \in {"running", "expiring"}

\* What thread/read shows of the turn a press is about: that it ended, that it runs, or
\* nothing that can be told, which is all another thread shows.
Looks(k) ==
    {"unknown"} \cup
        IF press[k].seen # home[press[k].turn] THEN {}
        ELSE IF Runs(press[k].turn) THEN {"running"} ELSE {"ended"}

\* A repeated stop looks at the turn and interrupts nothing.
Inspect(k) ==
    /\ press[k].stage = "inspecting"
    /\ \/ /\ \E look \in Looks(k) :
             Answers(k, "finishing", IF look = "ended" THEN "already_finished" ELSE "unconfirmed")
          /\ UNCHANGED failures
       \/ Failure /\ Goes(k, "done")
    /\ UNCHANGED <<turnVars, binding, stopVars, forkVars>>

\* interrupt of a turn this process holds: not when it does so for another thread, or for
\* another message, into whose turn that of the job was steered.
InterruptHeld(k) ==
    LET t == press[k].turn IN
    /\ press[k].stage = "interrupting" /\ local[t] # "absent"
    /\ \/ Answers(k, "finishing", "unconfirmed")
       \/ /\ press[k].seen = home[t]
          /\ IF local[t] = "settled" THEN Answers(k, "finishing", "already_finished")
             ELSE Goes(k, "sending")
    /\ UNCHANGED <<turnVars, binding, stopVars, forkVars, failures>>

\* ... and of one it does not hold, which is looked at first.
InterruptUnheld(k) ==
    /\ press[k].stage = "interrupting" /\ local[press[k].turn] = "absent"
    /\ \/ /\ \E look \in Looks(k) :
             \/ look = "running" /\ Goes(k, "sending")
             \/ look = "ended" /\ Answers(k, "finishing", "already_finished")
             \/ look = "unknown" /\ Answers(k, "finishing", "unconfirmed")
          /\ UNCHANGED failures
       \/ Failure /\ Goes(k, "done")
    /\ UNCHANGED <<turnVars, binding, stopVars, forkVars>>

SendInterrupt(k) ==
    LET t == press[k].turn
        interrupted == [server EXCEPT ![t] = IF Runs(t) THEN "interrupted" ELSE @]
    IN  /\ press[k].stage = "sending"
        /\ interrupts' = [interrupts EXCEPT ![t] = @ + 1]
        /\ \/ /\ server' = interrupted /\ UNCHANGED failures
              /\ Answers(k, "finishing", IF Runs(t) THEN "requested" ELSE "already_finished")
           \/ Failure /\ server' \in {server, interrupted} /\ Answers(k, "finishing", "unconfirmed")
        /\ UNCHANGED <<status, execution, home, local, binding, stop, forkVars>>

\* An unconfirmed look never replaces a definitive result; a job that ended, and a stop that
\* counts for another thread (stop_conflict), are left alone.
FinishStop(k) ==
    LET outcome == press[k].outcome
        replaced == IF outcome \in Definitive THEN OpenStops ELSE {"pending"}
        mine == stop.turn = press[k].turn /\ stop.thread = press[k].seen
        after == IF status = "running" /\ mine /\ stop.outcome \in replaced
                 THEN [stop EXCEPT !.outcome = outcome] ELSE stop
    IN  /\ press[k].stage = "finishing"
        /\ \/ stop' = after /\ UNCHANGED failures
           \/ Failure /\ stop' \in {stop, after}
        /\ Goes(k, "done")
        /\ UNCHANGED <<turnVars, binding, interrupts, forkVars>>
----------------------------------------------------------------------------
(* Fork *)

PressFork(k) ==
    /\ press[k].stage = "idle" /\ status = "busy"
    /\ Goes(k, "beginning")
    /\ UNCHANGED <<turnVars, binding, stopVars, forkVars, failures>>

\* beginFork: once for a job, and only while the conversation is still bound to the source.
BeginFork(k) ==
    LET admits == fork.status = "none" /\ binding = Source
        after == IF admits THEN [by |-> k, status |-> "pending"] ELSE fork
    IN  /\ press[k].stage = "beginning"
        /\ \/ fork' = after /\ Goes(k, IF admits THEN "forking" ELSE "done") /\ UNCHANGED failures
           \/ Failure /\ fork' \in {fork, after} /\ Goes(k, "done")
        /\ UNCHANGED <<turnVars, binding, stopVars, forkCard, forks>>

\* forkBinding under the lock of the conversation: refused when a turn is active there or
\* the binding has changed.
StartFork(k) ==
    /\ press[k].stage = "forking"
    /\ Goes(k, "failed") \/ (binding = Source /\ Goes(k, "requesting"))
    /\ UNCHANGED <<turnVars, binding, stopVars, forkVars, failures>>

\* thread/fork: confirmed, unconfirmed, or of a profile that is refused.
RequestFork(k) ==
    /\ press[k].stage = "requesting" /\ forks' = forks + 1
    /\ \/ Goes(k, "committing") /\ UNCHANGED failures
       \/ Failure /\ (Goes(k, "unknown") \/ Goes(k, "failed"))
    /\ UNCHANGED <<turnVars, binding, stopVars, fork, forkCard>>

\* Slip: a fork that is finished is finished again.
PendingAny(k) == fork.by = k

Pending(k) == fork.by = k /\ fork.status = "pending"

\* finishFork with the new thread: it is bound unless the conversation was bound elsewhere.
CommitFork(k) ==
    LET result == IF binding = Source THEN "succeeded" ELSE "superseded"
        commit ==
            IF Pending(k)
            THEN /\ fork' = [fork EXCEPT !.status = result]
                 /\ binding' = IF binding = Source THEN Target ELSE binding
            ELSE UNCHANGED <<fork, binding>>
    IN  /\ press[k].stage = "committing"
        /\ \/ commit /\ Answers(k, "publishing", fork'.status) /\ UNCHANGED failures
           \/ Failure /\ (commit \/ UNCHANGED <<fork, binding>>) /\ Goes(k, "unknown")
        /\ UNCHANGED <<turnVars, stopVars, forkCard, forks>>

\* The catch: finishFork with failed or unknown; what the row holds is published.
FailFork(k) ==
    LET told == press[k].stage
        after == IF Pending(k) THEN [fork EXCEPT !.status = told] ELSE fork
    IN  /\ told \in {"failed", "unknown"}
        /\ \/ fork' = after /\ Answers(k, "publishing", after.status) /\ UNCHANGED failures
           \/ Failure /\ fork' \in {fork, after} /\ Answers(k, "publishing", told)
        /\ UNCHANGED <<turnVars, binding, stopVars, forkCard, forks>>

PublishFork(k) ==
    /\ press[k].stage = "publishing" /\ Goes(k, "done")
    /\ \/ forkCard' = press[k].outcome /\ UNCHANGED failures
       \/ Failure /\ UNCHANGED forkCard
    /\ UNCHANGED <<turnVars, binding, stopVars, fork, forks>>
----------------------------------------------------------------------------
Stops(k) ==
    \/ PressStop(k) \/ LoadBinding(k) \/ BeginStop(k) \/ Inspect(k)
    \/ InterruptHeld(k) \/ InterruptUnheld(k) \/ SendInterrupt(k) \/ FinishStop(k)
Forks(k) ==
    \/ PressFork(k) \/ BeginFork(k) \/ StartFork(k) \/ RequestFork(k)
    \/ CommitFork(k) \/ FailFork(k) \/ PublishFork(k)

ButtonsNext ==
    \/ \E k \in Press : Stops(k) \/ Forks(k)
    \/ \E t \in Turn : NativeEnds(t) \/ Settles(t) \/ Finalized(t)
    \/ JobGoesOn \/ Rebind \/ ButtonsCrash

ButtonsSpec == ButtonsInit /\ [][ButtonsNext]_buttonVars
----------------------------------------------------------------------------
ButtonsTypeOK ==
    /\ status \in {"running", "ended", "busy"} /\ execution \in Turn
    /\ home \in [Turn -> {Source, Target, Other}]
    /\ server \in [Turn -> {"none", "running", "expiring", "interrupted", "ended"}]
    /\ local \in [Turn -> {"absent", "active", "settled"}]
    /\ binding \in {Source, Target, Other}
    /\ stop \in [turn : Turn, thread : {Source, Target, Other},
                outcome : Definitive \cup OpenStops \cup {"none"}]
    /\ fork \in [by : Press \cup {NoPress}, status : ForkResults \cup {"none", "pending"}]
    /\ press \in [Press -> [stage : Stages, turn : Turn, seen : {Source, Target, Other},
                            outcome : Definitive \cup OpenStops \cup ForkResults \cup {"none"}]]
    /\ forkCard \in ForkResults \cup {"none"}
    /\ interrupts \in [Turn -> Nat] /\ forks \in Nat /\ failures \in 0..MaxFailures

\* However often stop is pressed, answered or not, and whatever crashes or ends meanwhile: a
\* turn is interrupted at most once while its conversation stays bound to its thread; a stop
\* recorded as requested has interrupted its turn, and one recorded as too late belongs to a
\* turn that no longer counted as running (beginStop, finishStop, interrupt).  Once another
\* thread is bound, a press that had found the first one may count as new again.
StopToldTruly ==
    /\ \A t \in Turn : interrupts[t] > 1 => binding # home[t]
    /\ stop.outcome = "requested" => server[stop.turn] = "interrupted"
    /\ stop.outcome = "already_finished" => server[stop.turn] # "running"

\* However often fork is pressed: the thread is forked once, the conversation is bound to the
\* fork only if the row records its success, and the card tells of no other result than the
\* row, but for one that could not be written (beginFork, finishFork, publishForkOutcome).
ForkToldTruly ==
    /\ forks <= 1
    /\ binding = Target => fork.status = "succeeded"
    /\ forkCard \in {"succeeded", "superseded"} => fork.status = forkCard
    /\ forkCard = "failed" => fork.status \in {"failed", "pending"}

\* Card, row, binding and app server agree on what became of a stop and of a fork
\* (handleCardAction).
ButtonsToldTruly == StopToldTruly /\ ForkToldTruly
=============================================================================

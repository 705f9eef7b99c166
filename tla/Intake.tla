--------------------------------- MODULE Intake ---------------------------------
(***************************************************************************)
(* How a private message gets from Feishu to a forward job: ingest of      *)
(* core/communication-runtime.mjs with the private admission, fed by live  *)
(* events (channels/feishu/adapter.mjs) and by catch-up; acceptInbound of  *)
(* storage/store.mjs; and the registration that follows in the background. *)
(*                                                                         *)
(* One private chat with one sender, who is not listed in privateUserIds.  *)
(* At most one ingest of a message is under way: `processing` turns away   *)
(* every other observation of it.                                          *)
(***************************************************************************)
EXTENDS PrivateAdmission, Catchup

CONSTANTS
    MaxEventAgeMs,  \* older live messages are not handed to the agent
    MaxLive         \* bound: how many live events arrive

ASSUME IntakeAssumption == MaxEventAgeMs \in Nat /\ MaxLive \in Nat

VARIABLES
    task,       \* processing: the ingest of each message
    receipts,   \* bridge_message_receipts and the inbox
    handed,     \* messages handed to the forward runtime (launchForward)
    arrived,    \* live events so far
    fate        \* history: what is certain of each message

intakeVars == <<task, receipts, handed, arrived, fate>>
vars == <<admissionVars, catchupVars, intakeVars>>

\* stage: what the ingest awaits: findSenderUnionId, the endpoint, acceptInbound.
NoTask == [stage |-> "none", source |-> "live", union |-> FALSE,
           aborted |-> FALSE]
Task == [stage : {"none", "search", "ask", "accept"}, source : {"live", "history"},
         union : BOOLEAN, aborted : BOOLEAN]

\* "passed": catch-up took it as received when it met it in flight; "settled":
\* an observation of it was stored, or ended with a refusal.
Fate == {"open", "passed", "settled"}
Settled(who) == fate' = [m \in Posts |-> IF m \in who THEN "settled" ELSE fate[m]]

IntakeTypeOK ==
    /\ AdmissionTypeOK /\ CatchupTypeOK
    /\ task \in [Posts -> Task]
    /\ {receipts, handed, denied} \subseteq SUBSET Posts
    /\ fate \in [Posts -> Fate]
    /\ arrived \in 0..MaxLive
    /\ \A m \in Posts : Awaited(m) => task[m].source = "history" /\ task[m].stage # "none"

Init ==
    /\ AdmissionInit /\ CatchupInit
    /\ task = [m \in Posts |-> NoTask]
    /\ receipts = {} /\ handed = {} /\ fate = [m \in Posts |-> "open"]
    /\ arrived = 0

----------------------------------------------------------------------------
(* Steps of an ingest.                                                     *)

\* inFlight: the ingests that wait for the request with, or without, the union_id.
Asking(known) == {m \in Posts : task[m].stage = "ask" /\ task[m].union = known}

\* stale(): private history is never too old.
Stale(m, source) == source = "live" /\ now - posted[m] > MaxEventAgeMs

\* The admission of the messages in who is decided; tasks are those of that
\* moment.  A refusal ends the ingest, and an abort does; an admission goes on
\* to acceptInbound.
Decide(tasks, who, outcome, kept) ==
    LET goesOn(m) == outcome = "allow" /\ ~tasks[m].aborted
    IN  /\ task' = [m \in Posts |->
             IF m \notin who THEN tasks[m]
             ELSE IF ~goesOn(m) THEN NoTask
             ELSE [tasks[m] EXCEPT !.stage = "accept"]]
        /\ denied' = Denied(who, outcome)
        /\ entry' = Notified(kept, outcome, \E m \in who : tasks[m].source = "live")
        /\ Settled(IF outcome = "allow" THEN {} ELSE who)

\* check() up to its first wait: the answer kept, the request under way, or a
\* request of its own; a live event with no budget left asks nothing.
Check(tasks, m, known) ==
    \/ /\ Cached(known)
       /\ Decide(tasks, {m}, entry.outcome, entry)
    \/ /\ ~Cached(known)
       /\ task' = [tasks EXCEPT ![m].stage = "ask", ![m].union = known]
       /\ UNCHANGED <<entry, denied, fate>>
    \/ /\ ~Cached(known) /\ Asking(known) = {} /\ tasks[m].source = "live"
       /\ Decide(tasks, {m}, "refuse", entry)

\* ingest() up to its first wait.
Ingest(m, source) ==
    LET tasks == [task EXCEPT ![m] = [NoTask EXCEPT !.source = source]] IN
    /\ task[m].stage = "none"
    /\ unions' = (unions \/ source = "live")
    /\ \/ /\ Refused(m)
          /\ Settled({m})
          /\ UNCHANGED <<task, entry, denied, lookups>>
       \/ /\ ~Refused(m) /\ source = "history" /\ MaySearch
          /\ task' = [tasks EXCEPT ![m].stage = "search"]
          /\ lookups' = UnionRetryMs
          /\ UNCHANGED <<entry, denied, fate>>
       \/ /\ ~Refused(m) /\ ~(source = "history" /\ MaySearch)
          /\ Check(tasks, m, unions')
          /\ UNCHANGED lookups

----------------------------------------------------------------------------
(* Observations.                                                           *)

\* A live event is acknowledged at once, whatever becomes of it.
Receive(m) ==
    /\ posted[m] # Never /\ arrived < MaxLive
    /\ arrived' = arrived + 1
    /\ IF task[m].stage = "none" THEN Ingest(m, "live")
       ELSE UNCHANGED <<task, fate, admissionVars>>
    /\ UNCHANGED <<receipts, handed, catchupVars>>

\* Catch-up comes to a message that nothing is doing at the time.
Observe(m) ==
    /\ Offered(m)
    /\ Ingest(m, "history")
    /\ run' = IF task'[m].stage = "none" THEN Passed ELSE [run EXCEPT !.stage = "wait"]
    /\ UNCHANGED <<arrived, receipts, handed>>
    /\ UNCHANGED <<now, posted, cursor, late, since, faults>>

\* It comes to a message that is in flight, and counts it as received.
Pass(m) ==
    /\ Offered(m) /\ task[m].stage # "none"
    /\ run' = Passed
    /\ fate' = [fate EXCEPT ![m] = IF @ = "open" THEN "passed" ELSE @]
    /\ UNCHANGED <<task, receipts, handed, arrived, admissionVars>>
    /\ UNCHANGED <<now, posted, cursor, late, since, faults>>

\* deadlineMs of the adapter: the ingest stops at its next look at the signal.
Deadline(m) ==
    /\ task[m].stage # "none" /\ task[m].source = "live" /\ ~task[m].aborted
    /\ task' = [task EXCEPT ![m].aborted = TRUE]
    /\ UNCHANGED <<receipts, handed, arrived, fate>>
    /\ UNCHANGED <<admissionVars, catchupVars>>

\* The endpoint answers a request, or the request fails: every ingest that
\* shares it is decided.
Answer(known, outcome) ==
    LET who == Asking(known) IN
    /\ who # {}
    /\ Decide(task, who, outcome, Remembered(outcome, known))
    /\ run' = IF outcome # "allow" /\ \E m \in who : Awaited(m) THEN Passed ELSE run
    /\ UNCHANGED <<unions, lookups, arrived, receipts, handed>>
    /\ UNCHANGED <<now, posted, cursor, late, since, faults>>

\* recoverUnion returns, with or without a union_id, and check() goes on.
Search(m) ==
    /\ task[m].stage = "search"
    /\ unions' \in {unions, TRUE}
    /\ Check(task, m, unions')
    /\ IF task'[m].stage = "none" THEN HistoryHears(m, TRUE) ELSE UNCHANGED run
    /\ UNCHANGED <<lookups, arrived, receipts, handed>>
    /\ UNCHANGED <<now, posted, cursor, late, since, faults>>

----------------------------------------------------------------------------
(* acceptInbound, and what follows it.                                     *)

Ended(m) == task' = [task EXCEPT ![m] = NoTask]

\* The message is stored, or known already; either way one that triggers the
\* agent is handed on, to be registered in the background.
Accept(m) ==
    /\ task[m].stage = "accept"
    /\ receipts' = receipts \cup {m}
    /\ handed' = IF Stale(m, task[m].source) THEN handed ELSE handed \cup {m}
    /\ Ended(m) /\ HistoryHears(m, TRUE) /\ Settled({m})
    /\ UNCHANGED <<arrived, admissionVars>>
    /\ UNCHANGED <<now, posted, cursor, late, since, faults>>

\* It fails, or its COMMIT is not acknowledged.
AcceptFails(m) ==
    /\ task[m].stage = "accept" /\ CatchupFault
    /\ receipts' \in {receipts, receipts \cup {m}}
    /\ Ended(m) /\ HistoryHears(m, FALSE)
    /\ Settled(receipts' \ receipts)
    /\ UNCHANGED <<handed, arrived, admissionVars>>
    /\ UNCHANGED <<now, posted, cursor, late, since>>

\* The process dies and is started again; the server may still carry out what
\* it was sent.
Crash ==
    /\ CatchupFault
    /\ AdmissionForgotten /\ run' = Idle
    /\ task' = [m \in Posts |-> NoTask]
    /\ \E applied \in SUBSET {m \in Posts : task[m].stage = "accept"} :
          receipts' = receipts \cup applied
    /\ Settled(receipts' \ receipts)
    /\ late' \in {late, IF run.stage = "save" /\ run.current
                          THEN late \cup {run.value} ELSE late}
    /\ UNCHANGED <<handed, arrived, now, posted, cursor, since>>

----------------------------------------------------------------------------
\* External: time is counted in units that no wait outlasts.
Tick ==
    /\ \A m \in Posts : task[m].stage = "none"
    /\ run.stage = "idle"
    /\ Elapse /\ AdmissionAges
    /\ UNCHANGED intakeVars

CatchupStep ==
    \/ BeginRun \/ Fetch \/ Incomplete \/ PageDone \/ Save \/ SaveRefused

CatchupEnvironment ==
    \/ SaveFails \/ RunFails
    \/ \E m \in Posts : Post(m)
    \/ \E value \in late : LateWrite(value)

IngestStep ==
    \/ \E known \in BOOLEAN, outcome \in Outcome : Answer(known, outcome)
    \/ \E m \in Posts :
          \/ Observe(m) \/ Pass(m) \/ Search(m) \/ Accept(m)

Next ==
    \/ (CatchupStep \/ CatchupEnvironment) /\ UNCHANGED <<admissionVars, intakeVars>>
    \/ IngestStep \/ Crash \/ Tick
    \/ \E m \in Posts : Receive(m) \/ Deadline(m) \/ AcceptFails(m)

Spec == Init /\ [][Next]_vars

\* The loop of catch-up goes on (tick), and every wait of a run or an ingest
\* has a deadline.
FairSpec ==
    /\ Spec
    /\ WF_vars(CatchupStep /\ UNCHANGED <<admissionVars, intakeVars>>)
    /\ WF_vars(IngestStep)

----------------------------------------------------------------------------
(* Properties.                                                             *)

\* A message that the checkpoint has left behind was stored or refused, in
\* spite of crashes, failed writes and abandoned operations; but for one that
\* catch-up met in flight and took as received (ingest returns {inFlight}).
NothingSkipped ==
    \A m \in Posts : Behind(m) => fate[m] # "open"

\* A message the endpoint denied is neither stored nor registered afterwards,
\* whatever the endpoint says of its sender by the time it is observed again.
DeniedStaysOut ==
    [][\A m \in denied : /\ m \in receipts' => m \in receipts
                         /\ m \in handed' => m \in handed]_vars

\* Failed and conflicting writes of the cursor hold catch-up up, not forever:
\* every window is read to its end.
WindowsClose == []<>(cursor # NoCursor /\ cursor.window = NoWindow)
=============================================================================

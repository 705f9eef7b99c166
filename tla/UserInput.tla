------------------------------ MODULE UserInput ------------------------------
(***************************************************************************)
(* The questions Codex asks during one turn of a running job, from the     *)
(* request of the app server to the card in the chat and back:             *)
(* agents/codex/executor.mjs (handleServerRequest, expireUserInput,        *)
(* answerUserInput), channels/feishu/user-input-runtime.mjs and the        *)
(* user-input statements of storage/forward-jobs.mjs.                      *)
(*                                                                         *)
(* The row of the job holds one question, the latest; each question has a  *)
(* card of its own.  A step ends where the code awaits MySQL, the chat or  *)
(* the app server.                                                         *)
(***************************************************************************)
EXTENDS Integers, FiniteSets

CONSTANTS
    Request,    \* questions of the turn, numbered as they are asked
    Click,      \* submissions of a card's form, by the one who may answer
    MaxFaults   \* bound on failed calls, broken connections and shutdowns

ASSUME RequestAssumption == Request \subseteq Nat \ {0}
ASSUME FaultAssumption == MaxFaults \in Nat

None == 0

VARIABLES
    turn,       \* the turn's state object: running, settled, finished
    job,        \* the status of the row
    named,      \* result_json.execution of the row names the thread and the turn
    native,     \* what became of each request at the app server
    question,   \* state.userInput of the executor
    asking,     \* handleServerRequest of each request, with the card runtime's open
    cancelled,  \* requests whose signal is aborted
    closing,    \* expire of each request, called by the executor and by close
    row,        \* result_json.userInput
    card,       \* what the card of each request shows
    live,       \* the map live: absent, pending or submitting
    accepting,
    click,      \* handleCardAction of each click
    faults

executorVars == <<turn, question, cancelled>>
runtimeVars == <<closing, live, accepting>>
vars == <<job, named, native, asking, row, card, click, faults, executorVars, runtimeVars>>

Final == {"submitted", "unknown", "expired"}
NoRow == [request |-> None, status |-> "none", by |-> None, card |-> "none"]
Row == [request : Request \cup {None}, status : Final \cup {"none", "pending", "submitting"},
        by : Click \cup {None}, card : {"none", "intent", "confirmed", "failed", "unknown"}]

AskingStages == {"none", "queued", "superseding", "storing", "posting", "posted", "rejected",
                 "lost", "retiring", "marking", "failing", "ended"}
ClosingStages == {"none", "refusing", "reading", "storing", "patching", "done"}
ClickStages == {"idle", "checked", "sent", "begun", "doubting", "answering", "finishing",
                "reconciling", "patching", "done"}
Callers == {"executor", "shutdown"}

NoClosing == [stage |-> "none", seen |-> NoRow]
NoClick == [stage |-> "idle", request |-> None, status |-> "none", seen |-> NoRow]

Init ==
    /\ turn = "running" /\ job = "running"
    /\ named = FALSE    \* a claim takes no row that names a turn
    /\ native = [r \in Request |-> "none"]
    /\ question = None
    /\ asking = [r \in Request |-> [stage |-> "none", after |-> None]]
    /\ cancelled = {}
    /\ closing = [c \in Callers |-> [r \in Request |-> NoClosing]]
    /\ row = NoRow
    /\ card = [r \in Request |-> "none"]
    /\ live = [r \in Request |-> "absent"]
    /\ accepting = TRUE
    /\ click = [k \in Click |-> NoClick]
    /\ faults = 0
----------------------------------------------------------------------------
(* Statements on the row, each in a transaction that locks it *)

Fault == faults < MaxFaults /\ faults' = faults + 1

\* A statement is acknowledged with its result, or it fails with its effect open.
Acknowledged(after) == row' = after /\ UNCHANGED faults
Unacknowledged(after) == Fault /\ row' \in {row, after}

\* An earlier question of the turn holds the row while its outcome is open.
Blocked == row.status \in {"submitting", "unknown"} \/ row.card = "unknown"

\* A question is stale unless it comes from the turn the row names.
Accepts == job = "running" /\ named /\ ~Blocked

Begun(r) ==
    IF Accepts THEN [request |-> r, status |-> "pending", by |-> None, card |-> "intent"] ELSE row

CardFinished(r, status) ==
    IF row.request # r \/ row.card # "intent" THEN row
    ELSE [row EXCEPT !.card = status, !.status = IF status = "failed" THEN "expired" ELSE @]

Answerable(r) ==
    /\ job = "running"
    /\ row.request = r /\ row.status = "pending" /\ row.card = "confirmed"

AnswerBegun(r, k) ==
    IF Answerable(r) THEN [row EXCEPT !.status = "submitting", !.by = k] ELSE row

AnswerFinished(r, k, status) ==
    IF row.request = r /\ row.by = k /\ row.status = "submitting"
    THEN [row EXCEPT !.status = status] ELSE row

Expired(r) ==
    IF row.request = r /\ row.status \notin Final THEN [row EXCEPT !.status = "expired"] ELSE row

Doubted(r, k) ==
    IF row.request = r /\ (row.status = "pending" \/ (row.status = "submitting" /\ row.by = k))
    THEN [row EXCEPT !.status = "unknown", !.by = k] ELSE row
----------------------------------------------------------------------------
(* The executor *)

Open(r) == native[r] = "open"

\* Slip: the signal of the expired request is not aborted.
ExpiresSilently(r, stage) ==
    /\ question' = None /\ UNCHANGED cancelled
    /\ closing' = [closing EXCEPT !["executor"][r] = [NoClosing EXCEPT !.stage = stage]]

\* expireUserInput: respond is refusing, or reading when the request is abandoned.
Expires(r, stage) ==
    /\ question' = None
    /\ cancelled' = cancelled \cup {r}
    /\ closing' = [closing EXCEPT !["executor"][r] = [NoClosing EXCEPT !.stage = stage]]

\* ... called when a question may be pending.
ExpiresAny(stage) ==
    IF question # None THEN Expires(question, stage)
    ELSE UNCHANGED <<question, cancelled, closing>>

AskingGoes(r, stage) == asking' = [asking EXCEPT ![r].stage = stage]

\* The state object is in activeByTurn until what its end expires is closed; a question put
\* there later (see Superseded) is found by nobody.
Registered == turn # "finished"

\* The server asks, in order; handleServerRequest queues behind the earlier ones.
Ask(r) ==
    /\ native[r] = "none" /\ turn = "running"
    /\ \A q \in Request : q < r => native[q] # "none"
    /\ native' = [native EXCEPT ![r] = "open"]
    /\ AskingGoes(r, "queued")
    /\ UNCHANGED <<job, named, row, card, click, faults, executorVars, runtimeVars>>

Ended(r) ==
    \/ asking[r].stage \in {"none", "ended"}
    \/ asking[r].stage = "failing" /\ closing["executor"][r].stage = "done"

\* The question is the pending one; onUserInput is called, and throws when the service closes.
Poses(r) ==
    IF accepting
    THEN question' = r /\ AskingGoes(r, "storing") /\ UNCHANGED <<cancelled, closing>>
    ELSE Expires(r, "refusing") /\ AskingGoes(r, "failing")

Refused(r) == IF Open(r) THEN [native EXCEPT ![r] = "refused"] ELSE native

Turned(r) == native[r] # "open" \/ turn # "running"

Start(r) ==
    /\ asking[r].stage = "queued"
    /\ \A q \in Request : q < r => Ended(q)
    /\ \/ /\ Turned(r)
          /\ native' = Refused(r) /\ AskingGoes(r, "ended")
          /\ UNCHANGED <<question, cancelled, closing>>
       \/ ~Turned(r) /\ question = None /\ Poses(r) /\ UNCHANGED native
       \/ /\ ~Turned(r) /\ question # None
          /\ Expires(question, "refusing")
          /\ asking' = [asking EXCEPT ![r] = [stage |-> "superseding", after |-> question]]
          /\ UNCHANGED native
    /\ UNCHANGED <<turn, job, named, row, card, live, accepting, click, faults>>

\* The earlier question is closed.  The code does not look at the turn again.
Superseded(r) ==
    /\ asking[r].stage = "superseding"
    /\ closing["executor"][asking[r].after].stage = "done"
    /\ IF native[r] = "resolved"
       THEN AskingGoes(r, "ended") /\ UNCHANGED <<question, cancelled, closing>>
       ELSE Poses(r)
    /\ UNCHANGED <<turn, job, named, native, row, card, live, accepting, click, faults>>

\* onUserInput throws: the question is expired unless that is done already.
AskFails(r) ==
    IF question = r THEN Expires(r, "refusing") /\ AskingGoes(r, "failing")
    ELSE AskingGoes(r, "ended") /\ UNCHANGED <<question, cancelled, closing>>

\* serverRequest/resolved: the server needs no answer any more.
NativeResolves(r) ==
    /\ Open(r) /\ Registered
    /\ native' = [native EXCEPT ![r] = "resolved"]
    /\ IF question = r THEN Expires(r, "reading") ELSE UNCHANGED <<question, cancelled, closing>>
    /\ UNCHANGED <<turn, job, named, asking, row, card, live, accepting, click, faults>>

\* The turn completes, fails, is stopped or times out.
TurnSettles ==
    /\ turn = "running" /\ turn' = "settled"
    /\ UNCHANGED <<job, named, native, asking, row, card, click, faults>>
    /\ UNCHANGED <<question, cancelled, runtimeVars>>

\* registerState: after finalizeTurn the pending question expires.
TurnFinishes ==
    /\ turn = "settled" /\ turn' = "finished"
    /\ ExpiresAny("refusing")
    /\ UNCHANGED <<job, named, native, asking, row, card, live, accepting, click, faults>>

\* handleDisconnect: the requests are gone with the child.
Disconnect ==
    /\ Fault /\ Registered /\ turn' = "settled"
    /\ native' = [r \in Request |-> IF Open(r) THEN "gone" ELSE native[r]]
    /\ ExpiresAny("reading")
    /\ UNCHANGED <<job, named, asking, row, card, live, accepting, click>>

\* The forward runtime records the result of the turn.
JobEnds ==
    /\ turn = "finished" /\ job = "running"
    /\ job' = "ended"
    /\ UNCHANGED <<named, native, asking, row, card, click, faults, executorVars, runtimeVars>>

\* The store's patchExecution, the one statement that names a turn in a running row.  Nothing
\* in the service calls it: the tests of the questions write the identity by hand.
PatchExecution ==
    /\ job = "running" /\ ~named /\ named' = TRUE
    /\ UNCHANGED <<job, native, asking, row, card, click, faults, executorVars, runtimeVars>>
----------------------------------------------------------------------------
(* open: the question is stored, its card is posted and confirmed *)

\* A patch names the message of the row it was handed, if that has one.
Patched(seen, terminal) ==
    IF seen.card = "confirmed" THEN [card EXCEPT ![seen.request] = terminal] ELSE card
Patches(seen, terminal) ==
    \/ card' = Patched(seen, terminal) /\ UNCHANGED faults
    \/ seen.card = "confirmed" /\ Fault /\ UNCHANGED card

Store(r) ==
    /\ asking[r].stage = "storing"
    /\ \/ /\ Acknowledged(Begun(r))
          /\ IF r \in cancelled THEN AskingGoes(r, "retiring") /\ UNCHANGED <<question, cancelled, closing>>
             ELSE IF Accepts THEN AskingGoes(r, "posting") /\ UNCHANGED <<question, cancelled, closing>>
             ELSE AskFails(r)
       \/ Unacknowledged(Begun(r)) /\ AskFails(r)
    /\ UNCHANGED <<turn, job, named, native, card, live, accepting, click>>

Post(r) ==
    /\ asking[r].stage = "posting"
    /\ \/ /\ AskingGoes(r, "posted") /\ card' = [card EXCEPT ![r] = "form"]
          /\ UNCHANGED faults
       \/ /\ Fault
          /\ \/ AskingGoes(r, "rejected") /\ UNCHANGED card
             \/ AskingGoes(r, "lost") /\ card' \in {card, [card EXCEPT ![r] = "form"]}
    /\ UNCHANGED <<job, named, native, row, click, executorVars, runtimeVars>>

\* Slip: the reason is stored as the status of the card.
MissingRaw(stage) == stage

Missing(stage) == IF stage = "lost" THEN "unknown" ELSE "failed"

\* finishUserInputCard, when the card was not posted for certain.
RecordMissing(r) ==
    /\ asking[r].stage \in {"rejected", "lost"}
    /\ LET after == CardFinished(r, Missing(asking[r].stage))
       IN  Acknowledged(after) \/ Unacknowledged(after)
    /\ AskFails(r)
    /\ UNCHANGED <<turn, job, named, native, card, live, accepting, click>>

\* ... and when it was: the question is live unless it expired meanwhile.
Confirm(r) ==
    LET after == CardFinished(r, "confirmed") IN
    /\ asking[r].stage = "posted"
    /\ \/ /\ Acknowledged(after)
          /\ \/ /\ r \in cancelled \/ after.request # r \/ after.status # "pending"
                /\ AskingGoes(r, "retiring") /\ UNCHANGED live
             \/ /\ r \notin cancelled /\ after.request = r /\ after.status = "pending"
                /\ AskingGoes(r, "ended") /\ live' = [live EXCEPT ![r] = "pending"]
          /\ UNCHANGED <<question, cancelled, closing>>
       \/ Unacknowledged(after) /\ AskFails(r) /\ UNCHANGED live
    /\ UNCHANGED <<turn, job, named, native, card, accepting, click>>

\* The request expired during open: so does the row, ...
Retire(r) ==
    /\ asking[r].stage = "retiring"
    /\ Acknowledged(Expired(r)) \/ Unacknowledged(Expired(r))
    /\ AskingGoes(r, "marking")
    /\ UNCHANGED <<job, named, native, card, click, executorVars, runtimeVars>>

\* ... and the card, if there is one.
Mark(r) ==
    /\ asking[r].stage = "marking"
    /\ Patches(IF row.request = r THEN row ELSE NoRow, "expired")
    /\ AskFails(r)
    /\ UNCHANGED <<turn, job, named, native, row, live, accepting, click>>
----------------------------------------------------------------------------
(* expire: the row, then the card *)

ClosingGoes(r, c, stage) == closing' = [closing EXCEPT ![c][r].stage = stage]

\* Slip: what respondError throws for a request that is gone ends the expiry.
RefuseOpen(r) ==
    /\ closing["executor"][r].stage = "refusing" /\ Open(r)
    /\ native' = Refused(r)
    /\ ClosingGoes(r, "executor", "reading")
    /\ UNCHANGED <<job, named, asking, row, card, live, accepting, click, faults, executorVars>>

\* respondError waits for its write; its failure is of no account.
Refuse(r) ==
    /\ closing["executor"][r].stage = "refusing"
    /\ native' = Refused(r)
    /\ ClosingGoes(r, "executor", "reading")
    /\ UNCHANGED <<job, named, asking, row, card, live, accepting, click, faults, executorVars>>

\* getByMessageId; when it fails nothing else is done.
CloseReads(r, c) ==
    /\ closing[c][r].stage = "reading"
    /\ \/ closing' = [closing EXCEPT ![c][r] = [stage |-> "storing", seen |-> row]]
          /\ UNCHANGED faults
       \/ Fault /\ ClosingGoes(r, c, "done")
    /\ UNCHANGED <<job, named, native, asking, row, card, live, accepting, click, executorVars>>

\* expireUserInput; the question read before stands in when it yields none.
CloseStores(r, c) ==
    /\ closing[c][r].stage = "storing"
    /\ \/ /\ Acknowledged(Expired(r))
          /\ closing' = [closing EXCEPT ![c][r] =
                [stage |-> "patching", seen |-> IF row.request = r THEN row' ELSE @.seen]]
       \/ Unacknowledged(Expired(r)) /\ ClosingGoes(r, c, "patching")
    /\ live' = [live EXCEPT ![r] = "absent"]
    /\ UNCHANGED <<job, named, native, asking, card, accepting, click, executorVars>>

ClosePatches(r, c) ==
    /\ closing[c][r].stage = "patching"
    /\ Patches(closing[c][r].seen, "expired")
    /\ ClosingGoes(r, c, "done")
    /\ UNCHANGED <<job, named, native, asking, row, live, accepting, click, executorVars>>

\* close: the pending questions expire.
Shutdown ==
    /\ Fault /\ accepting /\ accepting' = FALSE
    /\ closing' = [closing EXCEPT !["shutdown"] =
                      [r \in Request |-> IF live[r] = "pending"
                                         THEN [NoClosing EXCEPT !.stage = "reading"] ELSE @[r]]]
    /\ UNCHANGED <<job, named, native, asking, row, card, live, click, executorVars>>

\* The executor closes after the card runtime and the clicks.
ExecutorCloses ==
    /\ ~accepting /\ question # None /\ Registered
    /\ \A r \in Request : closing["shutdown"][r].stage \in {"none", "done"}
    /\ \A r \in Request : asking[r].stage \in {"none", "queued", "superseding", "failing", "ended"}
    /\ \A k \in Click : click[k].stage \in {"idle", "done"}
    /\ Expires(question, "reading")
    /\ native' = [r \in Request |-> IF Open(r) THEN "gone" ELSE native[r]]
    /\ UNCHANGED <<turn, job, named, asking, row, card, live, accepting, click, faults>>
----------------------------------------------------------------------------
(* handleCardAction: the form of a card is submitted *)

ClickGoes(k, stage) == click' = [click EXCEPT ![k].stage = stage]

\* getRun and the checks on what it shows; authorize is asked then.
Submit(k, r) ==
    /\ click[k].stage = "idle" /\ card[r] = "form" /\ accepting
    /\ click' = [click EXCEPT ![k] = [NoClick EXCEPT
                     !.stage = IF Answerable(r) THEN "checked" ELSE "done", !.request = r]]
    /\ UNCHANGED <<job, named, native, asking, row, card, faults, executorVars, runtimeVars>>

\* Only a question of this process can be answered.
MayAnswer(k) == accepting /\ live[click[k].request] # "absent"

BeginAnswer(k) ==
    LET r == click[k].request IN
    /\ click[k].stage = "checked"
    /\ \/ ~MayAnswer(k) /\ ClickGoes(k, "done") /\ UNCHANGED <<row, faults>>
       \/ /\ MayAnswer(k)
          /\ Acknowledged(AnswerBegun(r, k))
          /\ ClickGoes(k, IF Answerable(r) THEN "begun" ELSE "done")
       \/ MayAnswer(k) /\ Unacknowledged(AnswerBegun(r, k)) /\ ClickGoes(k, "doubting")
    /\ UNCHANGED <<job, named, native, asking, card, executorVars, runtimeVars>>

\* The question is marked as being submitted, in memory.
MarkSubmitting(k) ==
    LET r == click[k].request IN
    /\ click[k].stage = "begun"
    /\ live' = [live EXCEPT ![r] = IF @ = "absent" THEN @ ELSE "submitting"]
    /\ ClickGoes(k, "answering")
    /\ UNCHANGED <<job, named, native, asking, row, card, faults, executorVars, closing, accepting>>

\* Slip: the admission of another click is taken for one's own.
OwnsAny(k, r) == row.request = r /\ row.status = "submitting"

Owns(k, r) == row.request = r /\ row.by = k /\ row.status = "submitting"

\* The catch of beginUserInputAnswer: the row shows whether the answer was admitted;
\* if not, markUserInputUnknown rules it out.
ResolveBegin(k) ==
    LET r == click[k].request
        rest(seen) ==
            click' = [click EXCEPT ![k].stage = "patching", ![k].seen = seen,
                         ![k].status = IF seen.status = "submitted" THEN "submitted" ELSE "unknown"]
    IN  /\ click[k].stage = "doubting"
        /\ \/ Owns(k, r) /\ ClickGoes(k, "begun") /\ UNCHANGED <<row, live, faults>>
           \/ /\ ~Owns(k, r)
              /\ Acknowledged(Doubted(r, k))
              /\ rest(IF row.request = r /\ row'.status \in {"submitted", "unknown"}
                      THEN row' ELSE row)
              /\ live' = [live EXCEPT ![r] = "absent"]
           \/ /\ Unacknowledged(Doubted(r, k)) /\ rest(row)
              /\ live' = [live EXCEPT ![r] = "absent"]
        /\ UNCHANGED <<job, named, native, asking, card, executorVars, closing, accepting>>

\* answerUserInput: the question still pending is answered, or has expired.
Answer(k) ==
    LET r == click[k].request
        says(status) == click' = [click EXCEPT ![k].stage = "finishing", ![k].status = status]
    IN  /\ click[k].stage = "answering"
        /\ \/ (question # r \/ ~Registered) /\ says("expired") /\ UNCHANGED <<native, question, cancelled, faults>>
           \/ /\ question = r /\ Registered
              /\ question' = None /\ cancelled' = cancelled \cup {r}
              /\ \/ Open(r) /\ says("submitted") /\ UNCHANGED faults
                    /\ native' = [native EXCEPT ![r] = "answered"]
                 \/ Fault /\ says("unknown")
                    /\ native' \in {native, [native EXCEPT ![r] = "answered"]}
        /\ UNCHANGED <<turn, job, named, asking, row, card, runtimeVars>>

Terminal(seen) == IF seen.status \in {"submitted", "expired"} THEN seen.status ELSE "unknown"

\* What the row showed is to be shown by its card.
Shows(k, seen) ==
    click' = [click EXCEPT ![k].stage = "patching", ![k].seen = seen, ![k].status = Terminal(seen)]

\* finishUserInput; whoever finds the row of another question has no card to patch.
FinishAnswer(k) ==
    LET r == click[k].request
        after == AnswerFinished(r, k, click[k].status)
    IN  /\ click[k].stage = "finishing"
        /\ \/ /\ Acknowledged(after)
              /\ Shows(k, IF row.request = r /\ row.by = k THEN after ELSE NoRow)
              /\ live' = [live EXCEPT ![r] = "absent"]
           \/ Unacknowledged(after) /\ ClickGoes(k, "reconciling") /\ UNCHANGED live
        /\ UNCHANGED <<job, named, native, asking, card, executorVars, closing, accepting>>

\* The catch: what is still being submitted becomes unknown; whatever question the row
\* holds then is patched.
Reconcile(k) ==
    LET r == click[k].request
        after == IF Owns(k, r) THEN Doubted(r, k) ELSE row
    IN  /\ click[k].stage = "reconciling"
        /\ \/ Acknowledged(after) /\ Shows(k, after)
           \/ Unacknowledged(after) /\ ClickGoes(k, "done")
        /\ live' = [live EXCEPT ![r] = "absent"]
        /\ UNCHANGED <<job, named, native, asking, card, executorVars, closing, accepting>>

ClickPatches(k) ==
    /\ click[k].stage = "patching"
    /\ Patches(click[k].seen, click[k].status)
    /\ ClickGoes(k, "done")
    /\ UNCHANGED <<job, named, native, asking, row, executorVars, runtimeVars>>
----------------------------------------------------------------------------
Opens(r) == Store(r) \/ Post(r) \/ RecordMissing(r) \/ Confirm(r) \/ Retire(r) \/ Mark(r)
Handles(r) == Start(r) \/ Superseded(r) \/ Opens(r)
Closes(r, c) == (c = "executor" /\ Refuse(r)) \/ CloseReads(r, c) \/ CloseStores(r, c) \/ ClosePatches(r, c)
Clicks(k) ==
    \/ BeginAnswer(k) \/ MarkSubmitting(k) \/ ResolveBegin(k) \/ Answer(k)
    \/ FinishAnswer(k) \/ Reconcile(k) \/ ClickPatches(k)

Next ==
    \/ \E r \in Request : Ask(r) \/ Handles(r) \/ NativeResolves(r)
    \/ \E r \in Request, c \in Callers : Closes(r, c)
    \/ \E k \in Click : Clicks(k) \/ \E r \in Request : Submit(k, r)
    \/ TurnSettles \/ TurnFinishes \/ Disconnect \/ JobEnds \/ PatchExecution \/ Shutdown \/ ExecutorCloses

\* Calls are answered or fail, a settled turn is finalized and its job recorded: as long as
\* any of that can go on, something does.
Continues ==
    \/ \E r \in Request : Handles(r) \/ \E c \in Callers : Closes(r, c)
    \/ \E k \in Click : Clicks(k)
    \/ TurnFinishes \/ JobEnds \/ ExecutorCloses
Fairness == WF_vars(Continues)

Spec == Init /\ [][Next]_vars
FairSpec == Spec /\ Fairness
----------------------------------------------------------------------------
TypeOK ==
    /\ turn \in {"running", "settled", "finished"} /\ job \in {"running", "ended"}
    /\ named \in BOOLEAN
    /\ native \in [Request -> {"none", "open", "answered", "refused", "resolved", "gone"}]
    /\ question \in Request \cup {None}
    /\ asking \in [Request -> [stage : AskingStages, after : Request \cup {None}]]
    /\ cancelled \subseteq Request
    /\ closing \in [Callers -> [Request -> [stage : ClosingStages, seen : Row]]]
    /\ row \in Row
    /\ card \in [Request -> Final \cup {"none", "form"}]
    /\ live \in [Request -> {"absent", "pending", "submitting"}]
    /\ accepting \in BOOLEAN /\ faults \in 0..MaxFaults
    /\ click \in [Click -> [stage : ClickStages, request : Request \cup {None},
                            status : Final \cup {"none"}, seen : Row]]

Quiet ==
    /\ \A r \in Request : Ended(r)
    /\ \A r \in Request, c \in Callers : closing[c][r].stage \in {"none", "done"}
    /\ \A k \in Click : click[k].stage \in {"idle", "done"}

\* The click that answers Codex is the one the row admitted, and the only one.
OneAnswerPerQuestion ==
    \A k \in Click :
        click[k].stage \in {"answering", "finishing"} =>
            /\ row.request = click[k].request =>
                  row.by = k /\ row.status \in {"submitting", "expired"}
            /\ \A l \in Click : click[l].stage \in {"answering", "finishing"}
                                  /\ click[l].request = click[k].request => l = k

\* The record of an answer is true: one recorded as submitted reached Codex, and one that
\* reached Codex is never recorded as expired, but for a shutdown between the two
\* (finishUserInput, expireUserInput against answerUserInput).  And Codex is answered by
\* the click that the row admitted and by no other: not by a second click, and not by one
\* whose admission was doubted and ruled out (beginUserInputAnswer, markUserInputUnknown).
AnswerRecordedTruly ==
    /\ row.request # None =>
          /\ row.status = "submitted" => native[row.request] = "answered"
          /\ row.status = "expired" /\ native[row.request] = "answered" => ~accepting
    /\ OneAnswerPerQuestion

\* A question put on a turn that had settled (Superseded), or one that was resolved natively
\* and whose expiry was overtaken by the next question (CloseStores).
Left(r) == r = question \/ (native[r] = "resolved" /\ row.request # r)

\* Once a turn is over and every call has ended, its requests are settled at the app server
\* and no form is left on show.  As long as the row does not name the turn, which is how the
\* service runs, no fault changes that: the question that is stale is refused, whatever its
\* expiry meets (beginUserInput, expireUserInput).  When the row does name it, a failed call
\* may leave one behind, and so may the two questions of Left.
ClosedWithTheTurn ==
    turn = "finished" /\ Quiet =>
        \A r \in Request : Open(r) \/ card[r] = "form" => named /\ (faults > 0 \/ Left(r))

\* docs/runtime.md:267: "A supported Codex request creates a separate Feishu form for the
\* current active turn."  So none is refused without a form while the turn runs, nothing has
\* failed and no earlier question holds the row (beginUserInput).
FormForEveryQuestion ==
    turn = "running" /\ faults = 0 /\ ~Blocked =>
        \A r \in Request : native[r] = "refused" => card[r] # "none"

\* Handlers, expiries and clicks wait for each other in no circle: all come to their end.
CallsEnd == []<>Quiet
=============================================================================

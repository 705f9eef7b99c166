# agent-chat-bridge: TLA+ models and proofs

The bridge receives Feishu messages, stores them as forward jobs, lets Codex answer each one and
delivers the answer back to the chat.  Beside it runs a second, generic pair of queues: webhook jobs
for other services and chat effects those services ask for.  Everything that must survive a restart
lives in MySQL; several processes may serve the same tables, and what keeps them apart are leases.

This directory models the way of a message through the bridge: how it comes in, live or from
history, and is admitted; the durable queues and the workers that serve them; the executor that
talks to Codex; the cards that show progress, take answers and carry buttons; the private copies of
the files Codex leaves; and the transaction layer under all of it.  TLC checks the models on small
instances; TLAPS proves every safety property the passing runs check for every value of the
constants.  Paths below are relative to the repository's source root; "the worker" is the forward
runtime unless the communication worker is named.

To repeat the checks: `tlc -config X.cfg Module.tla` for each run of PROJECT.json, and
`tlapm M_proofs.tla` for each proof module.

## 1. Inventory

| Component | State it keeps | Operations | What is hard |
|---|---|---|---|
| Forward jobs table, storage/forward-jobs.mjs | one row per run: status, attempts, lease, next attempt, result, stop/fork/feedback columns | upsert, claim, claimReplyPending, renew, markReplyPending, markFinished, markRetry, user input, stop, fork, feedback cleanup | conditional writes under a lease that may have passed to another owner; unacknowledged writes |
| Forward runtime, core/forward-runtime.mjs | open leases (deadline, abort signal, timers), running set | register, processRegistered, recover, withLease, executeOwnedJob, deliverJob, stop | a local deadline against a database lease, stalls, heartbeat races, retry classification |
| Codex executor, agents/codex/executor.mjs | thread registry, active turns, waiting turns, pending admissions, server requests | execute, steer, stop, fork, notifications, disconnect | admission of unknown outcome, takeover of a turn, steering into a turn that ends |
| App server client, agents/codex/app-server-client.mjs | request table, timers, connection | request, notification, close | late answers, timeouts, reconnect |
| Codex sessions and event writer, storage/codex-sessions.mjs | event write queue and its counters; bindings, events (rows) | acquireEventWrite, releaseEventWrite | bounded queue that must never drop a receipt |
| Storage connection, storage/connection.mjs | pool, per-call stage and deadline | withConnection | deadline against BEGIN, COMMIT, ROLLBACK and the late delivery of a connection |
| Bridge store, storage/store.mjs | bridge_jobs, bridge_outbox, pendingClaims | acceptInbound, claimJobs, claimOutbox, recover, renewJob, finishJobWithOutbox, retryJob, settleOutbox | order per conversation, order per reply, claims of unknown outcome |
| Communication worker, core/communication-runtime.mjs | active deliveries, healthy and degraded flags | loop, launch, hook, deliver, settle | recovery of claims, what is fatal, at-most-once sends |
| Inbound messages and conversations | rows keyed by message id | ingest, markForwarded | idempotent single statements |
| Catch-up, core/catchup.mjs | checkpoint per conversation | scan of pages, backfill | crash between page and checkpoint |
| Private admission, core/private-admission.mjs | cache, shared in-flight lookups, refusal notices | admit | several messages waiting for one lookup, expiry |
| Execution feedback, stop, fork, channels/feishu/execution-feedback.mjs | card per run, cleanup claims | start, progress, finish, recall, beginStop, beginFork | stop against finish, fork against rebind, recall applied but not recorded |
| User input, channels/feishu/user-input-runtime.mjs | open requests, cards | open, answer, expire, close | unacknowledged answer, the turn's end while the card is created |
| Replies, channels/feishu/replies.mjs | prepared parts, uploads | prepare, deliver | order and idempotency of the parts |
| Outbound media, channels/feishu/outbound-media.mjs | manifests, snapshots and quarantined files of each run | prepare, upload, send, cleanup, releaseRun | an agent that writes the same files; the process may die between two calls of the file system |
| Feishu adapter, input and normalisation | none | API calls, parsing | external I/O |
| Legacy runtime, core/runtime.mjs and what only it uses | its own job states | not wired by service.mjs any more | as the forward runtime |
| Service, server, configuration | wiring, health, watchdog | start, stop, routes | order of shutdown |
| Formatting, prompts, migrations, diagnostics | none | pure functions, one-off scripts | none that needs a state machine |

How they interact.  The Feishu channel calls `register` of the forward runtime, which upserts a row;
the runtime claims it, and under `withLease` calls the executor, which talks to the Codex app server
through the client and stores receipts through the event writer; the result is written to the row,
claimed again for delivery, and sent by replies.  Every write passes through `withConnection`. Other
services register inbound events with the bridge store; the communication worker delivers them as
hooks, and the effects a hook returns become outbox rows, which it sends through the same channel.

What makes each correct:

* forward queue: one executor per job; only the last attempt records; a recorded result is final; a
  turn is repeated for named causes only; every job ends;
* transaction layer: an error other than `commit_unknown` left nothing behind; the pool lends clean
  connections, each to one live call; every call is answered by its deadline;
* event writer: slots neither leak nor idle; only progress is dropped; receipts keep their order;
* hook jobs and outbox: order per conversation and per reply; each claim is carried out once; sends
  that cannot be repeated are made once; nothing that ended reopens; every hook ends;
* executor: a message is neither dropped nor given to Codex twice by a retry, a steer or a broken
  connection, as long as its turn left a receipt; what a caller is told of a turn is true; turns of a
  conversation do not overlap;
* intake: the checkpoint of catch-up leaves no message behind that was neither stored nor refused;
  a message denied once stays out; every window is read to its end;
* questions: an answer reaches Codex once and its record is true; when the turn is over no form is
  left on show; no two calls wait for each other;
* buttons: a turn is interrupted at most once while its thread is bound, a thread forked at most
  once, and card, row, binding and app server agree on what became of it;
* progress card: the answer of a finished job was seen, once, and no card goes on showing progress;
* outbound media: no output of the agent is lost, none is sent by two runs, and what was claimed can
  still be sent.

The hazards behind these, each at its line, are the `hazards` of PROJECT.json.

## 2. Modules

| Module | Models | State ↔ code |
|---|---|---|
| ForwardJobs | the table of storage/forward-jobs.mjs | `row[j]`: the columns the life cycle reads; instants relative to the present |
| ForwardRuntime | core/forward-runtime.mjs over ForwardJobs, the executor by its outcomes | `lease[o]`: the locals of one `withLease` call and where `executeOwnedJob` or `deliverJob` stands |
| JobQueue | the abstract queue the callers of register and query rely on | `job[j]`: status, attempts, result |
| CodexExecutor | `execute` of agents/codex/executor.mjs in one conversation, with the app server client | `call[c]`: the locals of a call; `active`, `state`, `steerQueue`, `lockQueue`: the maps of the executor; `thread`, `store`: its rows; `native`: the turns at the app server (external) |
| UserInput | the questions of a turn: handleServerRequest and answerUserInput of the executor, channels/feishu/user-input-runtime.mjs, the user-input statements of forward-jobs.mjs | `row`: `result_json.userInput`; `named`: `result_json.execution` names the turn; `asking`, `closing`, `click`: the calls under way; `card`: what the chat shows |
| StopFork | the two buttons: handleCardAction of channels/feishu/execution-feedback.mjs, inspect, interrupt and forkBinding of the executor, beginStop to finishFork of forward-jobs.mjs | `stop`, `fork`: the row's result; `home[t]`: the thread of a turn; `press[k]`: a handler; `server`, `local`: turns there and here; `binding` |
| ProgressCard | channels/feishu/execution-card.mjs and its observer, the card's part of execution-feedback.mjs and of the forward runtime | `saved`: `result_json.executionCard`; `state`, `chain`, `own`: the object ExecutionCard and its updates; `shows`: the chat (external) |
| PrivateAdmission | core/private-admission.mjs for one sender | `entry`, `denied`, `unions`, `lookups`: its maps |
| Catchup | core/catchup.mjs for one conversation | `cursor`: the row; `run`: `conversationRun`; `late`: writes given up |
| Intake | private messages through core/communication-runtime.mjs, over PrivateAdmission and Catchup | `task[m]`: the ingest of a message; `receipts`, `handed` |
| OutboundMedia | channels/feishu/outbound-media.mjs against the agent | `claim[r]`, `took[r]`: a manifest; `spool[r]`: snapshots; `quarantine[r]`; `source`, `holds`: the file (external); `at`, `run`, `sees`: the operation under `exclusive` |
| BridgeQueue | hook jobs and outbox of storage/store.mjs | `row[r]`: the columns of both tables |
| CommunicationWorker | core/communication-runtime.mjs over BridgeQueue, with pendingClaims | `pending[o]`: pendingClaims; `tasks[o]`: active deliveries; `healthy[o]`; `ran`: history |
| StorageTransaction | `withConnection` of storage/connection.mjs over a mysql2 pool and a MySQL server (external) | `stage`, `expired`, `reply`: a call; `pool`, `user`: a connection; `wire`, `tx`: its server session; `applied`: history |
| EventWriteQueue | the bounded event writer of storage/codex-sessions.mjs | the three module-level variables of the code, and the stage of each write |
| …_proofs | theorems of the module of that name; Cards_proofs has those of UserInput, StopFork, ProgressCard and MCCards, Intake_proofs those of Intake, Catchup and PrivateAdmission | |
| MC… | instances for TLC; MCCards runs UserInput, StopFork and ProgressCard side by side, MCStorageTransaction the connection and the event queue | |

Definitions whose comment begins with "Slip" are mutated forms of the definition that follows.  They
belong to no specification; `mutants` of PROJECT.json says which property notices each.

### ForwardJobs and ForwardRuntime

A database operation is one short transaction, so one step.  The actors are claims, not processes: a
claim is one lease owner UUID and the `withLease` under it, and claims of one process interleave no
differently from claims of several, because all they share is the table.  An Owner returns to
"idle", and stands for a fresh UUID, once nothing it sent to the database is outstanding.

*Time* is discrete.  Every instant is kept relative to the present, so the state space stays finite;
a `Tick` brings each one closer.  An operation reads `at` before its statement executes, and the
statement runs `lag` ticks later (`0..MaxLag`), which is where a stalled process bites: every write
chooses its lag.  NULL and long past are both `Past`.  One clock stands for the clock of the
processes and of the table, because the code passes its own `now()` to every statement; processes
with clocks that disagree are not modelled.

*Renewals* are split in four: sent, executed, unconfirmed, returned.  The deadline is extended from
the moment before the request was sent, as `renewed(requestStarted)` does, and the answer may come
after the lease was lost.  *The executor* appears by its outcomes: turn/start, taking over the turn
of an earlier attempt, the receipt of one, steering into another message's turn, failure, abort.
Errors are three classes: "store" (transient storage), "network" (what the generic pattern of
`retryableError` matches), and "fatal" (all others, `commit_unknown` included).  *Faults* are counted
up to `MaxFaults`: crash, stop of the service, an unconfirmed renewal, a failed or unacknowledged
write, a failed delivery, and a stall, which is a tick that takes a live deadline to zero.

`Isolated` are the rows that SAFE_EXECUTION_SQL and SAFE_DELIVERY_SQL keep apart.  It is a set that
never changes, for the proofs, and empty in the runs.  Left out besides: the scope keepalive and the
legacy options of `markRetry` that the service never passes.

### CodexExecutor

One conversation; `Call` are the calls of `execute` in the order the worker makes them, and two
calls of one message are a message and its retry.  A call takes the lock of the conversation, looks
for receipts, resumes or changes the thread, starts a turn and waits, or steers its message into the
turn of another; each step ends at an await.  The connection to the app server may break at any
point, which rejects every pending request and every waiter, while the server may still carry out
what was sent.  Crashes, moves to another thread and failed statements are counted up to
`MaxFaults`.  After a crash the events of turns that the dead child was to report never come
(`watch`).

`PromptNotRepeated` is per thread: a message may enter a second turn on a new thread, since a
receipt is looked for where the conversation is bound now.  `doubtful` are the messages whose
delivery left no receipt; the property says that nothing else repeats a prompt.  No fault is needed
for that: a receipt is stored only of an answer that is not empty (executor.mjs:759 and 1048), so a
turn that completes with nothing to say leaves none (`MaySilent`), and a retry of its message
submits the prompt again, which forward-runtime.mjs:16 states.  Two things found on the way and left
as they are: the late `touchCodexBinding` of a take-over can set the binding back to an older
thread; and a `turn/completed` that arrives before its turn is registered is dropped, so that only
the turn timeout ends the wait.  Left out: context injection, streamed text and its coalescing, the
memory guard, `observeExecution`, `resume` and `onBound`; prompts of different messages are taken to
differ.

### UserInput, StopFork, ProgressCard

One job each; they share no variable but what a job's row would hold in columns of its own, so
MCCards lets only one of them move (`CardsNext`).

*UserInput.*  A question waits for the expiry of the one before it, is stored, posted and confirmed;
a click begins an answer, Codex is answered, and the row and card follow; a turn that ends, a native
resolution, a disconnect and a shutdown each expire the question by a path of its own.

A question is stored only if the running row names the thread and the turn it comes from
(forward-jobs.mjs:475).  In the service nothing writes them there (finding 4), so `named` stays
FALSE: every question is stale, is refused, and gets no form; `ClosedWithTheTurn` says of these
behaviours that whatever fails, no request stays open and no form is shown.  What the code does with
a turn that is named is modelled as well: `PatchExecution`, the statement of the store that writes
the identity and that no code under src/ calls, may happen at any time.  Only after it can a form be
answered, so `AnswerRecordedTruly`, and `CallsEnd` as far as it is about clicks, are about the code
of the questions as the tests run it, with the identity in the row, and not about what a user of the
service can meet.

Read in the code and not forbidden by a property: a question that was resolved natively and whose
expiry is overtaken by the next one keeps its form, and its late expiry patches the card of the next
(user-input-runtime.mjs:49; `Left` exempts it); `Reconcile` after an unacknowledged finishUserInput
patches whatever question the row holds; a follow-up question that comes before finishUserInput
commits is refused as blocked; and a shutdown between beginUserInputAnswer and the answer leaves a
row that says expired although Codex may have received it, which `AnswerRecordedTruly` exempts.
handleServerRequest awaits the expiry of the question it supersedes (executor.mjs:712) and installs
the new one without another look at whether the turn has settled; with a row that names the turn its
form would stay on show (`Left` exempts it), in the service it is refused like any other.

*StopFork.*  The presses are handlers that interleave at every await; the turn may end, time out, be
followed by another turn of the job, and the conversation may be bound to another thread.  Since the
row names no turn, beginStop identifies a press by the turn on the card and the thread bound when
the press looked (`cardIdentityMatches`, forward-jobs.mjs:567), and the row's stop counts for that
thread (`Recorded`): after a rebind a press on the same turn is new, and the one before it ends in
stop_conflict.  Such a press interrupts nothing, since interrupt compares the threads; but one that
had found the first thread and comes later counts as new again, so with three presses and a rebind a
turn may be interrupted twice.  That is why `StopToldTruly` claims one interrupt while the thread of
the turn stays bound, and no more.  An unknown snapshot, and a turn held here for another thread or
another message, answer unconfirmed.  Two weaknesses the model shows and no property forbids: a stop
whose interrupt failed before it was sent stays pending and later presses only inspect; a crash
after beginFork leaves the fork pending for good.  `already_finished` may be told of a turn the
bridge gave up while it still runs, which is why StopToldTruly excludes only turns that still count
as running.  The choice of the job by its card alone, when the button carries no run, is left out.

*ProgressCard.*  The chain of updates, three failures in a row that make the observer pause, the pause
at the end of a turn, the final update, the text sent when the card cannot be updated, and the recall
or the silent completion of a card whose answer is a sentinel.  The chat carries out calls about one
message in order, and an update may be lost, or applied and not acknowledged.  Losing the lease is
the same as a crash: nothing more is done for the job by that process.  One gap is exempted by
`orphan`: the comment at execution-card.mjs:119 says that the deterministic UUID handles a crash
before persistence; but if the process dies between the creation and its recording and no progress is
shown afterwards, the creation at the end returns the old message, and the answer is put nowhere
although finish succeeds.  Left out: text mode, the Typing reaction, deferred results, cards of older
formats.

### PrivateAdmission, Catchup, Intake

One private chat, one sender, `LastMessage` messages.  Time is counted in units as coarse as the
seconds of the history API.  A cursor write whose caller gave up may still be applied (`late`), and
the version of the cursor becomes what it decides: a write fails if another was applied since it was
read.  Live events arrive at most `MaxLive` times and may be repetitions.  Tick needs that nothing
is under way: no wait outlasts a unit.  A missing union id and an endpoint that does not answer are
one outcome, "refuse".  Left out: groups, hooks, the bot's own messages, recalls, edited messages
(which may be refused as conflicts), the first sight of a chat (the conversation row is taken to
exist) and the shutdown of the worker.

Two gaps that `NothingSkipped` leaves room for, found in the reading: docs/catchup.md:15 says a page
is not checkpointed before its receipts complete, but `ingest` answers a message that is already in
flight at once (communication-runtime.mjs:134), so the page is counted while the other ingest may
still fail (fate "passed"); and a launchForward that fails, or a crash after acceptInbound and
before it, is only logged: the checkpoint passes, and only the overlap of the next window reads it
again.

### OutboundMedia

One file name in the directory of a binding and the runs of that binding.  A version is what the
file held after one write of the agent; an inode keeps the number of its first version, and a write
in place may leave size and time as they were, in which case only the digest tells versions apart
(`looks`).  `prepare`, `cleanup` and `releaseRun` exclude one another (`exclusive`), and each call
of the file system is a step, after which the process may die.  A torn snapshot, left by a death in
the middle of writeFile, makes the retry record that file as failed; a quarantined file that has its
name back has two names, which stops every prepare until cleanup is repeated.

`cleanup` and `releaseRun` are called by core/runtime.mjs and core/resource-retirement.mjs only,
which the service does not wire; the model has them call as those do: while no run of the
conversation is active (`Quiet`).  ClaimedOnce rests on that guard and on the comparison of a file's
time with the beginning of the turn, whose margin of one second is left out.  fsync and the loss of
power are left out too.

### StorageTransaction

One call per `withConnection`: acquisition from the pool, BEGIN, the operation, COMMIT, ROLLBACK,
the timer of the deadline, which may fire at any stage, and the late delivery of a connection after
it. The server and the transport are external: a statement sent may be executed, refused or stay
unanswered, the connection may break, and a session that lost its client may still execute what it
received before it rolls back.

### EventWriteQueue

`acquireEventWrite` and `releaseEventWrite` are synchronous, so each is one step; a write that
settles hands its slot straight to the next waiter in the same step.  The drop log is left out.

### BridgeQueue and CommunicationWorker

The rows of one conversation and one hook_id (a hook job is its sequence), and the chains of outbox
rows by predecessor_id.  `acceptInbound` is two steps, because its transaction takes the
conversation's lock and is visible only when it commits: until then a row is "hidden", and a rolled
back one is "aborted".  `now()` is read inside the transaction that holds the row, so no lag is
needed.  Any due row may be claimed, instead of the oldest: SKIP LOCKED makes that possible, and
the properties then hold for every order.  The expiry of send leases runs at most every 5 s; here it
may or may not run with a claim.

A claim whose COMMIT is not acknowledged is left in `pending`, with or without its row being taken;
the next poll of that table confirms or forgets it.  The worker claims one row at a time, so a
recovered claim has one row and is valid or not.  A settlement refused with `stale_lease` stops the
worker: `healthy` turns false, a claim it is awaiting may be committed and dropped
(`DroppedClaims`), and the watchdog restarts the process.  A claim still recorded when its process
dies is forgotten with it.  A delivery that outlasts its time limits is a "stall" fault.

Left out: removal of a hook, the re-read of an artifact_send's predecessor, and what the platform
does with a repetition under the same uuid (external).  docs/runtime.md:350 says that no transient
outage becomes a fatal error of this worker; `stale_lease` is not among the transient errors
(communication-runtime.mjs:280), and a claim recovered just before its lease ends is enough to bring
it about.  The model has that restart in every run.

## 3. Runs

| Run | Instance | Shows |
|---|---|---|
| forward_safety | 1 job, 2 claims, lease 2, 2 attempts, lag ≤ 1, any 2 of 6 kinds of fault, 3 classes of error; symmetry of claims | `LeaseBacked`, `SoleOwner`, `ResultOfLastAttempt`, `ResubmitHasCause`, `RecordedIsFinal` |
| forward_liveness | the same with 1 fault, no symmetry | `EventuallyFinished`; `ImplementsQueue`, the refinement to JobQueue |
| forward_outage | 2 failed writes | finding: `TurnNeverRunsTwice` is violated |
| forward_unknown | a transport error, no fault | finding: `UnknownAdmissionNotRequeued` is violated |
| storage | 2 calls, one transactional, share a pool of 1, with a second connection for the one that breaks; 3 receipts and 4 progress writes, 2 slots, a limit of 2 | `DefiniteErrorAppliedNothing`, `PooledIsClean`, `LentToOneLiveCall`; `NoSlotIdleOrLeaked`, `ReceiptsNeverDropped`, `StartsInOrder`; `EverythingEnds` |
| communication | 2 hooks, or a chain of 2 effects of which the first may be repeated and the second not; 2 processes, lease 2, 2 attempts, any 2 faults | `HooksInOrder`, `EffectsInOrder`, `EachClaimRunsOnce`, `SentAtMostOnce`, `EndIsFinal`, `EveryRowEnds` |
| executor | 3 calls: a message, its retry and another message; 2 threads, any 2 faults | `PromptNotRepeated`, `ReportedIsTrue`, `TurnsDoNotOverlap`, `EveryCallEnds` |
| executor_lost | the same | finding: `FailureWasSeen` is violated |
| cards | one job at a time moves. Questions: 2 of one turn, 2 clicks, and with `Hard` at most 3 faults and clicks on one question, 1 on two; clicks are alike and numbered as they come (`InOrder`). Buttons: 2 presses, 2 turns, 2 failures. Progress: 4 hitches (a lost, failed or unacknowledged call, a crash) | `AnswerRecordedTruly`, `ClosedWithTheTurn`, `ButtonsToldTruly`, `AnswerSeenOnce`, `CallsEnd` |
| question_refused | 2 questions, 1 click, no fault | finding: `FormForEveryQuestion` is violated |
| intake | 2 messages, 2 units of time, pages of 1, 1 fault, 1 live event | `NothingSkipped`, `DeniedStaysOut`, `WindowsClose` |
| artifacts | 2 runs, 3 writes of the agent; symmetry of runs | `FilesKept` |

Every module has one type invariant besides, checked by the run of that module; three runs put two
or three modules next to each other, which share no variable, so that only one moves in a behaviour.

Why the bounds are enough.

* forward: two claims are enough for a conflict over one job, and forward jobs do not constrain each
  other except through the executor, which has its own run.  A lease of two ticks has all the
  relations there are between a deadline, the answer to a renewal and a lag of one: ahead, about to
  end, over, and over for one side only.  Two attempts give a first, a last, and one that only an
  expired lease can add.  Two faults let the second strike while the first is being recovered from,
  as in the outage finding; the liveness run has one, since it asks whether the job recovers at all.
* storage: a pool of one makes the second call wait, time out in the queue, or get the connection
  the first one left; the second connection takes the place of one that was destroyed.  The event
  writes are more than slots and places together, so that every kind of write meets a full queue.
* communication: order needs two rows, exclusion two processes.
* executor: a retry must meet its own turn running, ended, and replaced by the turn of another
  message; that is three calls.  Two threads let the conversation move once.
* cards: a second question is what an expiry can overtake; a second click or press is what a first
  can race.  `Hard` keeps the two questions and the many faults of one question apart, for a graph
  that can be walked.
* intake: a window must close with a message behind it and one still to come.  Times of one unit for
  the overlap and the caches, and of two for the lookback, give before, at and after each.
* artifacts: two runs contend for one version; three writes leave one to be sent, one that takes the
  name while the first is cleaned, and one after its return.  Three runs with two writes, and two
  runs with four, were checked as well.

The theorems of section 5 have none of these bounds.

`CHECK_DEADLOCK FALSE` is set for storage, executor, cards, intake and artifacts, and for the two
findings about the executor and the questions: calls, presses, questions, messages and writes are
finite there, and the model stops when all have ended.  In the forward and communication runs time
never stops, so a deadlock would be one.

## 4. Fairness

* forward: the timers, the continuation of a claim and the answers of the database are callbacks of
  the event loop, so each is weakly fair; turns have a timeout and `execute` one of its own; the
  recovery loop of the service claims what is claimable every pollMs; time passes.  Nothing is
  assumed of registration, stop or faults.
* storage: of the code only the timer and what follows an answer are fair.  Server and pool may
  never answer; that every call ends follows from the deadline alone.  An event write settles,
  because its connection has that deadline.
* communication: each process polls both tables while healthy, requests have timeouts, the watchdog
  and its supervisor restart a stopped process, a registration transaction ends, and time passes.
  `EveryRowEnds` says of a hook that it finishes or is given up, and of an effect without predecessor
  that it leaves pending and running; an effect behind one that stays "unknown" waits for an
  operator, as the code intends.
* executor: the continuation of a call runs; a request to the app server is answered or its timeout
  breaks the connection; a turn that reports nothing is ended by the turn timeout; a settled turn is
  finalized.  A new turn, a new call and every fault may fail to happen.
* cards: some continuation of a call under way runs, unless none can: that much and no more
  (`Continues`).  A call of the channel, the table or the app server is answered or fails.  The user
  need not click, the turn need not end.  Buttons and progress card have safety properties only.
* intake: the loop of catch-up goes on, each wait of an ingest ends by its deadline, and the rest of
  an ingest runs.  Live events and posts need not come.

## 5. Proofs

Every theorem is for all values of the constants that satisfy the named assumptions of the
modules: any number of jobs, claims, processes, hooks, effects, calls, connections, queued writes,
presses, turns, runs and writes of the agent, any lease, and any number of faults of any kinds.
What they assume of time is `TimingAssumption` (a statement runs sooner after reading the clock
than a lease lasts) for the forward runtime; the other modules assume nothing but that durations,
bounds and the numbers of questions, calls and posts are natural numbers, that a page holds a
message and a queue has a slot, and that stop, fork and the presses are told apart
(`ButtonAssumption`).  TLC evaluates every assumption in the run of the module that declares it.

Each inductive invariant was checked by TLC as an invariant of the run's instance before it was
proved.

**ForwardRuntime_proofs.**  `LeaseBacked` is not inductive: a renewal on its way extends the
deadline, and a write gives the lease up.  `IInv` adds, per claim, what shape it has in each phase,
that its lease backs the deadline, that an outstanding renewal that was applied backs the extension
it will grant (`Backed`), that an executing claim holds the row's last attempt (`Executes`), that a
deliverer has the recorded result (`Delivers`); and per row what status, result and attempts say of
each other (`RowOK`).  A claim that only moves between phases keeps it by one lemma (`MoveKeeps`),
every write under a lease by another (`WriteKeeps`); claims, renewals and the clock have their own.
From `IInv` follow

* `DeadlineIsBacked`, `OneOwner`: no two claims of a job are ever both past `assertOwned`;
* `LastAttemptRecords`; and, shown by no run because one attempt can hardly break them,
  `FinishedStatus` (the final status is what the result calls for) and `RetriesBounded`;
* `RecordIsFinal`: no step reopens or changes what was recorded;
* `WorkerImplementsQueue`: initial states map to initial states of JobQueue, each step to a step of
  it or to none.

`TypeCorrect` is proved first and on its own.

`ResubmitHasCause` counts turns, and nothing in `IInv` does.  A job has one
right to submit: its row holds it until it is claimed (`Unclaimed`), then a claim that has not
submitted (`Starters`), and `StartTurn` spends it.  `Accounted` says that the rights and the turns
submitted are at most one more than the causes.  Of all steps only four move a right: a claim takes
it or creates one with an expired lease, a failed transport returns the spent one, `Retry` puts it
back; `BalanceKeeps` and `OneJobKeeps` do the arithmetic, and all the others are `Unspending`.  From
it: `ResubmissionHasCause`.

**StorageTransaction_proofs.**  `IInv` ties three parties together: what a call's stage, deadline
and reply say of each other (`CallOK`), what a session may have under way (`SessionOK`), what a
lent connection and its call know of each other (`LentOK`), and that a connection has one user
(`OneUser`).  It is needed because the statement outlives its caller: the timer settles the call
while the COMMIT is on the wire.  From it: `StorageTypeCorrect`, `RetryIsSafe`,
`ResolvedIsDurable`, `PoolIsClean`, `LentOnce`.

**CommunicationWorker_proofs.**  Two layers.  `RowInv` is about the tables alone: sequences are
given out one registration at a time (`Sequenced`), a claimed row has been registered and an
effect never waits again once claimed (`ClaimedLeft`), an effect that may not be repeated is
claimed once (`ClaimedOnce`), with the three properties themselves.  Each operation of the store
is shown to change each row in one of four ways (`Enters`, `Leaves`, `Stays`, `TakenBy`), and
these keep `RowInv` (`RowsKept`) and what has ended (`DoneKept`), however many rows change at
once.  `WInv` adds what ties claims to deliveries: a claim that awaits recovery and is in the
table was never delivered (`PendingOK`), and no delivery is ahead of the table (`NotAhead`), so
that a new claim's attempt number is new.  All steps that launch, carry out and age nothing keep
it by one lemma (`Quiet`).  From it: `WorkerTypeCorrect`, `HooksRunInOrder`, `EffectsKeepOrder`,
`SendsOnce`, `ClaimsRunOnce`, `HooksAreGivenUp`, `EndsAreFinal`.

**OutboundMedia_proofs.**  `FilesKept` is not inductive on three counts, and `IInv` has an answer
to each.  A manifest is published two awaits after its file was found free: `Fresh` says that the
version in hand stays newer than the turn and unclaimed by others, and `RetiredIsOld` that a claim
given up before is older than every active run, so that publishing makes no second claim.  A
quarantined file is unlinked two awaits after it was examined: `CleanOK` says of the one to be
erased that it is the version that was sent, and of the one to be unlinked that its contents are
kept elsewhere (`KeptElsewhere`).  A snapshot is deleted while its claim stands: `ReleaseOK` says
the artifact was sent and no run is active.  A write of the agent in the middle of any of this is
one lemma (`Writes`), and `Bounded` keeps the numbers of versions in order.  From it:
`ArtifactTypeCorrect`, `FilesAreKept`.

**EventWriteQueue_proofs.**  `IInv` has the counters equal to the sizes of the sets they count
(`CountsOK`, with the cardinality theorems), the queue a sequence without repetition of exactly
the waiting writes (`QueueOK`), and the two properties.  A write leaves the queue from the front,
from the middle when it times out or is displaced, and enters at the back: `Removed` and
`Appended` say what that does to the queue, `VictimIsBestEffort` that what is displaced is
progress.  `FirstIndex` gives the first place with a property, from the well-foundedness of the
strict subset order; `ReadyFirst` and `StartsFirst` follow.  From it: `SlotsAreConserved`,
`ReceiptsAreKept`, `WritesStartInOrder`.

**CodexExecutor_proofs.**  The three properties are about turns at the app server, and the executor
knows those only through five places: the locals of a call, the active state, the settled states,
the receipts, and the thread.  `CoreInv` says that each place is right about the turns it names:
what a call may refer to in each stage (`Refers`), what it relies on while it holds the lock or has
read its earlier attempt (`UnderLock`), that a turn is started and a state registered once (`Born`),
and what states (`StateOK`, `ActiveOK`) and receipts (`ReceiptOK`, `OneReceipt`) stand
for.  `RestInv` adds what makes it complete.  `LoadedInv`: a turn that runs on a loaded thread is
watched, by the active state or the call about to register it, or was given up; `TurnsDoNotOverlap`
rests on it, because the lock alone says nothing of turns nobody waits for.  `EvidenceInv`: a prompt
that is part of a turn is evident from a receipt, an open attempt or the state in hand, or a fault
or an empty answer made it doubtful, and a call about to deliver has seen that there is none; that
is what carries `PromptNotRepeated` over the awaits between the look at the receipts and the
request.  `ToldInv` and `SteerInv` do the same for what is reported and for the queue of
steers.  Steps in which turns only go on or end are one lemma (`TurnCore`, `TurnRest`), steps that
only move a call another (`OrdinaryStep`); each write of a receipt, each registration and each fault
has its own.  From it: `ExecutorTypes`, `NoPromptRepeated`, `WhatIsReportedIsTrue`,
`NoTurnsOverlap`.

**Cards_proofs.**  Four parts: the questions, the buttons, the progress card, and the three put
side by side as the run has them.

*Questions.*  `QuestionsInv` has two parts.  `AnswerInv` holds whatever fails.  It says that of all
questions one at most is past the queue and not yet ended (`OneAtATime`), that a question is posed
once and, when its expiry has begun (`Dead`), is never asked again (`QuestionOK`), what the row can
still say of the question it holds (`RowOK`), and what a click relies on between
beginUserInputAnswer and finishUserInput (`ClickOK`): the admission of the row and an outcome of its
own, while the row may pass to the next question at any await.  From it `AnswersAreTrue`.  What is
told the user when the turn is over needs more, because every path may leave a form to another:
`CloseInv` says, as long as no call has failed, that an open request waits for the user or for an
expiry that will refuse it (`Heeded`), that each form on show has somebody who will replace it
(`Covered`), unless it is the one `Left` exempts, that a form is shown by the question that is in
force (`Opened`), and that the next question is not stored before the expiry of the one before has
read the row (`Awaited`), which is the one thing that keeps that expiry from patching the wrong
card.  `NamedInv` covers the service as it is wired, with any faults: as long as the row does not
name the turn, it holds no question, no form is posted or clicked, and an open request is in the
hands of its handler or an expiry (`Unnamed`).  Steps of a click, of an expiry and of an opening are
lemmas of their own; `Onward` is what no step takes back.  From it: `QuestionTypeCorrect`,
`AnswersAreTrue`, `EverythingIsClosed`.

*Buttons.*  `StopInv`: a stop is admitted for the turn of the row only, and once it is, `StopBegun`
stays true of that turn as long as its thread is bound (`Bound`), because the stop is recorded for
that thread or the row has moved to a later turn; so of all presses that carry a turn at most one
may interrupt it (`OneInterrupts`), and it has not yet done so.  What is bound changes only to a
thread no turn was of (`HomeOK`), so the condition never comes back once it is lost.  A result that
a press still carries is already true at the app server, and no end of a turn can make it false; a
turn begins only after those anybody carries (`StopPressOK`, `TurnsOK`).  `ForkInv`: whoever forks
or has forked is the press the row names (`ForkAlone`), so nobody else settles the row, and the card
is silent until that press is done.  `StopQuiet` and `ForkQuiet` dispose of the steps that only move
a press, `StopTurns` of the turns' own.  From it: `ButtonsTypeCorrect`, `ButtonsTellTheTruth`.

*Progress card.*  `AnswerSeenOnce` is about the end of a job, and the update that decides it is
several awaits long: `CardInv` follows the card along that way.  `StageOK` and `UpdateOK` say what
is under way in each stage and what it will show and record; `RecordOK`, what row and process hold
of the card, so that a text is sent only for a card recorded as given up, and a card is recalled
only for a silent answer; `ShownOK`, what the chat can show before and after the turn; and
`WayOK`, what has been seen of the answer at each step between the last update and the end of the
job (`Seen`), which is where an update that was applied and not acknowledged (`sure` is false) and
a creation that was repeated are told apart.  From it: `CardTypeCorrect`, `AnswerIsSeenOnce`.

*The composition.*  `CardsApart`: a behaviour of `CardsSpec`, of which each step moves one of the
three, is a behaviour of each.  From it `CardsTypeCorrect` and `CardsTellTheTruth`, about the
specification that the run checks.

**Intake_proofs.**  `NothingSkipped` looks at the cursor, which says nothing of the pages a run
has in hand or of writes that may still arrive.  `IntakeInv` gives each of them a meaning.  A
value of the cursor is `Safe` if no message it leaves behind is open; so is the cursor, and so is
every write that may still be applied (`Offers`: the one a run is about to make and those whose
caller gave up), all made of the cursor as it is, since a write that is applied makes those of the
same version fail.  The first write decides what catch-up answers for, and leaves nothing behind
(`First`).  A run that reads a page has a window of which everything before its token is done
(`Read`); a run that goes through a page has on its list whatever is still open of it (`Emitted`),
so that it may move the token when the list is empty, and close the window when the page was the
last.  A page is cut from the history by position: `Ranking` proves that the messages of a window
have the positions 1 to their number, each its own, and `HistoryList`, `Pages` and `PageIsRead`
that a page has all messages between two tokens.  What is posted meanwhile comes after all that
was read, and not before the second in which a window ends at the latest, which no checkpoint
leaves behind (`Later`, `PostKeeps`).  Most steps of a run keep the invariant by `RunGoesOn`,
those that apply a write by `WrittenIs`; of an ingest it matters only that one that ends settles
its message or is rejected (`DecideIs`, `CheckIs`, `IngestIs`), and that one begun by catch-up is
never aborted.  From it: `IntakeTypeCorrect`, `NothingIsSkipped`, and `DeniedIsKeptOut` (a denied
message has no ingest under way).

Model-checked only: the liveness properties, since fairness and ENABLED are beyond the prover:
`EventuallyFinished`, `EveryRowEnds`, `EveryCallEnds`, `EverythingEnds`, `CallsEnd`, `WindowsClose`.

## 6. Findings

Four places where a document or a comment of the repository says more than the code does; each run
ends in the counterexample.

1. **forward_unknown.**  docs/storage.md says an admission of unknown outcome is held and not
   executed again.  A turn/start that times out or loses its connection is retryable: the job goes
   back to pending and the prompt is submitted a second time.
2. **forward_outage.**  docs/runtime.md says that after submission a storage error ends the job with
   the failure reply, and the turn never runs twice.  If writing the failure reply fails as well, the
   row stays running until its lease ends, and is executed again.
3. **executor_lost.**  The comment at executor.mjs:880 says a disconnect records a lost observation, not a
   failure, and that the turn is observed again.  When the retry finds the turn of another message
   active it is steered instead, finds the error receipt of the lost turn, and its caller is told of
   a failure nobody saw, of a turn that may be running or have completed.
4. **question_refused.**  docs/runtime.md:267 says a supported request creates a form for the current
   turn.  beginUserInput answers stale unless the running row names the thread and the turn; a claim
   takes only rows that name neither, and nothing writes them afterwards: `patchExecution` has no
   caller, and the forward runtime passes no `onBound`.  So open throws before a card is created and
   every question is refused; no fault is needed.  The tests insert the identity by hand.

Seen and not shown by a run: docs/runtime.md:350 on transient outages against `stale_lease` (section
2, BridgeQueue and CommunicationWorker); docs/catchup.md:15 on pages against a message already in
flight (Intake); the comment at execution-card.mjs:119 on the deterministic UUID (ProgressCard); and
docs/storage.md:26 on the cleanup of feedback, whose statements (forward-jobs.mjs:608) nothing
calls.

## 7. Not modelled, and the plan

Pure functions of texts and paths, layout, logging, migrations and single idempotent statements hold
no state machine.  The Feishu API, Codex, MySQL and the file system are external and appear by what
the code must expect of them.  core/runtime.mjs and the modules that only it uses are not wired by
the service, except as far as OutboundMedia needs their guards.

Read, with a gap that no module shows yet: a final reply is created under a uuid of its own
(`reply`), and once more under another (`reply-create`) when its trigger was recalled; if the answer
to the first call is lost and the trigger recalled before the retry, the reply is posted twice.  And
a delivery repeated after its attachment was sent and the temporary file unlinked reports the
attachment as failed.  An agent that holds a file open while it is renamed into the quarantine, and
writes on, is left out of OutboundMedia.

What is left, in the order of its worth:

| Next | Over | Properties |
|---|---|---|
| Replies | replies.mjs, the delivery of ForwardRuntime in parts | parts in order, each posted once whatever is recalled between two attempts |
| ForwardRuntime over CodexExecutor | both modules | the executor has only the outcomes ForwardRuntime gives it |
| AppServerClient | app-server-client.mjs on its own | every request settles once; a late answer settles nothing (inside CodexExecutor the client is one step per answer) |
| Groups and recalls | group instructions, edited and recalled messages in Intake | a recalled message is not executed, and its card goes |
| Health and shutdown | service.mjs, the degraded flag | the watchdog fires on what does not recover, and only then |
| Scope keepalive, `resume` and `observeExecution` | executor.mjs, forward-runtime.mjs | a scope in use is not retired |

Theorems planned: an abstract ordered mailbox implemented by BridgeQueue; an abstract checkpoint
implemented by Catchup.

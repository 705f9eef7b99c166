----------------------------- MODULE ProgressCard -----------------------------
(***************************************************************************)
(* The execution card of a job, which shows its progress and in the end    *)
(* its answer: ExecutionCard and its observer of                           *)
(* channels/feishu/execution-card.mjs; start, observe, wait, prepare,      *)
(* finish and finishSilent of channels/feishu/execution-feedback.mjs, in   *)
(* the order in which core/forward-runtime.mjs calls them; the text sent   *)
(* instead by channels/feishu/replies.mjs; and $.executionCard of the row. *)
(*                                                                         *)
(* One job in card mode, and the process that holds its lease: losing the  *)
(* lease is CardCrash.  The chat carries out the calls about a message in  *)
(* the order in which they were made.                                      *)
(***************************************************************************)
EXTENDS Naturals

CONSTANT MaxHitches     \* bound on failed calls and crashes

ASSUME HitchAssumption == MaxHitches \in Nat

VARIABLES
    phase,      \* the status of the row
    saved,      \* result_json.executionCard
    quiet,      \* the answer is a sentinel for no reply
    stage,      \* what the process is doing with the job
    state,      \* ExecutionCard.state, and its count of failures
    dirty,
    chain,      \* the update of the chain of progress
    own,        \* an update made by pause, finish or finishSilently itself
    shows,      \* external: the card in the chat
    text,       \* external: the answer was sent as a message
    sure,       \* history: the last call about the card was answered
    orphan,     \* history: the card exists, unknown to the delivery
    hitches

cardVars == <<phase, saved, quiet, stage, state, dirty, chain, own, shows, text, sure,
              orphan, hitches>>

UpdateFailureLimit == 3

Face == {"running", "retrying", "answer", "closed", "silent"}
Saved == [message : BOOLEAN, status : {"running", "retrying", "ended"},
          fallback : BOOLEAN, silent : {"no", "deleted", "completed"}]
NoCard == [message |-> FALSE, status |-> "running", fallback |-> FALSE, silent |-> "no"]

\* An update: sent to the chat, or being persisted; creates: by message.create.
NoUpdate == [step |-> "none", face |-> "running", creates |-> FALSE, value |-> NoCard]
Update == [step : {"none", "sent", "persist"}, face : Face, creates : BOOLEAN,
           value : Saved]

CardTypeOK ==
    /\ phase \in {"pending", "running", "replying", "ended"}
    /\ saved \in Saved /\ quiet \in BOOLEAN
    /\ stage \in {"idle", "turn", "pausing", "paused", "preparing", "finishing",
                  "keeping", "closing", "texting", "deleting", "silencing", "settling"}
    /\ state \in [card : Saved, failures : 0..UpdateFailureLimit]
    /\ chain \in Update /\ own \in Update
    /\ shows \in Face \cup {"none", "deleted"}
    /\ {dirty, text, sure, orphan} \subseteq BOOLEAN
    /\ hitches \in 0..MaxHitches

CardInit ==
    /\ phase = "pending" /\ saved = NoCard /\ quiet = FALSE /\ stage = "idle"
    /\ state = [card |-> NoCard, failures |-> 0] /\ dirty = FALSE
    /\ chain = NoUpdate /\ own = NoUpdate
    /\ shows = "none" /\ text = FALSE /\ sure = TRUE /\ orphan = FALSE /\ hitches = 0

Hitch == hitches < MaxHitches /\ hitches' = hitches + 1

outside == <<phase, saved, quiet, shows, text, orphan>>

----------------------------------------------------------------------------
(* Updates.                                                                *)

\* update() up to its call: it sends a snapshot of the state.
Sent(card, face) ==
    [step |-> "sent", face |-> face, creates |-> ~card.message,
     value |-> [card EXCEPT !.message = TRUE]]

\* The chat takes it.  A create whose uuid it knows returns the card as it is.
Taken(u) == IF u.creates /\ shows # "none" THEN shows ELSE u.face

\* A deleted message cannot be patched.
Takes(u) == u.step = "sent" /\ shows # "deleted" /\ shows' = Taken(u) /\ sure' = TRUE

\* The call fails, or its answer is lost.
Loses(u) ==
    /\ u.step = "sent" /\ sure' = FALSE
    /\ shows' \in {shows, IF shows = "deleted" THEN shows ELSE Taken(u)}

\* patchFeedback, under the lease: written, or failed, with or without effect.
Persists(value) == saved' = value /\ UNCHANGED hitches
PersistFails(value) == Hitch /\ saved' \in {saved, value}

----------------------------------------------------------------------------
(* An attempt of the job.                                                  *)

\* start or restore, of a row that is pending or whose lease has lapsed.
Begin ==
    /\ stage = "idle" /\ phase \in {"pending", "running"}
    /\ phase' = "running" /\ stage' = "turn"
    /\ state' = [card |-> saved, failures |-> 0] /\ dirty' = FALSE
    /\ chain' = NoUpdate /\ own' = NoUpdate
    /\ UNCHANGED <<saved, quiet, shows, text, sure, orphan, hitches>>

\* The observer reads new rows of progress and pushes them.
Push ==
    /\ stage = "turn" /\ ~state.card.fallback
    /\ \E status \in {state.card.status, "running"} :
          state' = [state EXCEPT !.card.status = status]
    /\ dirty' = TRUE
    /\ UNCHANGED <<stage, chain, own, sure, hitches, outside>>

\* enqueue, at once or by the timer.
Enqueue ==
    /\ stage = "turn" /\ dirty /\ chain.step = "none" /\ ~state.card.fallback
    /\ chain' = Sent(state.card, state.card.status) /\ dirty' = FALSE
    /\ UNCHANGED <<stage, state, own, sure, hitches, outside>>

ChainTaken ==
    /\ Takes(chain)
    /\ chain' = [chain EXCEPT !.step = "persist"]
    /\ state' = [state EXCEPT !.card.message = TRUE]
    /\ UNCHANGED <<phase, saved, quiet, stage, dirty, own, text, orphan, hitches>>

\* After the last failure that is borne, or if the card could not be created,
\* the answer will go out as a message.
ChainLost ==
    /\ Loses(chain) /\ Hitch
    /\ chain' = NoUpdate
    /\ state' = [state EXCEPT
           !.failures = @ + 1,
           !.card.fallback = (state.failures + 1 >= UpdateFailureLimit
                              \/ ~state.card.message)]
    /\ UNCHANGED <<phase, saved, quiet, stage, dirty, own, text, orphan>>

ChainKept ==
    /\ chain.step = "persist"
    /\ Persists(chain.value) \/ PersistFails(chain.value)
    /\ chain' = NoUpdate
    /\ UNCHANGED <<phase, quiet, stage, state, dirty, own, shows, text, sure, orphan>>

\* execute() ends, for another attempt or with a result; the observer stops and
\* the card is closed to progress.
TurnEnds ==
    /\ stage = "turn"
    /\ \/ stage' = "pausing" /\ UNCHANGED quiet
       \/ stage' = "preparing" /\ quiet' \in BOOLEAN
    /\ UNCHANGED <<phase, saved, state, dirty, chain, own, shows, text, sure, orphan, hitches>>

\* Slip: the update under way is not waited for.
ChainIgnored == TRUE

\* await card.chain
ChainSettled == chain.step = "none"

\* wait, for a card that is paused still.
StayPaused ==
    /\ stage = "pausing" /\ ChainSettled /\ state.card.status = "retrying"
    /\ phase' = "pending" /\ stage' = "idle"
    /\ UNCHANGED <<saved, quiet, state, dirty, chain, own, shows, text, sure, orphan, hitches>>

\* wait, pause.
Pause ==
    /\ stage = "pausing" /\ ChainSettled /\ state.card.status # "retrying"
    /\ state' = [state EXCEPT !.card.status = "retrying"]
    /\ own' = IF state.card.message THEN Sent(state'.card, "retrying") ELSE own
    /\ stage' = "paused"
    /\ UNCHANGED <<dirty, chain, sure, hitches, outside>>

\* The state is persisted, if that succeeds, and the row waits for its retry.
Wait ==
    /\ stage = "paused" /\ own.step = "none"
    /\ Persists(state.card) \/ PersistFails(state.card)
    /\ phase' = "pending" /\ stage' = "idle"
    /\ UNCHANGED <<quiet, state, dirty, chain, own, shows, text, sure, orphan>>

\* prepare, then markReplyPending.
Prepare ==
    /\ stage = "preparing" /\ ChainSettled
    /\ Persists(state.card)
    /\ phase' = "replying" /\ stage' = "idle"
    /\ UNCHANGED <<quiet, state, dirty, chain, own, shows, text, sure, orphan>>

\* If one of them fails, a failure is prepared instead, and if that fails too,
\* the row stays as it is.
PrepareFails ==
    /\ stage = "preparing" /\ ChainSettled
    /\ PersistFails(state.card)
    /\ stage' \in {"preparing", "idle"} /\ quiet' = FALSE
    /\ UNCHANGED <<phase, state, dirty, chain, own, shows, text, sure, orphan>>

----------------------------------------------------------------------------
(* The delivery.                                                           *)

\* deliverJob up to its first call.
Deliver ==
    LET ended == [saved EXCEPT !.status = "ended"]
        known == saved.message /\ saved.silent = "no"
    IN  /\ stage = "idle" /\ phase = "replying"
        /\ orphan' = (shows # "none" /\ ~saved.message)
        /\ state' = [card |-> IF quiet THEN saved ELSE ended, failures |-> 0]
        /\ \/ quiet /\ ~known /\ stage' = "settling" /\ UNCHANGED own
           \/ quiet /\ known /\ stage' \in {"deleting", "silencing"} /\ UNCHANGED own
           \/ ~quiet /\ saved.fallback /\ stage' = "keeping" /\ UNCHANGED own
           \/ /\ ~quiet /\ ~saved.fallback
              /\ stage' = "finishing" /\ own' = Sent(ended, "answer")
        /\ UNCHANGED <<phase, saved, quiet, dirty, chain, shows, text, sure, hitches>>

OwnTaken ==
    /\ Takes(own)
    /\ own' = [own EXCEPT !.step = "persist"]
    /\ state' = [state EXCEPT !.card.message = TRUE]
    /\ UNCHANGED <<phase, saved, quiet, stage, dirty, chain, text, orphan, hitches>>

\* What follows an update of its own: done, or failed.
After(ok) ==
    CASE stage = "finishing" -> IF ok THEN "settling" ELSE "keeping"
      [] stage = "closing"   -> "texting"
      [] stage = "silencing" -> "settling"
      [] OTHER               -> stage

OwnKept ==
    /\ own.step = "persist"
    /\ Persists(own.value) \/ PersistFails(own.value)
    /\ own' = NoUpdate /\ stage' = After(TRUE)
    /\ UNCHANGED <<phase, quiet, state, dirty, chain, shows, text, sure, orphan>>

\* finish turns to a message; a silent card that cannot be closed is tried
\* again with the delivery, within the limit of its attempts.
OwnLost ==
    /\ Loses(own) /\ Hitch
    /\ own' = NoUpdate
    /\ stage' \in {After(FALSE)} \cup (IF stage = "silencing" THEN {"idle"} ELSE {})
    /\ state' = [state EXCEPT !.card.fallback = @ \/ stage = "finishing"]
    /\ UNCHANGED <<phase, saved, quiet, dirty, chain, text, orphan>>

\* The choice of a message is recorded before the message is sent.
Keep ==
    /\ stage = "keeping" /\ Persists(state.card)
    /\ \/ /\ state.card.message
          /\ stage' = "closing" /\ own' = Sent(state.card, "closed")
       \/ /\ ~state.card.message
          /\ stage' = "texting" /\ UNCHANGED own
    /\ UNCHANGED <<phase, quiet, state, dirty, chain, shows, text, sure, orphan>>

\* The delivery is tried again.
KeepFails ==
    /\ stage = "keeping" /\ PersistFails(state.card)
    /\ stage' = "idle"
    /\ UNCHANGED <<phase, quiet, state, dirty, chain, own, shows, text, sure, orphan>>

\* replies.deliver: each part under a uuid of its own, so a part sent before is
\* not sent again.
SendText ==
    /\ stage = "texting"
    /\ \/ text' = TRUE /\ stage' = "settling" /\ UNCHANGED hitches
       \/ text' \in {text, TRUE} /\ stage' = "idle" /\ Hitch
    /\ UNCHANGED <<phase, saved, quiet, state, dirty, chain, own, shows, sure, orphan>>

\* finishSilent: the card is recalled, and that is recorded if it can be.
Recall ==
    LET marked == [state.card EXCEPT !.status = "ended", !.silent = "deleted"] IN
    /\ stage = "deleting"
    /\ \/ /\ shows # "deleted" /\ shows' = "deleted" /\ sure' = TRUE
          /\ Persists(marked) \/ PersistFails(marked)
          /\ stage' = "settling"
       \/ /\ Hitch /\ shows' \in {shows, "deleted"} /\ sure' = FALSE
          /\ stage' = "silencing" /\ UNCHANGED saved
    /\ UNCHANGED <<phase, quiet, state, dirty, chain, own, text, orphan>>

\* finishSilently: the card is closed without the answer.
Silence ==
    LET card == [state.card EXCEPT !.status = "ended", !.silent = "completed", !.fallback = FALSE] IN
    /\ stage = "silencing" /\ own.step = "none"
    /\ state' = [state EXCEPT !.card = card]
    /\ own' = Sent(card, "silent")
    /\ UNCHANGED <<stage, dirty, chain, sure, hitches, outside>>

\* markFinished.
Settle ==
    /\ stage = "settling"
    /\ phase' = "ended" /\ stage' = "idle"
    /\ UNCHANGED <<saved, quiet, state, dirty, chain, own, shows, text, sure, orphan, hitches>>

----------------------------------------------------------------------------
\* The process dies, or loses its lease; what it asked may be carried out.
CardCrash ==
    LET asked == {u \in {chain, own} : u.step = "sent"} IN
    /\ stage # "idle" /\ Hitch
    /\ shows' \in {shows} \cup {Taken(u) : u \in {v \in asked : shows # "deleted"}}
    /\ sure' = (sure /\ asked = {})
    /\ saved' \in {saved} \cup {u.value : u \in {v \in {chain, own} : v.step = "persist"}}
    /\ stage' = "idle" /\ chain' = NoUpdate /\ own' = NoUpdate
    /\ UNCHANGED <<phase, quiet, state, dirty, text, orphan>>

CardNext ==
    \/ Begin \/ Push \/ Enqueue \/ ChainTaken \/ ChainLost \/ ChainKept
    \/ TurnEnds \/ StayPaused \/ Pause \/ Wait \/ Prepare \/ PrepareFails
    \/ Deliver \/ OwnTaken \/ OwnKept \/ OwnLost \/ Keep \/ KeepFails
    \/ SendText \/ Recall \/ Silence \/ Settle \/ CardCrash

CardSpec == CardInit /\ [][CardNext]_cardVars

----------------------------------------------------------------------------
(* Properties.                                                             *)

\* When a job has ended, its answer was seen, on the card or as a message, and
\* if the last call about the card was answered, on one of them only, with no
\* card left that still shows progress.  A silent answer was not seen.  But for
\* a card whose creation a crash kept from being recorded: taken for its own by
\* the uuid, it stays as it was and counts as finished.
AnswerSeenOnce ==
    (phase = "ended" /\ ~orphan) =>
        IF quiet
        THEN /\ ~text /\ shows # "answer"
             /\ sure => shows \in {"none", "silent", "deleted"}
        ELSE /\ text \/ shows = "answer"
             /\ sure => shows \in IF text THEN {"none", "closed"} ELSE {"answer"}
=============================================================================

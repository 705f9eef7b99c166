-------------------------------- MODULE Catchup --------------------------------
(***************************************************************************)
(* core/catchup.mjs for one conversation: fixed windows of history, read   *)
(* page by page, with a cursor in the store that is written by             *)
(* compare-and-set.  What becomes of an event is up to Intake.             *)
(*                                                                         *)
(* Time is counted in units as coarse as the API's seconds: a message of   *)
(* the unit in which a page is read may be posted before or after that.    *)
(* The version of the cursor is replaced by what it decides: a write fails *)
(* if another was applied since the version was read.                      *)
(***************************************************************************)
EXTENDS Integers, Sequences, FiniteSets

CONSTANTS
    LastMessage,    \* messages are 1..LastMessage, in the order of posting
    OverlapMs, LookbackMs,
    PageSize,       \* messages of one page
    MaxPages,       \* maxPagesPerConversation
    MaxTime,        \* bound on the clock
    MaxFaults       \* bound: how many faults may happen

ASSUME CatchupAssumption ==
    /\ {LastMessage, OverlapMs, LookbackMs, MaxTime, MaxFaults} \subseteq Nat
    /\ PageSize \in Nat \ {0} /\ MaxPages \in Nat \ {0}

VARIABLES
    now,
    posted,     \* external: the time each message was posted, or Never
    cursor,     \* the row of bridge_cursors
    late,       \* cursor writes whose caller gave up and that may still be applied
    run,        \* conversationRun
    since,      \* history: where the first window began
    faults

catchupVars == <<now, posted, cursor, late, run, since, faults>>

Posts == 1..LastMessage
Never == -1
NoWindow == [start |-> 0, end |-> 0, token |-> -1]
NoCursor == [through |-> -1, window |-> NoWindow]
Window == [start : 0..MaxTime, end : 0..MaxTime, token : 0..LastMessage] \cup {NoWindow}
Cursor == [through : 0..MaxTime, window : Window] \cup {NoCursor}

\* stage: what is awaited; todo: what is left of the page; more: has_more;
\* then: where the run goes on once value is saved; current: the version of the
\* cursor is the one that was read.
Idle == [stage |-> "idle", through |-> 0, window |-> NoWindow, opening |-> FALSE,
         current |-> TRUE, pages |-> 0, todo |-> <<>>, more |-> FALSE,
         value |-> NoCursor, then |-> "idle"]

CatchupTypeOK ==
    /\ now \in 0..MaxTime
    /\ posted \in [Posts -> 0..MaxTime \cup {Never}]
    /\ cursor \in Cursor /\ late \subseteq Cursor
    /\ run.stage \in {"idle", "page", "emit", "wait", "save"}
    /\ run.through \in 0..MaxTime /\ run.window \in Window /\ run.value \in Cursor
    /\ run.pages \in 0..MaxPages
    /\ run.todo \in Seq(Posts) /\ Len(run.todo) <= PageSize
    /\ run.then \in {"idle", "page", "emit"}
    /\ {run.opening, run.current, run.more} \subseteq BOOLEAN
    /\ run.stage = "wait" => run.todo # <<>>
    /\ faults \in 0..MaxFaults

\* The conversation may have been caught up before.
CatchupInit ==
    /\ now = 0 /\ faults = 0 /\ late = {} /\ run = Idle
    /\ posted = [m \in Posts |-> Never]
    /\ cursor \in {NoCursor, [through |-> 0, window |-> NoWindow]}
    /\ since = 0

CatchupFault == faults < MaxFaults /\ faults' = faults + 1

----------------------------------------------------------------------------
(* External: the clock and the chat.                                       *)

Elapse ==
    /\ now < MaxTime /\ now' = now + 1
    /\ UNCHANGED <<posted, cursor, late, run, since, faults>>

Post(m) ==
    /\ posted[m] = Never /\ \A x \in Posts : x < m => posted[x] # Never
    /\ posted' = [posted EXCEPT ![m] = now]
    /\ UNCHANGED <<now, cursor, late, run, since, faults>>

\* The messages of a window, and the place of one of them in their order.
Listed(w) == {m \in Posts : posted[m] \in w.start..w.end}
Position(m, w) == Cardinality({x \in Listed(w) : x <= m})

\* listMessages, in the order of their creation.
History(w) == [k \in 1..Cardinality(Listed(w)) |-> CHOOSE m \in Listed(w) : Position(m, w) = k]

----------------------------------------------------------------------------
(* A run.                                                                  *)

Earliest == IF cursor = NoCursor THEN now - LookbackMs ELSE cursor.through - OverlapMs

\* Slip: the start of a window may lie before the beginning of time.
StartUnbounded == Earliest

Start == IF Earliest < 0 THEN 0 ELSE Earliest

Saving(r, value, then) == [r EXCEPT !.stage = "save", !.value = value, !.then = then]

\* conversationRun up to its first page.  A window that is open goes on where
\* it stood; a first window is saved before it is read; any other is derived
\* from the checkpoint and not saved yet.
BeginRun ==
    LET window == IF cursor.window # NoWindow THEN cursor.window
                  ELSE [start |-> Start, end |-> now, token |-> 0]
        begun  == [Idle EXCEPT !.stage = "page", !.window = window,
                       !.through = IF cursor = NoCursor THEN Start ELSE cursor.through,
                       !.opening = cursor # NoCursor /\ cursor.window = NoWindow]
    IN  /\ run.stage = "idle"
        /\ run' = IF cursor = NoCursor
                  THEN Saving(begun, [through |-> Start, window |-> window], "page")
                  ELSE begun
        /\ UNCHANGED <<now, posted, cursor, late, since, faults>>

Closed == [through |-> run.window.end, window |-> NoWindow]

\* One page was read.  An open window is saved once there is work in it; an
\* idle conversation only moves its checkpoint.
Fetch ==
    LET list  == History(run.window)
        rest  == SubSeq(list, run.window.token + 1, Len(list))
        items == IF Len(rest) > PageSize THEN SubSeq(rest, 1, PageSize) ELSE rest
        more  == Len(rest) > PageSize
        read  == [run EXCEPT !.stage = "emit", !.opening = FALSE, !.pages = @ + 1,
                             !.todo = items, !.more = more]
    IN  /\ run.stage = "page" /\ run.pages < MaxPages
        /\ run' = IF ~run.opening THEN read
                  ELSE IF items = <<>> THEN Saving(read, Closed, "idle")
                  ELSE Saving(read, [through |-> run.through, window |-> run.window], "emit")
        /\ UNCHANGED <<now, posted, cursor, late, since, faults>>

\* The page budget is spent: the window stays open.
Incomplete ==
    /\ run.stage = "page" /\ run.pages = MaxPages
    /\ run' = Idle
    /\ UNCHANGED <<now, posted, cursor, late, since, faults>>

\* Slip: the next page is not recorded.
TokenKept == run.window

NextPage == [run.window EXCEPT !.token = @ + PageSize]

\* All events of the page are through: the checkpoint.
PageDone ==
    /\ run.stage = "emit" /\ run.todo = <<>>
    /\ run' = IF run.more
              THEN Saving([run EXCEPT !.window = NextPage],
                          [through |-> run.through, window |-> NextPage], "page")
              ELSE Saving(run, Closed, "idle")
    /\ UNCHANGED <<now, posted, cursor, late, since, faults>>

\* A write that is applied makes those of the same version fail.
Written(value) ==
    /\ cursor' = value /\ late' = {}
    /\ since' = IF cursor = NoCursor THEN value.through ELSE since

Save ==
    /\ run.stage = "save" /\ run.current
    /\ Written(run.value)
    /\ run' = IF run.then = "idle" THEN Idle
              ELSE [run EXCEPT !.stage = run.then, !.value = NoCursor, !.then = "idle"]
    /\ UNCHANGED <<now, posted, faults>>

\* cursor_conflict: the run ends, the next one reads the cursor again.
SaveRefused ==
    /\ run.stage = "save" /\ ~run.current
    /\ run' = Idle
    /\ UNCHANGED <<now, posted, cursor, late, since, faults>>

\* The write fails, or its caller gives up and it may be applied later.
SaveFails ==
    /\ run.stage = "save" /\ CatchupFault
    /\ run' = Idle
    /\ late' \in {late, IF run.current THEN late \cup {run.value} ELSE late}
    /\ UNCHANGED <<now, posted, cursor, since>>

LateWrite(value) ==
    /\ value \in late
    /\ Written(value)
    /\ run' = IF run.stage = "idle" THEN run ELSE [run EXCEPT !.current = FALSE]
    /\ UNCHANGED <<now, posted, faults>>

\* A read fails, or an operation outlasts operationTimeoutMs: the run ends and
\* what it awaited goes on without it.
RunFails ==
    /\ run.stage \in {"page", "wait"} /\ CatchupFault
    /\ run' = Idle
    /\ UNCHANGED <<now, posted, cursor, late, since>>

----------------------------------------------------------------------------
(* What Intake reports of the event at the head of the page.               *)

Offered(m) == run.stage = "emit" /\ run.todo # <<>> /\ Head(run.todo) = m
Awaited(m) == run.stage = "wait" /\ Head(run.todo) = m

Passed == [run EXCEPT !.stage = "emit", !.todo = Tail(@)]

\* Slip: a rejection counts as well.
HistoryHearsAny(m, ok) == run' = IF Awaited(m) THEN Passed ELSE run

\* onEvent of the awaited message m resolved, or was rejected.
HistoryHears(m, ok) ==
    run' = IF ~Awaited(m) THEN run ELSE IF ok THEN Passed ELSE Idle

\* No run will read m again: it lies before the open window or behind its
\* token, and before the overlap of the next one.
Behind(m) ==
    LET w == cursor.window
    IN  /\ cursor # NoCursor /\ posted[m] # Never /\ posted[m] >= since
        /\ IF w = NoWindow THEN posted[m] < cursor.through - OverlapMs
           ELSE /\ posted[m] < w.start \/ Position(m, w) <= w.token
                /\ posted[m] < w.end - OverlapMs
=============================================================================

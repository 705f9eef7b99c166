------------------------- MODULE StorageTransaction -------------------------
(***************************************************************************)
(* withConnection of storage/connection.mjs: every SQL statement of the    *)
(* bridge runs inside one of its calls.  A call takes a connection of the  *)
(* pool, runs its operation there (inside a transaction if it asked for    *)
(* one) and answers its caller, against a deadline timer that may fire at  *)
(* any point.  The MySQL server and the wire are external: a statement may *)
(* be executed after the caller gave up, an answer may be lost, and a      *)
(* session whose connection is gone is rolled back some time later.        *)
(***************************************************************************)
EXTENDS Naturals, FiniteSets

CONSTANTS
    Call,           \* calls of withConnection
    Transactional,  \* those with transaction: true
    NoCall,
    Conn,           \* physical connections, dead ones included
    PoolLimit       \* connectionLimit

ASSUME StorageAssumption ==
    /\ Transactional \subseteq Call
    /\ NoCall \notin Call
    /\ IsFiniteSet(Conn)
    /\ PoolLimit \in Nat \ {0}

VARIABLES
    stage,      \* where a call is
    expired,    \* its deadline timer fired
    answer,     \* what the statement it awaits came back with
    reply,      \* how its promise settled: a code of errors.mjs, or "ok"
    pool,       \* each connection, as the pool sees it
    user,       \* the call a connection was last lent to
    wire,       \* the statement under way to the server, or executing
    tx,         \* the call whose transaction is open in the session
    applied     \* the calls whose effect is durable

client == <<stage, expired, answer, reply>>
server == <<wire, tx, applied>>
vars == <<client, pool, user, server>>

Statement == {"begin", "operation", "commit", "rollback"}
Stage     == {"idle", "acquire", "done"} \cup Statement
Reply     == {"none", "ok", "store_timeout", "commit_unknown", "store_error"}
\* "broken": lent, and the transport has failed under it.
PoolState == {"none", "free", "lent", "broken", "destroyed"}

TypeOK ==
    /\ stage \in [Call -> Stage]
    /\ expired \in [Call -> BOOLEAN]
    /\ answer \in [Call -> {"none", "ok", "error"}]
    /\ reply \in [Call -> Reply]
    /\ pool \in [Conn -> PoolState]
    /\ user \in [Conn -> Call \cup {NoCall}]
    /\ wire \in [Conn -> Statement \cup {"none"}]
    /\ tx \in [Conn -> Call \cup {NoCall}]
    /\ applied \in [Call -> BOOLEAN]

Init ==
    /\ stage = [c \in Call |-> "idle"]
    /\ expired = [c \in Call |-> FALSE]
    /\ answer = [c \in Call |-> "none"]
    /\ reply = [c \in Call |-> "none"]
    /\ pool = [k \in Conn |-> "none"]
    /\ user = [k \in Conn |-> NoCall]
    /\ wire = [k \in Conn |-> "none"]
    /\ tx = [k \in Conn |-> NoCall]
    /\ applied = [c \in Call |-> FALSE]

----------------------------------------------------------------------------
Held == {"lent", "broken"}
Uses(c, k) == user[k] = c /\ pool[k] \in Held
Waits(c, s) == stage[c] = s /\ ~expired[c]
Answered(c, s, a) == Waits(c, s) /\ answer[c] = a

\* await connection.<statement>(): on a broken connection it fails at once.
Send(c, k, s) ==
    /\ stage' = [stage EXCEPT ![c] = s]
    /\ wire' = IF pool[k] = "lent" THEN [wire EXCEPT ![k] = s] ELSE wire
    /\ answer' = [answer EXCEPT ![c] = IF pool[k] = "lent" THEN "none" ELSE "error"]

\* The caller's promise settles once: what follows the first has no effect.
Settle(c, code) ==
    /\ stage' = [stage EXCEPT ![c] = "done"]
    /\ reply' = [reply EXCEPT ![c] = IF @ = "none" THEN code ELSE @]

KeepConnection(k) == UNCHANGED pool             \* slip: neither released nor destroyed

\* connection.release(): the pool does not keep a connection that failed.
Release(k) == pool' = [pool EXCEPT ![k] = IF @ = "broken" THEN "destroyed" ELSE "free"]
Destroy(k) == pool' = [pool EXCEPT ![k] = "destroyed"]

----------------------------------------------------------------------------
(* The call.                                                               *)

Start(c) ==
    /\ stage[c] = "idle"
    /\ stage' = [stage EXCEPT ![c] = "acquire"]
    /\ UNCHANGED <<expired, answer, reply, pool, user, server>>

Acquire(c, k) ==
    /\ Waits(c, "acquire") /\ pool[k] = "free"
    /\ pool' = [pool EXCEPT ![k] = "lent"]
    /\ user' = [user EXCEPT ![k] = c]
    /\ stage' = [stage EXCEPT ![c] = IF c \in Transactional THEN "begin" ELSE "operation"]
    /\ wire' = [wire EXCEPT ![k] = IF c \in Transactional THEN "begin" ELSE "operation"]
    /\ UNCHANGED <<expired, answer, reply, tx, applied>>

\* A connection that arrives after the deadline goes straight back.
AcquireLate(c, k) ==
    /\ stage[c] = "acquire" /\ expired[c] /\ pool[k] = "free"
    /\ stage' = [stage EXCEPT ![c] = "done"]
    /\ UNCHANGED <<expired, answer, reply, pool, user, server>>

\* The queue of the pool is full, or the server refuses the connection.
AcquireFails(c) ==
    /\ stage[c] = "acquire"
    /\ Settle(c, "store_error")
    /\ UNCHANGED <<expired, answer, pool, user, server>>

Begun(c, k) ==
    /\ Uses(c, k) /\ Answered(c, "begin", "ok")
    /\ Send(c, k, "operation")
    /\ UNCHANGED <<expired, reply, pool, user, tx, applied>>

\* operation(connection) resolved.
OperationDone(c, k) ==
    /\ Uses(c, k) /\ Answered(c, "operation", "ok")
    /\ IF c \in Transactional
       THEN Send(c, k, "commit") /\ UNCHANGED <<reply, pool>>
       ELSE Settle(c, "ok") /\ Release(k) /\ UNCHANGED <<answer, wire>>
    /\ UNCHANGED <<expired, user, tx, applied>>

Committed(c, k) ==
    /\ Uses(c, k) /\ Answered(c, "commit", "ok")
    /\ Settle(c, "ok") /\ Release(k)
    /\ UNCHANGED <<expired, answer, user, server>>

\* A failed COMMIT proves nothing: the connection is not used again.
CommitFails(c, k) ==
    /\ Uses(c, k) /\ Answered(c, "commit", "error")
    /\ Settle(c, "commit_unknown") /\ Destroy(k)
    /\ UNCHANGED <<expired, answer, user, server>>

StatementFails(c, k) ==
    /\ Uses(c, k)
    /\ Answered(c, "begin", "error") \/ Answered(c, "operation", "error")
    /\ IF c \in Transactional
       THEN Send(c, k, "rollback") /\ UNCHANGED <<reply, pool>>
       ELSE Settle(c, "store_error") /\ Release(k) /\ UNCHANGED <<answer, wire>>
    /\ UNCHANGED <<expired, user, tx, applied>>

\* Slip: the connection is released even when ROLLBACK failed.
RolledBackOrNot(c, k) ==
    /\ Uses(c, k) /\ Waits(c, "rollback") /\ answer[c] # "none"
    /\ Settle(c, "store_error") /\ Release(k)
    /\ UNCHANGED <<expired, answer, user, server>>

\* Only a confirmed ROLLBACK lets the connection go back to the pool.
RolledBack(c, k) ==
    /\ Uses(c, k) /\ Waits(c, "rollback") /\ answer[c] # "none"
    /\ Settle(c, "store_error")
    /\ IF answer[c] = "ok" THEN Release(k) ELSE Destroy(k)
    /\ UNCHANGED <<expired, answer, user, server>>

\* Slips: `committing' ignored; the reason instead of the code.
TimeoutCodeAlike(s) == "store_timeout"
TimeoutReason(s) == IF s = "commit" THEN "commit_timeout" ELSE "operation_timeout"
TimeoutCode(s) == IF s = "commit" THEN "commit_unknown" ELSE "store_timeout"

\* Slip: the deadline does not cover the wait for a connection.
ArmedOnceConnected(c) == stage[c] \in Statement /\ ~expired[c]
Armed(c) == stage[c] \notin {"idle", "done"} /\ ~expired[c]

\* setTimeout(..., timeoutMs); the finally of the call clears it.
Timer(c) ==
    /\ Armed(c)
    /\ expired' = [expired EXCEPT ![c] = TRUE]
    /\ reply' = [reply EXCEPT ![c] = TimeoutCode(stage[c])]
    /\ IF \E k \in Conn : Uses(c, k)
       THEN \E k \in Conn : Uses(c, k) /\ Destroy(k)
       ELSE UNCHANGED pool
    /\ UNCHANGED <<stage, answer, user, server>>

\* Whatever the call awaited comes back to `if (expired) return'; its
\* connection is destroyed, nothing more is sent on it.
Abandon(c) ==
    /\ expired[c] /\ stage[c] \in Statement
    /\ stage' = [stage EXCEPT ![c] = "done"]
    /\ UNCHANGED <<expired, answer, reply, pool, user, server>>

----------------------------------------------------------------------------
(* The pool, the wire and the server.                                      *)

Connect(k) ==
    /\ pool[k] = "none"
    /\ Cardinality({x \in Conn : pool[x] \in {"free"} \cup Held}) < PoolLimit
    /\ pool' = [pool EXCEPT ![k] = "free"]
    /\ UNCHANGED <<client, user, server>>

\* The server executes a statement.  BEGIN commits what the session had open.
\* The answer reaches the call only over a connection that is still up.
Execute(k) ==
    /\ wire[k] # "none"
    /\ wire' = [wire EXCEPT ![k] = "none"]
    /\ tx' = [tx EXCEPT ![k] = CASE wire[k] = "begin" -> user[k]
                                 [] wire[k] = "operation" -> tx[k]
                                 [] OTHER -> NoCall]
    /\ applied' = [c \in Call |->
           \/ applied[c]
           \/ c = tx[k] /\ wire[k] \in {"begin", "commit"}
           \/ c = user[k] /\ wire[k] = "operation" /\ c \notin Transactional]
    /\ answer' = IF pool[k] = "lent" THEN [answer EXCEPT ![user[k]] = "ok"] ELSE answer
    /\ UNCHANGED <<stage, expired, reply, pool, user>>

Refuse(k) ==
    /\ wire[k] # "none" /\ pool[k] = "lent"
    /\ wire' = [wire EXCEPT ![k] = "none"]
    /\ answer' = [answer EXCEPT ![user[k]] = "error"]
    /\ UNCHANGED <<stage, expired, reply, pool, user, tx, applied>>

\* The transport fails under a call: the statement may be executed or not.
Disconnect(k) ==
    /\ pool[k] = "lent" /\ answer[user[k]] = "none"
    /\ pool' = [pool EXCEPT ![k] = "broken"]
    /\ answer' = [answer EXCEPT ![user[k]] = "error"]
    /\ UNCHANGED <<stage, expired, reply, user, server>>

\* The server notices that the client is gone and rolls back.
SessionEnds(k) ==
    /\ pool[k] \in {"broken", "destroyed"}
    /\ wire' = [wire EXCEPT ![k] = "none"]
    /\ tx' = [tx EXCEPT ![k] = NoCall]
    /\ pool' = [pool EXCEPT ![k] = IF @ = "destroyed" THEN "none" ELSE @]
    /\ UNCHANGED <<client, user, applied>>

----------------------------------------------------------------------------
Step(c, k) ==
    \/ Begun(c, k) \/ OperationDone(c, k) \/ Committed(c, k) \/ CommitFails(c, k)
    \/ StatementFails(c, k) \/ RolledBack(c, k)

Environment(k) == Connect(k) \/ Execute(k) \/ Refuse(k) \/ Disconnect(k) \/ SessionEnds(k)

Next ==
    \/ \E c \in Call : Start(c) \/ AcquireFails(c) \/ Timer(c) \/ Abandon(c)
    \/ \E c \in Call, k \in Conn : Acquire(c, k) \/ AcquireLate(c, k) \/ Step(c, k)
    \/ \E k \in Conn : Environment(k)

Spec == Init /\ [][Next]_vars

\* The event loop runs the continuations and the timer; nothing is assumed of
\* the server.
Fairness == \A c \in Call : WF_vars(Timer(c)) /\ WF_vars(\E k \in Conn : Step(c, k))

FairSpec == Spec /\ Fairness

----------------------------------------------------------------------------
(* Properties.                                                             *)

\* A transaction that failed with any code but commit_unknown left nothing
\* behind, and never will: callers may safely repeat it.
DefiniteErrorAppliedNothing ==
    \A c \in Transactional : reply[c] \in {"store_timeout", "store_error"} => ~applied[c]

\* A call that resolved is durable.
OkIsDurable == \A c \in Call : reply[c] = "ok" => applied[c]

\* A connection in the pool has no open transaction and nothing under way, so
\* its next user cannot commit or see the work of the last one.
PooledIsClean == \A k \in Conn : pool[k] = "free" => tx[k] = NoCall /\ wire[k] = "none"

\* A connection is lent to exactly one call that still has its deadline ahead.
LentToOneLiveCall ==
    \A k \in Conn : pool[k] \in Held =>
        /\ user[k] \in Call /\ stage[user[k]] \in Statement /\ ~expired[user[k]]
        /\ \A x \in Conn : pool[x] \in Held /\ user[x] = user[k] => x = k

\* Every call is answered, even if neither the pool nor the server responds,
\* and no connection is kept for good by a call.
NothingHangs ==
    /\ \A c \in Call : stage[c] = "acquire" ~> reply[c] # "none"
    /\ \A k \in Conn : pool[k] \in Held ~> pool[k] \notin Held
=============================================================================

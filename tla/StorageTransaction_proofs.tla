---------------------- MODULE StorageTransaction_proofs ----------------------
(***************************************************************************)
(* The safety properties of StorageTransaction for every set of calls and  *)
(* connections and every pool limit.                                       *)
(***************************************************************************)
EXTENDS StorageTransaction, TLAPS

\* COMMIT was sent for the call, and the caller was not told otherwise.
CommitSent(c) ==
    \/ stage[c] = "commit" /\ reply[c] \in {"none", "commit_unknown"}
    \/ reply[c] \in {"ok", "commit_unknown"}

\* What a call's own variables say of each other.
CallOK(c) ==
    /\ ~expired[c] /\ stage[c] # "done" => reply[c] = "none"
    /\ expired[c] => reply[c] \in {"store_timeout", "commit_unknown"}
    /\ expired[c] /\ stage[c] = "commit" => reply[c] = "commit_unknown"
    /\ c \in Transactional /\ applied[c] => CommitSent(c)
    /\ reply[c] = "ok" => applied[c]
    /\ stage[c] = "commit" /\ answer[c] = "ok" => applied[c]
    /\ stage[c] \in {"begin", "commit", "rollback"} => c \in Transactional
    /\ c \notin Transactional /\ stage[c] = "operation" /\ answer[c] = "ok" => applied[c]
    /\ stage[c] \in {"idle", "acquire"} => answer[c] = "none"
    /\ stage[c] = "idle" => ~expired[c]

\* A statement under way, and the transaction it belongs to.
SessionOK(k) ==
    /\ pool[k] \in {"none", "free"} => wire[k] = "none" /\ tx[k] = NoCall
    /\ tx[k] # NoCall => tx[k] = user[k] /\ user[k] \in Transactional
    /\ wire[k] # "none" => user[k] \in Call
    /\ wire[k] \in {"begin", "commit", "rollback"} => user[k] \in Transactional
    /\ wire[k] = "begin" => tx[k] = NoCall
    /\ wire[k] = "commit" => CommitSent(user[k])

\* What a lent connection and its call know of each other.
LentOK(k) ==
    /\ pool[k] \in Held => /\ user[k] \in Call
                           /\ stage[user[k]] \in Statement
                           /\ ~expired[user[k]]
    /\ pool[k] = "broken" => answer[user[k]] = "error"
    /\ pool[k] = "lent" /\ wire[k] # "none" =>
          wire[k] = stage[user[k]] /\ answer[user[k]] = "none"
    /\ pool[k] = "lent" /\ user[k] \in Transactional =>
          /\ stage[user[k]] = "begin" /\ answer[user[k]] = "ok" => tx[k] = user[k]
          /\ stage[user[k]] = "operation" => tx[k] = user[k]
          /\ stage[user[k]] = "commit" /\ wire[k] = "commit" => tx[k] = user[k]
          /\ stage[user[k]] \in {"commit", "rollback"} /\ answer[user[k]] = "ok" => tx[k] = NoCall

OneUser == \A k, x \in Conn :
    pool[k] \in Held /\ pool[x] \in Held /\ user[x] = user[k] => x = k

IInv ==
    /\ TypeOK
    /\ \A c \in Call : CallOK(c)
    /\ \A k \in Conn : SessionOK(k)
    /\ \A k \in Conn : LentOK(k)
    /\ OneUser

----------------------------------------------------------------------------
\* The initial states satisfy the invariant.
LEMMA InitOK == Init => IInv
BY StorageAssumption DEF Init, IInv, TypeOK, CallOK, SessionOK, LentOK, OneUser,
    CommitSent, Held, Stage, Statement, Reply, PoolState

\* Every step keeps it.  One step of the proof for each action.
LEMMA StepOK == ASSUME IInv, [Next]_vars PROVE IInv'
<1> USE StorageAssumption DEF IInv, TypeOK, CallOK, SessionOK, LentOK, OneUser,
        CommitSent, Held, Stage, Statement, Reply, PoolState
<1>1. ASSUME NEW c \in Call, Start(c) PROVE IInv'
  BY <1>1, SMTT(60) DEF Start, server
<1>2. ASSUME NEW c \in Call, NEW k \in Conn, Acquire(c, k) PROVE IInv'
  BY <1>2, SMTT(60) DEF Acquire, Waits
<1>3. ASSUME NEW c \in Call, NEW k \in Conn, AcquireLate(c, k) PROVE IInv'
  BY <1>3, SMTT(60) DEF AcquireLate, server
<1>4. ASSUME NEW c \in Call, AcquireFails(c) PROVE IInv'
  BY <1>4, SMTT(60) DEF AcquireFails, Settle, server
<1>5. ASSUME NEW c \in Call, NEW k \in Conn, Begun(c, k) PROVE IInv'
  BY <1>5, SMTT(60) DEF Begun, Uses, Answered, Waits, Send
<1>6. ASSUME NEW c \in Call, NEW k \in Conn, OperationDone(c, k) PROVE IInv'
  BY <1>6, SMTT(60) DEF OperationDone, Uses, Answered, Waits, Send, Settle, Release
<1>7. ASSUME NEW c \in Call, NEW k \in Conn, Committed(c, k) PROVE IInv'
  BY <1>7, SMTT(60) DEF Committed, Uses, Answered, Waits, Settle, Release, server
<1>8. ASSUME NEW c \in Call, NEW k \in Conn, CommitFails(c, k) PROVE IInv'
  BY <1>8, SMTT(60) DEF CommitFails, Uses, Answered, Waits, Settle, Destroy, server
<1>9. ASSUME NEW c \in Call, NEW k \in Conn, StatementFails(c, k) PROVE IInv'
  BY <1>9, SMTT(60) DEF StatementFails, Uses, Answered, Waits, Send, Settle, Release
<1>10. ASSUME NEW c \in Call, NEW k \in Conn, RolledBack(c, k) PROVE IInv'
  BY <1>10, SMTT(60) DEF RolledBack, Uses, Waits, Settle, Release, Destroy, server
<1>11. ASSUME NEW c \in Call, Timer(c) PROVE IInv'
  BY <1>11, SMTT(60) DEF Timer, Uses, Armed, TimeoutCode, Destroy, server
<1>12. ASSUME NEW c \in Call, Abandon(c) PROVE IInv'
  BY <1>12, SMTT(60) DEF Abandon, server
<1>13. ASSUME NEW k \in Conn, Connect(k) PROVE IInv'
  BY <1>13, SMTT(60) DEF Connect, client, server
<1>14. ASSUME NEW k \in Conn, Execute(k) PROVE IInv'
  BY <1>14, SMTT(60) DEF Execute
<1>15. ASSUME NEW k \in Conn, Refuse(k) PROVE IInv'
  BY <1>15, SMTT(60) DEF Refuse
<1>16. ASSUME NEW k \in Conn, Disconnect(k) PROVE IInv'
  BY <1>16, SMTT(60) DEF Disconnect, server
<1>17. ASSUME NEW k \in Conn, SessionEnds(k) PROVE IInv'
  BY <1>17, SMTT(60) DEF SessionEnds, client
<1>18. CASE UNCHANGED vars
  BY <1>18 DEF vars, client, server
<1> QED
  BY <1>1, <1>2, <1>3, <1>4, <1>5, <1>6, <1>7, <1>8, <1>9, <1>10, <1>11, <1>12, <1>13, <1>14, <1>15, <1>16, <1>17, <1>18 DEF Next, Step, Environment

\* IInv is an invariant of the specification.
LEMMA Invariant == Spec => []IInv
BY InitOK, StepOK, PTL DEF Spec

----------------------------------------------------------------------------
\* Every reachable state is well typed.
THEOREM StorageTypeCorrect == Spec => []TypeOK
<1>1. IInv => TypeOK
  BY DEF IInv
<1> QED
  BY Invariant, <1>1, PTL

\* connection.mjs: any code but commit_unknown means the transaction left
\* nothing behind, whatever the server still does with what was sent.
THEOREM RetryIsSafe == Spec => []DefiniteErrorAppliedNothing
<1>1. IInv => DefiniteErrorAppliedNothing
  BY StorageAssumption DEF IInv, CallOK, CommitSent, DefiniteErrorAppliedNothing
<1> QED
  BY Invariant, <1>1, PTL

\* connection.mjs: a promise that resolved stands for a durable effect.
THEOREM ResolvedIsDurable == Spec => []OkIsDurable
<1>1. IInv => OkIsDurable
  BY DEF IInv, CallOK, OkIsDurable
<1> QED
  BY Invariant, <1>1, PTL

\* connection.mjs: no transaction and no statement is ever left on a
\* connection that goes back to the pool.
THEOREM PoolIsClean == Spec => []PooledIsClean
<1>1. IInv => PooledIsClean
  BY DEF IInv, SessionOK, PooledIsClean
<1> QED
  BY Invariant, <1>1, PTL

\* connection.mjs: a lent connection serves one call, and that call has not
\* reached its deadline.
THEOREM LentOnce == Spec => []LentToOneLiveCall
<1>1. IInv => LentToOneLiveCall
  BY DEF IInv, LentOK, OneUser, LentToOneLiveCall
<1> QED
  BY Invariant, <1>1, PTL
=============================================================================

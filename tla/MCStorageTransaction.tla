------------------------ MODULE MCStorageTransaction ------------------------
(***************************************************************************)
(* Model checking of the storage layer below the tables: calls of          *)
(* withConnection (StorageTransaction), and the writer that bounds how     *)
(* many of them carry realtime events (EventWriteQueue).  To the queue a   *)
(* call of withConnection is no more than a write that settles, so only    *)
(* one of the two moves in a behaviour.                                    *)
(***************************************************************************)
EXTENDS StorageTransaction, EventWriteQueue

NoCallYet == (\A c \in Call : stage[c] = "idle") /\ (\A k \in Conn : pool[k] = "none")
NoWriteYet == \A w \in Write : writeStage[w] = "new"

StorageInit == Init /\ QueueInit

StorageNext ==
    \/ NoWriteYet /\ Next /\ UNCHANGED queueVars
    \/ NoCallYet /\ QueueNext /\ UNCHANGED vars

StorageSpec ==
    /\ StorageInit /\ [][StorageNext]_<<vars, queueVars>>
    /\ Fairness
    /\ \A w \in Write : WF_queueVars(SettleWrite(w))

\* Every call is answered and every connection given back (NothingHangs of
\* StorageTransaction); every accepted write is carried out, or is progress and was dropped.
EverythingEnds == NothingHangs /\ EveryWriteEnds
=============================================================================

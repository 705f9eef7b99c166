----------------------- MODULE MCCommunicationWorker -----------------------
(* CommunicationWorker on small instances for TLC. *)
EXTENDS CommunicationWorker

CONSTANTS e1, e2

\* e2 follows e1 in the outbox of one reply.
Chain == [e \in Effect |-> IF e = e2 /\ e1 \in Effect THEN e1 ELSE NoEffect]

(* The two queues share the worker but no row: a behaviour fills one of them. *)
OneTable ==
    \/ \A h \in Hook : row[h].status = "absent"
    \/ \A e \in Effect : row[e].status = "absent"
=============================================================================

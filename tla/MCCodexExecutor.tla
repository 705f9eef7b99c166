--------------------------- MODULE MCCodexExecutor ---------------------------
(* Three calls for TLC: two of one message, and one of another between or beside them. *)
EXTENDS CodexExecutor, TLC

CONSTANTS m1, m2

MCMessageOf == (1 :> m1) @@ (2 :> m1) @@ (3 :> m2)
MCWhenBusy == (m1 :> {"steer"}) @@ (m2 :> Policies)
=============================================================================

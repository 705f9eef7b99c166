-------------------------- MODULE MCForwardRuntime --------------------------
(* ForwardRuntime on small instances for TLC. *)
EXTENDS ForwardRuntime, TLC

\* Claims differ in their UUIDs only.
ClaimSymmetry == Permutations(Owner)
=============================================================================

-------------------------- MODULE MCOutboundMedia --------------------------
(* OutboundMedia on a small instance for TLC. *)
EXTENDS OutboundMedia, TLC

CONSTANTS r1, r2

RunSymmetry == Permutations(Run)
=============================================================================

---------------------------- MODULE MCEventStreams ----------------------------
(***************************************************************************)
(* TLC instance: two consumers, which are interchangeable.                 *)
(***************************************************************************)
EXTENDS EventStreams, TLC

CONSTANTS c1, c2

MCConsumers == {c1, c2}
ConsumerSymmetry == Permutations(MCConsumers)
=============================================================================
